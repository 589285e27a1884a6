----------------------------- MODULE CorrEngine -----------------------------
(***************************************************************************)
(* The alarm correlation engine vgce, src/src/cmd/vizgems/dp/alarm/ce, as  *)
(* vg_alarm_ce.sh runs it. Every run loads its state file, loads the rules *)
(* file if it changed, reads alarms and clears, tickets and prunes, and    *)
(* writes the state file. The state is a set of groups of alarms (cc): a   *)
(* group holds matches, a match a rule and the alarms that met it. An      *)
(* alarm may be in several matches; alarms and rules are counted by their  *)
(* references. What a rule's expressions answer is left open.              *)
(***************************************************************************)
EXTENDS Integers, FiniteSets, Sequences, FiniteSetsExt

CONSTANTS
  Alarms,
  Keeps,        \* those of ticket mode KEEP; the others have mode DEFER
  Time,         \* Time[a]: when alarm a was issued, 1 or later
  Rules,        \* the versions of the rules
  RuleId,       \* RuleId[r]: two versions of one rule have the same id
  BadPrune,     \* rules whose PRUNE fails: they do not mention _prunetime
  RulesFiles,   \* the rules files, sequences of rules
  None,
  RuleN,        \* bound: slots for rules
  CcN, MatchN,  \* bounds: groups, and matches of a group
  MaxFails      \* bound: alarms that fail and kills of vgce

ASSUME ConstantsAssumption ==
  /\ Keeps \subseteq Alarms /\ IsFiniteSet(Alarms)
  /\ Time \in [Alarms -> Nat \ {0}]
  /\ None \notin Rules \cup RulesFiles
  /\ BadPrune \subseteq Rules /\ RulesFiles \subseteq Seq(Rules)
ASSUME BoundsAssumption ==
  RuleN \in Nat /\ CcN \in Nat /\ MatchN \in Nat /\ MaxFails \in Nat

VARIABLES
  pc,        \* "off", "load", "read", "rest", "ticket" or "prune"
  goal,      \* after pruning: "read" on, "save" the state, or it is "lost"
  loaded,    \* the rules file in force, None before the first
  toload,    \* the rules of the file not loaded yet
  rules,     \* rules[s]: the rule in slot s
  rrc,       \* rrc[s]: rule_t.rc, matches of that rule
  marked,    \* slots of rules the file being loaded has
  matchs,    \* matchs[<<c, n>>]: match n of group c
  inuse, ticketed, \* groups
  ccl,       \* where the search for a free group begins
  live,      \* alarms in memory
  arc,       \* arc[a]: alarm_t.rc, matches that hold a
  mn,        \* this run matched an alarm
  came,      \* history: alarms read so far
  settled,   \* history: alarms in a ticket, cleared, or given up
  fails

ruleVars == <<loaded, toload, rules, rrc, marked>>
ccVars == <<matchs, inuse, ticketed, ccl, live, arc>>
vars == <<pc, goal, ruleVars, ccVars, mn, came, settled, fails>>

RuleSlots == 1..RuleN
Ccs == 0..CcN - 1
Slots == Ccs \X (1..MatchN)
Match == [rule : RuleSlots, of : Rules, alarms : SUBSET Alarms, fa : Nat, la : Nat,
          keep : BOOLEAN]
ASSUME NoneAssumption == None \notin Match
Used == {i \in Slots : matchs[i] # None}
Loaded == {s \in RuleSlots : rules[s] # None}
Times(A) == {Time[a] : a \in A}

\* the state of vgce -new, and of the run after ce.state was moved away
Empty ==
  /\ loaded' = None /\ toload' = <<>> /\ marked' = {}
  /\ rules' = [s \in RuleSlots |-> None] /\ rrc' = [s \in RuleSlots |-> 0]
  /\ matchs' = [i \in Slots |-> None]
  /\ inuse' = {} /\ ticketed' = {} /\ ccl' = 0
  /\ live' = {} /\ arc' = [a \in Alarms |-> 0]

Init ==
  /\ pc = "off" /\ goal = "save" /\ mn = FALSE
  /\ loaded = None /\ toload = <<>> /\ marked = {}
  /\ rules = [s \in RuleSlots |-> None] /\ rrc = [s \in RuleSlots |-> 0]
  /\ matchs = [i \in Slots |-> None]
  /\ inuse = {} /\ ticketed = {} /\ ccl = 0
  /\ live = {} /\ arc = [a \in Alarms |-> 0]
  /\ came = {} /\ settled = {} /\ fails = 0

---------------------------------------------------------------------------
(* Removing: by time, by rule and by clear *)

\* mutant: the times of a match are not computed again
LeftOld(m, gone) == [m EXCEPT !.alarms = @ \ gone]
\* what removing leaves of a match; maxtmode stays as it was
Left(m, gone) ==
  LET left == m.alarms \ gone
  IN [m EXCEPT !.alarms = left, !.fa = Min(Times(left)), !.la = Max(Times(left))]

RcAfter(s, emptied) ==
  rrc[s] - Cardinality({i \in emptied : matchs[i].rule = s})

\* mutant: a group that goes leaves its mark to the next of its number
TicketedStays(groups) == ticketed
TicketedAfter(groups) == ticketed \cap groups

\* The alarms gone[i] leave the matches i; a match or group that is left
\* empty goes, and an alarm no match refers to
Removal(gone) ==
  LET emptied == {i \in Used : matchs[i].alarms \subseteq gone[i]}
      left == Used \ emptied
  IN /\ matchs' = [i \in Slots |->
                     IF i \in left THEN Left(matchs[i], gone[i]) ELSE None]
     /\ arc' = [a \in Alarms |->
                  arc[a] - Cardinality({i \in Used : a \in gone[i] \cap matchs[i].alarms})]
     /\ live' = {a \in live : arc'[a] > 0}
     /\ rrc' = [s \in RuleSlots |-> RcAfter(s, emptied)]
     /\ inuse' = {c \in inuse : \E i \in left : i[1] = c}
     /\ ticketed' = TicketedAfter(inuse')
     /\ UNCHANGED ccl

OfRule(s) == [i \in Slots |->
  IF i \in Used /\ matchs[i].rule = s THEN matchs[i].alarms ELSE {}]

---------------------------------------------------------------------------
(* CEinit *)

\* f = loaded: the file has not changed, or has not been stable for 5 seconds
Begin(f) ==
  /\ pc = "off"
  /\ pc' = IF f = loaded THEN "read" ELSE "load"
  /\ toload' = IF f = loaded THEN <<>> ELSE f
  /\ loaded' = f /\ marked' = {} /\ mn' = FALSE
  /\ UNCHANGED <<goal, rules, rrc, ccVars, came, settled, fails>>

\* mutant: rules of one id are taken to be the same rule
SameById(r, q) == RuleId[r] = RuleId[q]
\* comprules
SameRule(r, q) == r = q

\* The rule is put into a free slot; then it replaces the old version, with
\* its matches, or goes again if it is the same
LoadRule ==
  LET r == Head(toload)
      new == Min(RuleSlots \ Loaded)
      old == {s \in Loaded : RuleId[rules[s]] = RuleId[r]}
      same == \E s \in old : SameRule(r, rules[s])
  IN
  /\ pc = "load" /\ toload # <<>> /\ Loaded # RuleSlots
  /\ toload' = Tail(toload)
  /\ IF same
     THEN /\ marked' = marked \cup old
          /\ UNCHANGED <<rules, rrc, ccVars>>
     ELSE /\ marked' = (marked \ old) \cup {new}
          /\ rules' = [s \in RuleSlots |-> IF s = new THEN r
                          ELSE IF s \in old THEN None ELSE rules[s]]
          /\ IF old = {} THEN UNCHANGED <<rrc, ccVars>>
             ELSE \E s \in old : Removal(OfRule(s))
  /\ UNCHANGED <<pc, goal, loaded, mn, came, settled, fails>>

RemoveUnmarked(s) ==
  /\ pc = "load" /\ toload = <<>>
  /\ s \in Loaded \ marked
  /\ rules' = [rules EXCEPT ![s] = None]
  /\ Removal(OfRule(s))
  /\ UNCHANGED <<pc, goal, loaded, toload, marked, mn, came, settled, fails>>

\* mutant: a rule moves although matches refer to it
CanMoveAny(s, gap) == s > gap
CanMove(s, gap) == s > gap /\ rrc[s] = 0

\* packrules: every gap, from below, takes the first rule above that no match
\* refers to
Packed ==
  LET Pack[g \in 0..RuleN] ==
        IF g = 0 THEN rules
        ELSE LET p == Pack[g - 1]
                 movable == {s \in RuleSlots : p[s] # None /\ CanMove(s, g)}
             IN IF p[g] # None \/ movable = {} THEN p
                ELSE [p EXCEPT ![g] = p[Min(movable)], ![Min(movable)] = None]
  IN Pack[RuleN]

LoadEnd ==
  /\ pc = "load" /\ toload = <<>> /\ Loaded \subseteq marked
  /\ rules' = Packed /\ marked' = {}
  /\ pc' = "read"
  /\ UNCHANGED <<goal, loaded, toload, rrc, ccVars, mn, came, settled, fails>>

---------------------------------------------------------------------------
(* Alarms and clears *)

\* mutant: only an alarm that makes a match has groups ticketed
CountsNew(joined, made) == made # {}
\* what insertmatches returns is added to mn
Counts(joined, made) == joined # {} \/ made # {}

\* insertcc: the first free group from ccl on, else from the beginning
FreeCc ==
  LET free == Ccs \ inuse
      above == {c \in free : c >= ccl}
  IN IF above # {} THEN Min(above) ELSE Min(free)

\* insertccmatch, for each of the rules that make a match, in their order
NewSlot(c, s, fits) ==
  LET n == Cardinality({q \in fits : q < s})
      free == {k \in 1..MatchN : matchs[<<c, k>>] = None}
  IN <<c, CHOOSE k \in free : Cardinality({j \in free : j < k}) = n>>

New(s, a) == [rule |-> s, of |-> rules[s], alarms |-> {a},
              fa |-> Time[a], la |-> Time[a], keep |-> a \in Keeps]
Joined(m, a) == [m EXCEPT !.alarms = @ \cup {a},
  !.fa = Min({@, Time[a]}), !.la = Max({@, Time[a]}), !.keep = @ \/ a \in Keeps]

\* Alarm a joins the matches in joined, the first its rule lets it join, and
\* makes one for each rule in fits, in the first group it joined or a new one
Insert(a, joined, fits) ==
  LET new == joined = {}
      cc == IF new THEN FreeCc ELSE Min({i[1] : i \in joined})
      made == {NewSlot(cc, s, fits) : s \in fits}
      into == {i[1] : i \in joined} \cup {i[1] : i \in made}
  IN
  /\ Cardinality({k \in 1..MatchN : matchs[<<cc, k>>] = None}) >= Cardinality(fits)
  /\ matchs' = [i \in Slots |->
       IF i \in joined THEN Joined(matchs[i], a)
       ELSE IF i \in made THEN New(CHOOSE s \in fits : NewSlot(cc, s, fits) = i, a)
       ELSE matchs[i]]
  /\ inuse' = inuse \cup into
  /\ ccl' = IF new THEN cc + 1 ELSE ccl
  /\ rrc' = [s \in RuleSlots |-> rrc[s] + (IF s \in fits THEN 1 ELSE 0)]
  /\ arc' = [arc EXCEPT ![a] = @ + Cardinality(joined \cup made)]
  /\ live' = live \cup {a}
  /\ mn' = (mn \/ Counts(joined, made))
  /\ settled' = IF into \cap ticketed # {} THEN settled \cup {a} ELSE settled
  /\ UNCHANGED ticketed

\* what the rules may answer: SMATCH of one match of a rule, FMATCH of a rule
\* that had no such match
MayMatch(joined, fits) ==
  /\ \A i, k \in joined : i # k => matchs[i].rule # matchs[k].rule
  /\ \A i \in joined : matchs[i].rule \notin fits
  /\ fits \subseteq Loaded
  /\ joined # {} \/ Ccs # inuse

Alarm(a, joined, fits) ==
  /\ pc = "read" /\ a \notin came
  /\ joined # {} \/ fits # {}
  /\ MayMatch(joined, fits)
  /\ Insert(a, joined, fits)
  /\ came' = came \cup {a}
  /\ UNCHANGED <<pc, goal, loaded, toload, rules, marked, fails>>

\* simpleticket: no rule wants the alarm, or the engine failed before
Simple(a) ==
  /\ pc \in {"read", "rest"} /\ a \notin came
  /\ came' = came \cup {a} /\ settled' = settled \cup {a}
  /\ UNCHANGED <<pc, goal, ruleVars, ccVars, mn, fails>>

Cleared(gone) == UNION {gone[i] \cap matchs[i].alarms : i \in Used}

\* a clear names a group, or alarms by their object, id or time, or all
Clear(c, A) ==
  /\ pc = "read"
  /\ LET gone == [i \in Slots |-> IF c \in {None, i[1]} THEN A ELSE {}]
     IN Cleared(gone) # {} /\ Removal(gone) /\ settled' = settled \cup Cleared(gone)
  /\ UNCHANGED <<pc, goal, loaded, toload, rules, marked, mn, came, fails>>

---------------------------------------------------------------------------
(* Tickets, pruning and the end of a run *)

\* the clear record with which the script "update" ticks
Heartbeat ==
  /\ pc = "read" /\ inuse # {}
  /\ pc' = "ticket" /\ goal' = "read"
  /\ UNCHANGED <<ruleVars, ccVars, mn, came, settled, fails>>

\* mutant: a match counts as KEEP only by its last alarm
WantsTicketLate(m) == m.keep /\ \E a \in m.alarms \cap Keeps : Time[a] = m.la
\* maxtmode says KEEP
WantsTicket(m) == m.keep

\* more: groups some FTICKET answers TRUE for
UpdateTickets(more) ==
  LET due == {i[1] : i \in {j \in Used : WantsTicket(matchs[j])}}
      now == (due \cup more) \ ticketed
  IN
  /\ pc = "ticket" /\ pc' = "prune"
  /\ more \subseteq inuse \ ticketed
  /\ ticketed' = ticketed \cup now
  /\ settled' = settled \cup UNION {matchs[i].alarms : i \in {j \in Used : j[1] \in now}}
  /\ UNCHANGED <<goal, ruleVars, matchs, inuse, ccl, live, arc, mn, came, fails>>

\* PRUNE answers nothing (0), PRUNEALARM with a time later than the first
\* alarm of the match, or PRUNEMATCH
Cuts(i) == {0} \cup {t \in 1..Max(Times(Alarms)) + 1 : t > matchs[i].fa}
Before(cut) == [i \in Slots |->
  IF i \in Used THEN {a \in matchs[i].alarms : Time[a] < cut[i]} ELSE {}]
BadMatch(i) == rules[matchs[i].rule] \in BadPrune

Prune(cut) ==
  /\ pc = "prune"
  /\ \A i \in Used : cut[i] \in Cuts(i) /\ ~BadMatch(i)
  /\ Removal(Before(cut))
  /\ pc' = IF goal = "read" THEN "read" ELSE "off"
  /\ UNCHANGED <<goal, loaded, toload, rules, marked, mn, came, settled, fails>>

End(update) ==
  /\ pc = "read" /\ goal' = "save"
  /\ pc' = IF mn \/ update THEN "ticket" ELSE "off"
  /\ UNCHANGED <<ruleVars, ccVars, mn, came, settled, fails>>

\* vgce -flush, whose state is then removed
Flush ==
  /\ pc = "read" /\ ~mn
  /\ pc' = "ticket" /\ goal' = "lost"
  /\ UNCHANGED <<ruleVars, ccVars, mn, came, settled, fails>>

---------------------------------------------------------------------------
(* Failures: the rest of the input gets simple tickets, what is in memory  *)
(* is ticketed and the script moves the state away                         *)

\* An expression of a rule fails for alarm a, which other rules may have put
\* into matches before; if none has, the alarm gets no ticket
AlarmFails(a, joined) ==
  /\ pc = "read" /\ a \notin came /\ fails < MaxFails
  /\ MayMatch(joined, {}) \/ joined = {}
  /\ IF joined # {} THEN Insert(a, joined, {})
     ELSE settled' = settled \cup {a} /\ UNCHANGED <<rrc, ccVars, mn>>
  /\ came' = came \cup {a} /\ fails' = fails + 1
  /\ pc' = "rest" /\ goal' = "lost"
  /\ UNCHANGED <<loaded, toload, rules, marked>>

RestEnd ==
  /\ pc = "rest" /\ pc' = "ticket"
  /\ UNCHANGED <<goal, ruleVars, ccVars, mn, came, settled, fails>>

Precedes(i, k) == i[1] < k[1] \/ (i[1] = k[1] /\ i[2] < k[2])

\* Matches before the first of a rule without _prunetime are pruned
PruneFails(cut) ==
  /\ pc = "prune" /\ goal # "lost"
  /\ \E i \in Used : BadMatch(i)
  /\ \A i \in Used : cut[i] \in Cuts(i) /\
       (cut[i] # 0 => \A k \in Used : BadMatch(k) => Precedes(i, k))
  /\ Removal(Before(cut))
  /\ pc' = IF goal = "read" THEN "rest" ELSE "ticket"
  /\ goal' = "lost"
  /\ UNCHANGED <<loaded, toload, rules, marked, mn, came, settled, fails>>

\* after failsafe 3, or a flush, whatever the pruning did
Lose ==
  /\ pc = "prune" /\ goal = "lost"
  /\ Empty
  /\ pc' = "off" /\ goal' = "save"
  /\ UNCHANGED <<mn, came, settled, fails>>

\* vgce is killed: the script moves the state away, nothing is ticketed
Kill ==
  /\ pc # "off" /\ fails < MaxFails
  /\ Empty
  /\ settled' = settled \cup live
  /\ pc' = "off" /\ goal' = "save" /\ fails' = fails + 1
  /\ UNCHANGED <<mn, came>>

Next ==
  \/ \E f \in RulesFiles \cup ({loaded} \ {None}) : Begin(f)
  \/ LoadRule
  \/ \E s \in RuleSlots : RemoveUnmarked(s)
  \/ LoadEnd
  \/ \E a \in Alarms : Simple(a)
  \/ \E a \in Alarms, joined \in SUBSET Used, fits \in SUBSET Loaded :
       Alarm(a, joined, fits)
  \/ \E a \in Alarms, joined \in SUBSET Used : AlarmFails(a, joined)
  \/ \E c \in Ccs : Clear(c, Alarms)
  \/ \E A \in SUBSET live : Clear(None, A)
  \/ Heartbeat
  \/ \E more \in SUBSET inuse : UpdateTickets(more)
  \/ \E cut \in [Used -> 0..Max(Times(Alarms)) + 1] : Prune(cut)
  \/ \E cut \in [Used -> 0..Max(Times(Alarms)) + 1] : PruneFails(cut)
  \/ \E update \in BOOLEAN : End(update)
  \/ Flush \/ RestEnd \/ Lose \/ Kill

Spec == Init /\ [][Next]_vars

---------------------------------------------------------------------------
(* Properties *)

\* Every variable keeps its type.
TypeOK ==
  /\ pc \in {"off", "load", "read", "rest", "ticket", "prune"}
  /\ goal \in {"read", "save", "lost"} /\ mn \in BOOLEAN
  /\ loaded \in RulesFiles \cup {None} /\ toload \in Seq(Rules)
  /\ rules \in [RuleSlots -> Rules \cup {None}] /\ rrc \in [RuleSlots -> Nat]
  /\ marked \subseteq Loaded
  /\ \A i \in Used : matchs[i] \in Match /\ matchs[i].rule \in Loaded
  /\ inuse \subseteq Ccs /\ ticketed \subseteq inuse /\ ccl \in 0..CcN
  /\ live \subseteq came /\ arc \in [Alarms -> Nat]
  /\ came \subseteq Alarms /\ settled \subseteq came /\ fails \in 0..MaxFails

\* What the engine keeps beside the alarms of its matches is what they say: the
\* reference counts of alarms and rules are the references there are, no match
\* and no group is empty, the alarms in memory are those in a match, and the
\* first and last time of a match, which PRUNE is decided on, are those of its
\* alarms. Removal by time, by clear and by rule leaves neither garbage nor a
\* rule that can never be removed.
BooksRight ==
  /\ \A a \in Alarms : arc[a] = Cardinality({i \in Used : a \in matchs[i].alarms})
  /\ \A s \in RuleSlots : rrc[s] = Cardinality({i \in Used : matchs[i].rule = s})
  /\ \A i \in Used : matchs[i].alarms # {}
  /\ inuse = {i[1] : i \in Used}
  /\ live = UNION {matchs[i].alarms : i \in Used}
  /\ \A i \in Used : /\ matchs[i].fa = Min(Times(matchs[i].alarms))
                     /\ matchs[i].la = Max(Times(matchs[i].alarms))

\* A match refers to its rule by slot: through reloads, removals and packing
\* the slot holds the very rule the match was made by.
MatchKeepsRule == \A i \in Used : rules[matchs[i].rule] = matchs[i].of

\* Once a rules file is loaded, the rules in memory are those of the file, each
\* in one slot, whatever was there before.
RulesInForce ==
  pc \notin {"off", "load"} =>
    /\ {rules[s] : s \in Loaded} = {loaded[k] : k \in DOMAIN loaded}
    /\ \A s, q \in Loaded : rules[s] = rules[q] => s = q

\* Between two runs every group that holds an alarm of mode KEEP is ticketed.
KeepIsTicketed ==
  pc = "off" => \A i \in Used : matchs[i].alarms \cap Keeps # {} => i[1] \in ticketed

\* No alarm of mode KEEP is forgotten: it is in memory, was in a ticketed
\* group, had a ticket of its own, was cleared, was the one the engine failed
\* at, or was in memory when the engine was killed.
KeepNotForgotten == came \cap Keeps \subseteq live \cup settled
=============================================================================
