---------------------------- MODULE RaffleProofs ----------------------------
(***************************************************************************)
(* Theorems about Raffle, for any sets of raffles, members, events and     *)
(* goroutines.  Those that hold only while reruns do not overlap assume    *)
(* that a single goroutine runs raffles.  The last part is about           *)
(* RaffleDraw, and about its results as the draws that Raffle assumes.     *)
(***************************************************************************)
EXTENDS Raffle, RaffleDraw, FiniteSetTheorems, TLAPS

\* The typing of a runner's locals.
LocalsOK ==
  /\ pc \in [Runners -> Statements]
  /\ create \in [Runners -> BOOLEAN]
  /\ form \in [Runners -> [events : SUBSET Events, count : WinnerCounts \cup {0}]]
  /\ target \in [Runners -> Raffles]
  /\ seen \in [Runners -> SUBSET Members]
  /\ winners \in [Runners -> SUBSET Members]

\* A handler that returns leaves well-typed locals.
LEMMA FinishType ==
  ASSUME LocalsOK, NEW q \in Runners, Finish(q)
  PROVE  LocalsOK'
<1>1. AnyRaffle \in Raffles
  BY RaffleAssumption DEF AnyRaffle
<1>2. NoForm \in [events : SUBSET Events, count : WinnerCounts \cup {0}]
  BY DEF NoForm
<1>3. QED
  BY <1>1, <1>2 DEF LocalsOK, Finish, Statements

\* Every state of the raffles is well typed, and a flag of a winner's row
\* exists only with the row.
THEOREM RaffleTypeCorrect == Spec => []TypeOK
<1>0. AnyRaffle \in Raffles
  BY RaffleAssumption DEF AnyRaffle
<1>1. Init => TypeOK
  BY <1>0 DEF Init, TypeOK, Statements, NoForm
<1>2. TypeOK /\ [Next]_vars => TypeOK'
  <2> SUFFICES ASSUME TypeOK, [Next]_vars PROVE TypeOK'
    OBVIOUS
  <2>0. LocalsOK
    BY DEF TypeOK, LocalsOK
  <2> USE DEF TypeOK, Statements
  <2>1. ASSUME NEW q \in Runners, RunRaffle(q) PROVE TypeOK'
    <3>1. PICK S \in SUBSET Events, n \in WinnerCounts :
             form' = [form EXCEPT ![q] = [events |-> S, count |-> n]]
      <4>1. PICK text \in SUBSET Events, ids \in SUBSET FormIDs,
                 n \in WinnerCounts :
               form' = [form EXCEPT ![q] =
                          [events |-> text \cup ids, count |-> n]]
        BY <2>1 DEF RunRaffle
      <4>2. text \cup ids \in SUBSET Events
        BY RaffleAssumption
      <4>3. QED
        BY <4>1, <4>2
    <3>2. PICK W \in SUBSET Members : winners' = [winners EXCEPT ![q] = W]
      BY <2>1 DEF RunRaffle, Draws
    <3>3. form' \in [Runners -> [events : SUBSET Events,
                                 count : WinnerCounts \cup {0}]]
      BY <3>1
    <3>4. winners' \in [Runners -> SUBSET Members]
      BY <3>2
    <3>5. QED
      BY <2>1, <3>3, <3>4 DEF RunRaffle, tables, editor
  <2>2. ASSUME NEW q \in Runners, InsertRaffle(q) PROVE TypeOK'
    <3>1. CASE winners[q] = {}
      BY <2>0, <2>2, <3>1, FinishType DEF InsertRaffle, LocalsOK, editor
    <3>2. CASE winners[q] # {}
      <4>1. form[q].events \in SUBSET Events
                /\ form[q].count \in WinnerCounts \cup {0}
        BY <2>0 DEF LocalsOK
      <4>2. PICK r \in Raffles \ raffles :
               /\ raffles' = raffles \cup {r}
               /\ events' = [events EXCEPT ![r] = form[q].events]
               /\ count' = [count EXCEPT ![r] = form[q].count]
               /\ target' = [target EXCEPT ![q] = r]
               /\ pc' = [pc EXCEPT ![q] = "insertMembers"]
               /\ UNCHANGED <<create, form, seen, winners>>
        BY <2>2, <3>2 DEF InsertRaffle
      <4>3. events' \in [Raffles -> SUBSET Events]
              /\ count' \in [Raffles -> WinnerCounts \cup {0}]
        BY <4>1, <4>2
      <4>4. QED
        BY <2>2, <4>2, <4>3 DEF InsertRaffle, editor
    <3>3. QED
      BY <3>1, <3>2
  <2>3. ASSUME NEW q \in Runners, NEW r \in Raffles, RerunRaffle(q, r)
        PROVE TypeOK'
    BY <2>3 DEF RerunRaffle, Draws, tables, editor
  <2>4. ASSUME NEW q \in Runners, InsertMembers(q) PROVE TypeOK'
    BY <2>4 DEF InsertMembers, Goto, editor
  <2>5. ASSUME NEW q \in Runners, DeleteNotConfirmedRaffleWinners(q)
        PROVE TypeOK'
    BY <2>5 DEF DeleteNotConfirmedRaffleWinners, Goto, editor
  <2>6. ASSUME NEW q \in Runners, MarkRaffleWinnersAsPast(q) PROVE TypeOK'
    <3>1. CASE winners[q] = {}
      BY <2>0, <2>6, <3>1, FinishType DEF MarkRaffleWinnersAsPast, LocalsOK, editor
    <3>2. CASE winners[q] # {}
      BY <2>6, <3>2 DEF MarkRaffleWinnersAsPast, Goto, editor
    <3>3. QED
      BY <3>1, <3>2
  <2>7. ASSUME NEW q \in Runners, InsertRaffleWinners(q) PROVE TypeOK'
    BY <2>0, <2>7, FinishType DEF InsertRaffleWinners, LocalsOK, editor
  <2>8. ASSUME NEW q \in Runners, InsertRaffleWinnersFails(q) \/ Abort(q)
        PROVE TypeOK'
    <3>1. Finish(q) /\ UNCHANGED <<tables, editor>>
      BY <2>8 DEF InsertRaffleWinnersFails, Abort
    <3>2. LocalsOK'
      BY <2>0, <3>1, FinishType
    <3>3. QED
      BY <3>1, <3>2 DEF LocalsOK, tables, editor
  <2>9. ASSUME NEW r \in Raffles, NEW m \in Members, ConfirmRaffleWinner(r, m)
        PROVE TypeOK'
    BY <2>9 DEF ConfirmRaffleWinner, runner, editor
  <2>10. ASSUME NEW q \in Editors, Editor(q) PROVE TypeOK'
    <3>1. ASSUME NEW r \in Raffles, PostAddRaffleEvents(q, r) PROVE TypeOK'
      <4>1. PICK ids \in SUBSET Events : newIDs' = [newIDs EXCEPT ![q] = ids]
        BY <3>1 DEF PostAddRaffleEvents
      <4>2. QED
        BY <3>1, <4>1 DEF PostAddRaffleEvents, tables, runner
    <3>2. CASE AppendRaffleEvents(q)
      BY <1>0, <3>2 DEF AppendRaffleEvents, EndEdit, runner
    <3>3. CASE AbortEdit(q)
      BY <1>0, <3>3 DEF AbortEdit, EndEdit, tables, runner
    <3>4. QED
      BY <2>10, <3>1, <3>2, <3>3 DEF Editor
  <2>11. CASE UNCHANGED vars
    BY <2>11 DEF vars, tables, runner, editor
  <2>12. QED
    BY <2>1, <2>2, <2>3, <2>4, <2>5, <2>6, <2>7, <2>8, <2>9, <2>10, <2>11
       DEF Next, Runner
<1>3. QED
  BY <1>1, <1>2, PTL DEF Spec

(***************************************************************************)
(* What a step may do to the tables, action by action.                     *)
(***************************************************************************)

\* No step deletes, unconfirms or un-marks a confirmed winner.
LEMMA StepKeepsConfirmed ==
  ASSUME TypeOK, [Next]_vars, NEW r \in Raffles
  PROVE  confirmed[r] \subseteq confirmed'[r] \cap row'[r]
<1>1. ASSUME NEW q \in Runners, DeleteNotConfirmedRaffleWinners(q)
      PROVE  confirmed[r] \subseteq confirmed'[r] \cap row'[r]
  BY <1>1 DEF DeleteNotConfirmedRaffleWinners, TypeOK
<1>2. ASSUME NEW q \in Runners, InsertRaffleWinners(q)
      PROVE  confirmed[r] \subseteq confirmed'[r] \cap row'[r]
  BY <1>2 DEF InsertRaffleWinners, TypeOK
<1>3. ASSUME NEW s \in Raffles, NEW m \in Members, ConfirmRaffleWinner(s, m)
      PROVE  confirmed[r] \subseteq confirmed'[r] \cap row'[r]
  BY <1>3 DEF ConfirmRaffleWinner, TypeOK
<1>4. CASE UNCHANGED <<row, confirmed>>
  BY <1>4 DEF TypeOK
<1>5. QED
  BY <1>1, <1>2, <1>3, <1>4
     DEF Next, Runner, RunRaffle, InsertRaffle, RerunRaffle, InsertMembers,
         MarkRaffleWinnersAsPast, InsertRaffleWinnersFails, Abort, Editor,
         PostAddRaffleEvents, AppendRaffleEvents, AbortEdit, tables, vars

\* A confirmed winner stays a confirmed winner, for any number of concurrent
\* reruns, confirmations and failures.
THEOREM ConfirmedWinnersStay == Spec => ConfirmedStays
<1>1. TypeOK /\ [Next]_vars
        => [\A r \in Raffles :
              confirmed[r] \subseteq confirmed'[r] \cap row'[r]]_vars
  BY StepKeepsConfirmed
<1>2. QED
  BY <1>1, RaffleTypeCorrect, PTL DEF Spec, ConfirmedStays

\* The winners a handler inserts are in the table members.
THEOREM WinnersReferenceMembers == Spec => []WinnersAreMembers
<1>1. Init => WinnersAreMembers
  BY DEF Init, WinnersAreMembers
<1>2. TypeOK /\ WinnersAreMembers /\ [Next]_vars => WinnersAreMembers'
  <2> SUFFICES ASSUME TypeOK, WinnersAreMembers, [Next]_vars
               PROVE  WinnersAreMembers'
    OBVIOUS
  <2> USE DEF TypeOK, WinnersAreMembers
  <2>1. ASSUME NEW q \in Runners, RunRaffle(q) PROVE WinnersAreMembers'
    BY <2>1 DEF RunRaffle, tables
  <2>2. ASSUME NEW q \in Runners, InsertRaffle(q) PROVE WinnersAreMembers'
    BY <2>2 DEF InsertRaffle, Finish
  <2>3. ASSUME NEW q \in Runners, NEW r \in Raffles, RerunRaffle(q, r)
        PROVE WinnersAreMembers'
    BY <2>3 DEF RerunRaffle, tables
  <2>4. ASSUME NEW q \in Runners, InsertMembers(q) PROVE WinnersAreMembers'
    BY <2>4 DEF InsertMembers, Goto, Statements
  <2>5. ASSUME NEW q \in Runners, DeleteNotConfirmedRaffleWinners(q)
        PROVE WinnersAreMembers'
    BY <2>5 DEF DeleteNotConfirmedRaffleWinners, Goto
  <2>6. ASSUME NEW q \in Runners, MarkRaffleWinnersAsPast(q)
        PROVE WinnersAreMembers'
    BY <2>6 DEF MarkRaffleWinnersAsPast, Goto, Finish
  <2>7. ASSUME NEW q \in Runners, InsertRaffleWinners(q)
        PROVE WinnersAreMembers'
    BY <2>7 DEF InsertRaffleWinners, Insertable, Finish
  <2>8. ASSUME NEW q \in Runners, InsertRaffleWinnersFails(q) \/ Abort(q)
        PROVE WinnersAreMembers'
    BY <2>8 DEF InsertRaffleWinnersFails, Abort, Finish, tables
  <2>9. CASE UNCHANGED <<row, members, runner>>
    BY <2>9 DEF runner
  <2>10. QED
    BY <2>1, <2>2, <2>3, <2>4, <2>5, <2>6, <2>7, <2>8, <2>9
       DEF Next, Runner, ConfirmRaffleWinner, Editor, PostAddRaffleEvents,
           AppendRaffleEvents, AbortEdit, tables, vars
<1>3. QED
  BY <1>1, <1>2, RaffleTypeCorrect, PTL DEF Spec

\* The members of every winner are in the table, and all is well typed.
THEOREM RaffleInvariant == Spec => []RaffleInv
BY RaffleTypeCorrect, WinnersReferenceMembers, PTL DEF RaffleInv

\* An event is added to a raffle that exists, and one that does not exist
\* has no events.
EventsInv ==
  /\ \A r \in Raffles \ raffles : events[r] = {}
  /\ \A q \in Editors : epc[q] = "append" => etarget[q] \in raffles

\* Concurrent additions keep each other's events.
THEOREM RaffleEventsAccumulate == Spec => EventsNeverLost
<1>1. Init => EventsInv
  BY DEF Init, EventsInv
<1>2. TypeOK /\ EventsInv /\ [Next]_vars => EventsInv'
  <2> SUFFICES ASSUME TypeOK, EventsInv, [Next]_vars PROVE EventsInv'
    OBVIOUS
  <2> USE DEF TypeOK, EventsInv
  <2>1. ASSUME NEW q \in Runners, InsertRaffle(q) PROVE EventsInv'
    BY <2>1 DEF InsertRaffle, editor
  <2>2. ASSUME NEW q \in Editors, Editor(q) PROVE EventsInv'
    <3>1. ASSUME NEW r \in Raffles, PostAddRaffleEvents(q, r) PROVE EventsInv'
      BY <3>1 DEF PostAddRaffleEvents, tables
    <3>2. CASE AppendRaffleEvents(q)
      <4>1. epc[q] = "append" /\ etarget[q] \in raffles
        BY <3>2 DEF AppendRaffleEvents
      <4>2. QED
        BY <3>2, <4>1 DEF AppendRaffleEvents, EndEdit
    <3>3. CASE AbortEdit(q)
      BY <3>3 DEF AbortEdit, EndEdit, tables
    <3>4. QED
      BY <2>2, <3>1, <3>2, <3>3 DEF Editor
  <2>3. CASE UNCHANGED <<raffles, events, editor>>
    BY <2>3 DEF editor
  <2>4. QED
    BY <2>1, <2>2, <2>3
       DEF Next, Runner, RunRaffle, RerunRaffle, InsertMembers,
           DeleteNotConfirmedRaffleWinners, MarkRaffleWinnersAsPast,
           InsertRaffleWinners, InsertRaffleWinnersFails, Abort,
           ConfirmRaffleWinner, tables, vars
<1>3. TypeOK /\ EventsInv /\ [Next]_vars
        => [\A r \in Raffles : events[r] \subseteq events'[r]]_vars
  <2> SUFFICES ASSUME TypeOK, EventsInv, [Next]_vars, NEW r \in Raffles
               PROVE  events[r] \subseteq events'[r]
    OBVIOUS
  <2>1. ASSUME NEW q \in Runners, InsertRaffle(q)
        PROVE  events[r] \subseteq events'[r]
    BY <2>1 DEF InsertRaffle, TypeOK, EventsInv
  <2>2. ASSUME NEW q \in Editors, AppendRaffleEvents(q)
        PROVE  events[r] \subseteq events'[r]
    BY <2>2 DEF AppendRaffleEvents, TypeOK
  <2>3. CASE UNCHANGED events
    BY <2>3
  <2>4. QED
    BY <2>1, <2>2, <2>3
       DEF Next, Runner, RunRaffle, RerunRaffle, InsertMembers,
           DeleteNotConfirmedRaffleWinners, MarkRaffleWinnersAsPast,
           InsertRaffleWinners, InsertRaffleWinnersFails, Abort, Editor,
           PostAddRaffleEvents, AbortEdit, ConfirmRaffleWinner, tables, vars
<1>4. QED
  BY <1>1, <1>2, <1>3, RaffleTypeCorrect, PTL DEF Spec, EventsNeverLost

-----------------------------------------------------------------------------
(***************************************************************************)
(* The raffles implement the ledger of offers.                             *)
(***************************************************************************)

\* Every behaviour of the handlers is a behaviour of WinnerLedger.
THEOREM RaffleImplementsLedger == Spec => ImplementsLedger
<1> DEFINE offer == [r \in Raffles |-> row[r] \ confirmed[r]]
<1>1. Init => Ledger!Init
  BY DEF Init, Ledger!Init
<1>2. TypeOK /\ [Next]_vars => [Ledger!Next]_<<offer, confirmed>>
  <2> SUFFICES ASSUME TypeOK, [Next]_vars
               PROVE  Ledger!Next \/ UNCHANGED <<offer, confirmed>>
    OBVIOUS
  <2> USE DEF TypeOK
  <2>1. ASSUME NEW q \in Runners, DeleteNotConfirmedRaffleWinners(q)
        PROVE  Ledger!Next
    <3>1. PICK r \in Raffles : r = target[q]
      OBVIOUS
    <3>2. offer' = [offer EXCEPT ![r] = {}]
      BY <2>1, <3>1 DEF DeleteNotConfirmedRaffleWinners
    <3>3. Ledger!Withdraw(r)
      BY <2>1, <3>2 DEF Ledger!Withdraw, DeleteNotConfirmedRaffleWinners
    <3>4. QED
      BY <3>3 DEF Ledger!Next
  <2>2. ASSUME NEW q \in Runners, InsertRaffleWinners(q)
        PROVE  Ledger!Next
    <3>1. PICK r \in Raffles, W \in SUBSET Members :
             r = target[q] /\ W = winners[q]
      OBVIOUS
    <3>2. W \cap (offer[r] \cup confirmed[r]) = {}
      BY <2>2, <3>1 DEF InsertRaffleWinners, Insertable
    <3>3. offer' = [offer EXCEPT ![r] = @ \cup W]
      <4>1. row' = [row EXCEPT ![r] = @ \cup W] /\ confirmed' = confirmed
        BY <2>2, <3>1 DEF InsertRaffleWinners
      <4>2. W \ confirmed[r] = W
        BY <3>2
      <4>3. \A x \in Raffles :
              row'[x] \ confirmed'[x] =
                IF x = r THEN (row[r] \ confirmed[r]) \cup W ELSE row[x] \ confirmed[x]
        BY <4>1, <4>2
      <4>4. offer' = [x \in Raffles |-> row'[x] \ confirmed'[x]]
        OBVIOUS
      <4> QED BY <4>3, <4>4
    <3>4. Ledger!Offer(r, W)
      BY <2>2, <3>2, <3>3 DEF Ledger!Offer, InsertRaffleWinners
    <3>5. QED
      BY <3>4 DEF Ledger!Next
  <2>3. ASSUME NEW r \in Raffles, NEW m \in Members, ConfirmRaffleWinner(r, m)
        PROVE  Ledger!Next \/ UNCHANGED <<offer, confirmed>>
    <3>1. CASE m \in confirmed[r]
      BY <2>3, <3>1 DEF ConfirmRaffleWinner
    <3>2. CASE m \notin confirmed[r]
      <4>1. m \in offer[r] /\ offer' = [offer EXCEPT ![r] = @ \ {m}]
        BY <2>3, <3>2 DEF ConfirmRaffleWinner
      <4>2. Ledger!Settle(r, m)
        BY <2>3, <4>1 DEF Ledger!Settle, ConfirmRaffleWinner
      <4>3. QED
        BY <4>2 DEF Ledger!Next
    <3>3. QED
      BY <3>1, <3>2
  <2>4. CASE UNCHANGED <<row, confirmed>>
    BY <2>4
  <2>5. QED
    BY <2>1, <2>2, <2>3, <2>4
       DEF Next, Runner, RunRaffle, InsertRaffle, RerunRaffle, InsertMembers,
           MarkRaffleWinnersAsPast, InsertRaffleWinnersFails, Abort, Editor,
           PostAddRaffleEvents, AppendRaffleEvents, AbortEdit, tables, vars
<1>3. QED
  BY <1>1, <1>2, RaffleTypeCorrect, PTL DEF Spec, ImplementsLedger, Ledger!Spec

-----------------------------------------------------------------------------
(***************************************************************************)
(* Raffles run by one goroutine at a time: confirmations and additions of  *)
(* events still interleave with its statements.                            *)
(***************************************************************************)

\* The inductive invariant of the statements of a single runner.
THEOREM SoloInvariant ==
  ASSUME NEW solo, Runners = {solo}
  PROVE  Spec => []SoloInv
<1>1. Init => SoloInv
  BY DEF Init, SoloInv, PastIsConfirmed
<1>2. TypeOK /\ SoloInv /\ [Next]_vars => SoloInv'
  <2> SUFFICES ASSUME TypeOK, SoloInv, [Next]_vars PROVE SoloInv'
    OBVIOUS
  <2> USE DEF TypeOK, SoloInv, PastIsConfirmed, Statements
  <2>1. ASSUME NEW q \in Runners, RunRaffle(q) PROVE SoloInv'
    <3>1. PICK W \in SUBSET Members : winners' = [winners EXCEPT ![q] = W]
      BY <2>1 DEF RunRaffle, Draws
    <3>2. winners'[q] \cap seen[q] = {}
      BY <2>1 DEF RunRaffle
    <3>3. QED
      BY <2>1, <3>1, <3>2 DEF RunRaffle, tables
  <2>2. ASSUME NEW q \in Runners, InsertRaffle(q) PROVE SoloInv'
    BY <2>2 DEF InsertRaffle, Finish
  <2>3. ASSUME NEW q \in Runners, NEW r \in Raffles, RerunRaffle(q, r)
        PROVE SoloInv'
    <3>1. PICK W \in SUBSET (Members \ confirmed[r]) :
             /\ winners' = [winners EXCEPT ![q] = W]
             /\ pc' = [pc EXCEPT ![q] = IF W = {} THEN "deleteUnconfirmed"
                                                 ELSE "insertMembers"]
      BY <2>3 DEF RerunRaffle, Draws
    <3>2. ~create[q]
      BY <2>3 DEF RerunRaffle
    <3>3. QED
      <4>1. /\ target' = [target EXCEPT ![q] = r]
            /\ seen' = [seen EXCEPT ![q] = confirmed[r]]
            /\ UNCHANGED <<raffles, row, confirmed, past, create>>
            /\ r \in raffles
        BY <2>3 DEF RerunRaffle, tables
      <4>2. PICK statement \in {"deleteUnconfirmed", "insertMembers"} :
               pc' = [pc EXCEPT ![q] = statement]
        BY <3>1
      <4>3. ASSUME NEW o \in Runners
            PROVE  winners'[o] \cap seen'[o] = {}
        <5>1. CASE o = q
          <6>1. winners'[o] = W /\ seen'[o] = confirmed[r]
            BY <3>1, <4>1, <5>1
          <6>2. QED
            BY <6>1
        <5>2. CASE o # q
          <6>1. winners'[o] = winners[o] /\ seen'[o] = seen[o]
            BY <3>1, <4>1, <5>2
          <6>2. QED
            BY <6>1
        <5>3. QED
          BY <5>1, <5>2
      <4>4. QED
        BY <3>2, <4>1, <4>2, <4>3
  <2>4. ASSUME NEW q \in Runners, InsertMembers(q) PROVE SoloInv'
    BY <2>4 DEF InsertMembers, Goto
  <2>5. ASSUME NEW q \in Runners, DeleteNotConfirmedRaffleWinners(q)
        PROVE SoloInv'
    BY <2>5 DEF DeleteNotConfirmedRaffleWinners, Goto
  <2>6. ASSUME NEW q \in Runners, MarkRaffleWinnersAsPast(q) PROVE SoloInv'
    BY <2>6 DEF MarkRaffleWinnersAsPast, Goto, Finish
  <2>7. ASSUME NEW q \in Runners, InsertRaffleWinners(q) PROVE SoloInv'
    BY <2>7 DEF InsertRaffleWinners, Finish
  <2>8. ASSUME NEW q \in Runners, InsertRaffleWinnersFails(q) \/ Abort(q)
        PROVE SoloInv'
    BY <2>8 DEF InsertRaffleWinnersFails, Abort, Finish, tables
  <2>9. ASSUME NEW r \in Raffles, NEW m \in Members, ConfirmRaffleWinner(r, m)
        PROVE SoloInv'
    BY <2>9 DEF ConfirmRaffleWinner, runner
  <2>10. CASE UNCHANGED <<raffles, row, confirmed, past, runner>>
    BY <2>10 DEF runner
  <2>11. QED
    BY <2>1, <2>2, <2>3, <2>4, <2>5, <2>6, <2>7, <2>8, <2>9, <2>10
       DEF Next, Runner, Editor, PostAddRaffleEvents, AppendRaffleEvents,
           AbortEdit, tables, vars
<1>3. QED
  BY <1>1, <1>2, RaffleTypeCorrect, PTL DEF Spec

\* A past winner is a confirmed winner as long as reruns do not overlap.
THEOREM SoloPastIsConfirmed ==
  ASSUME NEW solo, Runners = {solo}
  PROVE  Spec => []PastIsConfirmed
<1>1. SoloInv => PastIsConfirmed
  BY DEF SoloInv
<1>2. QED
  BY <1>1, SoloInvariant, PTL

\* Without overlapping reruns, an insertion collides only with a winner that
\* was confirmed after the rerun took its snapshot.
THEOREM SoloCollisions ==
  ASSUME NEW solo, Runners = {solo}
  PROVE  Spec => []CollisionIsLateConfirm
<1>1. TypeOK /\ SoloInv => CollisionIsLateConfirm
  BY DEF TypeOK, SoloInv, CollisionIsLateConfirm
<1>2. QED
  BY <1>1, SoloInvariant, RaffleTypeCorrect, PTL

\* Without overlapping reruns, a rerun that succeeds shows the winners it
\* drew and no others.
THEOREM SoloRerunReplaces ==
  ASSUME NEW solo, Runners = {solo}
  PROVE  Spec => RerunReplacesWinners
<1>1. TypeOK /\ SoloInv /\ [Next]_vars
        => [\A q \in Runners :
              (InsertRaffleWinners(q) /\ ~create[q]) =>
                row'[target[q]] \ past'[target[q]] = winners[q]]_vars
  <2> SUFFICES ASSUME TypeOK, SoloInv, NEW q \in Runners,
                      InsertRaffleWinners(q)
               PROVE  row'[target[q]] \ past'[target[q]] = winners[q]
    OBVIOUS
  <2>1. /\ row'[target[q]] = row[target[q]] \cup winners[q]
        /\ past' = past
        /\ winners[q] \cap row[target[q]] = {}
        /\ pc[q] = "insertWinners"
    BY DEF TypeOK, InsertRaffleWinners, Insertable
  <2>2. past[target[q]] = row[target[q]]
    <3>1. row[target[q]] \subseteq past[target[q]]
      BY <2>1 DEF SoloInv
    <3>2. past[target[q]] \subseteq row[target[q]]
      BY DEF TypeOK
    <3>3. QED
      BY <3>1, <3>2
  <2>3. QED
    BY <2>1, <2>2
<1>2. QED
  BY <1>1, SoloInvariant, RaffleTypeCorrect, PTL DEF Spec, RerunReplacesWinners

-----------------------------------------------------------------------------
(***************************************************************************)
(* How many winners a raffle displays when any number of reruns overlap.   *)
(***************************************************************************)

\* The next write of q to the winners of raffle r is the insertion of its
\* batch: since q last put a batch there it has marked all of r's rows as
\* past, or it has only just created r.
Loaded(q, r) ==
  /\ target[q] = r
  /\ pc[q] = "insertWinners" \/ (pc[q] = "insertMembers" /\ create[q])

\* Each winner on display belongs to the batch of a runner, which has at most
\* winner_count members and is empty if the runner is about to insert.
Batched(batch, r) ==
  /\ \A m \in Current(r) : \E q \in Runners : m \in batch[q]
  /\ \A q \in Runners :
       /\ Cardinality(batch[q]) <= count[r]
       /\ Loaded(q, r) => batch[q] = {}

InBatches(r) == \E batch \in [Runners -> SUBSET Members] : Batched(batch, r)

\* What each statement knows of the winners its runner has drawn.
DrawnInv ==
  /\ \A r \in Raffles \ raffles : row[r] = {}
  /\ \A q \in Runners :
       /\ pc[q] = "idle" => ~create[q]
       /\ pc[q] = "insertRaffle" => Cardinality(winners[q]) <= form[q].count
       /\ pc[q] \notin {"idle", "insertRaffle"} =>
            /\ target[q] \in raffles
            /\ Cardinality(winners[q]) <= count[target[q]]

DisplayInv == DrawnInv /\ \A r \in Raffles : InBatches(r)

LEMMA DrawnInit == Init => DrawnInv
BY DEF Init, DrawnInv

\* A runner takes along what it has drawn until it stores it.
LEMMA DrawnStep ==
  ASSUME TypeOK, DrawnInv, [Next]_vars
  PROVE  DrawnInv'
<1> USE DEF TypeOK, DrawnInv, Statements
<1>1. ASSUME NEW q \in Runners, RunRaffle(q) PROVE DrawnInv'
  <2>1. PICK S \in SUBSET Events, n \in WinnerCounts, W \in SUBSET Members :
           /\ form' = [form EXCEPT ![q] = [events |-> S, count |-> n]]
           /\ winners' = [winners EXCEPT ![q] = W]
           /\ Cardinality(W) <= n
    <3>1. PICK text \in SUBSET Events, ids \in SUBSET FormIDs, n \in WinnerCounts :
             /\ form' = [form EXCEPT ![q] = [events |-> text \cup ids, count |-> n]]
             /\ \E W \in Draws({}, n) : winners' = [winners EXCEPT ![q] = W]
      <4> HIDE DEF TypeOK, DrawnInv, Statements
      <4> QED BY <1>1 DEF RunRaffle
    <3>2. text \cup ids \in SUBSET Events
      BY RaffleAssumption
    <3> QED BY <3>1, <3>2 DEF Draws
  <2>2. form'[q].count = n /\ winners'[q] = W
    BY <2>1
  <2> QED BY <1>1, <2>1, <2>2 DEF RunRaffle, tables
<1>2. ASSUME NEW q \in Runners, InsertRaffle(q) PROVE DrawnInv'
  BY <1>2 DEF InsertRaffle, Finish
<1>3. ASSUME NEW q \in Runners, NEW r \in Raffles, RerunRaffle(q, r)
      PROVE  DrawnInv'
  <2>1. PICK W \in SUBSET Members :
           /\ Cardinality(W) <= count[r]
           /\ winners' = [winners EXCEPT ![q] = W]
           /\ pc' = [pc EXCEPT ![q] = IF W = {} THEN "deleteUnconfirmed"
                                               ELSE "insertMembers"]
    BY <1>3 DEF RerunRaffle, Draws
  <2>2. PICK statement \in {"deleteUnconfirmed", "insertMembers"} :
           pc' = [pc EXCEPT ![q] = statement]
    BY <2>1
  <2> QED BY <1>3, <2>1, <2>2 DEF RerunRaffle, tables
<1>4. ASSUME NEW q \in Runners, InsertMembers(q) PROVE DrawnInv'
  BY <1>4 DEF InsertMembers, Goto
<1>5. ASSUME NEW q \in Runners, DeleteNotConfirmedRaffleWinners(q) PROVE DrawnInv'
  BY <1>5 DEF DeleteNotConfirmedRaffleWinners, Goto
<1>6. ASSUME NEW q \in Runners, MarkRaffleWinnersAsPast(q) PROVE DrawnInv'
  BY <1>6 DEF MarkRaffleWinnersAsPast, Goto, Finish
<1>7. ASSUME NEW q \in Runners, InsertRaffleWinners(q) PROVE DrawnInv'
  BY <1>7 DEF InsertRaffleWinners, Finish
<1>8. ASSUME NEW q \in Runners, InsertRaffleWinnersFails(q) \/ Abort(q)
      PROVE  DrawnInv'
  BY <1>8 DEF InsertRaffleWinnersFails, Abort, Finish, tables
<1>9. CASE UNCHANGED <<raffles, count, row, runner>>
  BY <1>9 DEF runner
<1> QED
  BY <1>1, <1>2, <1>3, <1>4, <1>5, <1>6, <1>7, <1>8, <1>9
     DEF Next, Runner, ConfirmRaffleWinner, Editor, PostAddRaffleEvents,
         AppendRaffleEvents, AbortEdit, tables, vars

LEMMA CountIsNat ==
  ASSUME TypeOK, NEW r \in Raffles
  PROVE  count[r] \in Nat
<1>1. count[r] \in WinnerCounts \cup {0}
  BY DEF TypeOK
<1>2. \A n \in WinnerCounts : n \in Nat
  BY RaffleAssumption
<1> QED BY <1>1, <1>2

\* With no winner on display no batch is.
LEMMA NothingDisplayed ==
  ASSUME TypeOK', NEW r \in Raffles, Current(r)' = {}
  PROVE  InBatches(r)'
<1>1. count'[r] \in Nat
  <2>1. count'[r] \in WinnerCounts \cup {0}
    BY DEF TypeOK
  <2>2. \A n \in WinnerCounts : n \in Nat
    BY RaffleAssumption
  <2> QED BY <2>1, <2>2
<1>2. Batched([q \in Runners |-> {}], r)'
  BY <1>1, FS_EmptySet DEF Batched
<1>3. [q \in Runners |-> {}] \in [Runners -> SUBSET Members]
  OBVIOUS
<1> QED BY <1>2, <1>3 DEF InBatches

\* What is only taken off the display was in some batch.
LEMMA LessDisplayed ==
  ASSUME NEW r \in Raffles, InBatches(r),
         Current(r)' \subseteq Current(r), count'[r] = count[r],
         \A q \in Runners : Loaded(q, r)' => Loaded(q, r)
  PROVE  InBatches(r)'
<1>1. PICK batch \in [Runners -> SUBSET Members] : Batched(batch, r)
  BY DEF InBatches
<1>2. Batched(batch, r)'
  BY <1>1 DEF Batched
<1> QED BY <1>2 DEF InBatches

LEMMA DisplayStep ==
  ASSUME TypeOK, TypeOK', DisplayInv, [Next]_vars, NEW r \in Raffles
  PROVE  InBatches(r)'
<1>1. InBatches(r) /\ DrawnInv
  BY DEF DisplayInv
<1> USE DEF TypeOK, Current, Loaded
<1>2. ASSUME NEW q \in Runners, RunRaffle(q) PROVE InBatches(r)'
  BY <1>1, <1>2, LessDisplayed DEF RunRaffle, tables
<1>3. ASSUME NEW q \in Runners, InsertRaffle(q) PROVE InBatches(r)'
  <2>1. PICK s \in Raffles \ raffles :
           /\ count' = [count EXCEPT ![s] = form[q].count]
           /\ winners[q] # {} => target' = [target EXCEPT ![q] = s]
    BY <1>3 DEF InsertRaffle
  <2>2. CASE r = s
    <3>1. Current(r)' = {}
      BY <1>1, <1>3, <2>2 DEF InsertRaffle, DrawnInv
    <3> QED BY <3>1, NothingDisplayed
  <2>3. CASE r # s
    <3>1. Current(r)' \subseteq Current(r) /\ count'[r] = count[r]
      BY <1>3, <2>1, <2>3 DEF InsertRaffle
    <3>2. ASSUME NEW o \in Runners, Loaded(o, r)' PROVE Loaded(o, r)
      <4>1. CASE winners[q] = {}
        BY <1>3, <3>2, <4>1 DEF InsertRaffle, Finish
      <4>2. CASE winners[q] # {}
        <5>1. o # q
          BY <1>3, <2>1, <2>3, <3>2, <4>2 DEF InsertRaffle
        <5> QED BY <1>3, <3>2, <4>2, <5>1 DEF InsertRaffle
      <4> QED BY <4>1, <4>2
    <3> QED BY <1>1, <3>1, <3>2, LessDisplayed
  <2> QED BY <2>2, <2>3
<1>4. ASSUME NEW q \in Runners, NEW s \in Raffles, RerunRaffle(q, s)
      PROVE  InBatches(r)'
  <2>1. ~create[q]
    BY <1>1, <1>4 DEF RerunRaffle, DrawnInv
  <2>2. PICK statement \in {"deleteUnconfirmed", "insertMembers"} :
           pc' = [pc EXCEPT ![q] = statement]
    BY <1>4 DEF RerunRaffle
  <2> QED BY <1>1, <1>4, <2>1, <2>2, LessDisplayed DEF RerunRaffle, tables
<1>5. ASSUME NEW q \in Runners, InsertMembers(q) PROVE InBatches(r)'
  BY <1>1, <1>5, LessDisplayed DEF InsertMembers, Goto
<1>6. ASSUME NEW q \in Runners, DeleteNotConfirmedRaffleWinners(q)
      PROVE  InBatches(r)'
  BY <1>1, <1>6, LessDisplayed DEF DeleteNotConfirmedRaffleWinners, Goto
<1>7. ASSUME NEW q \in Runners, MarkRaffleWinnersAsPast(q)
      PROVE  InBatches(r)'
  <2>1. CASE target[q] = r
    <3>1. Current(r)' = {}
      BY <1>7, <2>1 DEF MarkRaffleWinnersAsPast
    <3> QED BY <3>1, NothingDisplayed
  <2>2. CASE target[q] # r
    <3>1. Current(r)' \subseteq Current(r) /\ count'[r] = count[r]
      BY <1>7, <2>2 DEF MarkRaffleWinnersAsPast
    <3>2. \A o \in Runners : Loaded(o, r)' => Loaded(o, r)
      BY <1>7, <2>2 DEF MarkRaffleWinnersAsPast, Goto, Finish
    <3> QED BY <1>1, <3>1, <3>2, LessDisplayed
  <2> QED BY <2>1, <2>2
<1>8. ASSUME NEW q \in Runners, InsertRaffleWinners(q) PROVE InBatches(r)'
  <2>0. \A o \in Runners : Loaded(o, r)' => o # q /\ Loaded(o, r)
    BY <1>8 DEF InsertRaffleWinners, Finish
  <2>1. CASE target[q] = r
    <3>1. PICK batch \in [Runners -> SUBSET Members] : Batched(batch, r)
      BY <1>1 DEF InBatches
    <3>2. Loaded(q, r) /\ Cardinality(winners[q]) <= count[r] /\ count' = count
      BY <1>1, <1>8, <2>1 DEF InsertRaffleWinners, DrawnInv
    <3>3. PICK stored \in [Runners -> SUBSET Members] :
             stored = [batch EXCEPT ![q] = winners[q]]
      BY <3>1 DEF Batched
    <3>4. Current(r)' \subseteq Current(r) \cup winners[q] /\ batch[q] = {}
      BY <1>8, <2>1, <3>1, <3>2 DEF InsertRaffleWinners, Batched
    <3>5. \A m \in Current(r)' : \E o \in Runners : m \in stored[o]
      BY <3>1, <3>3, <3>4 DEF Batched
    <3>6. \A o \in Runners :
             /\ Cardinality(stored[o]) <= count'[r]
             /\ Loaded(o, r)' => stored[o] = {}
      BY <2>0, <3>1, <3>2, <3>3 DEF Batched
    <3>7. Batched(stored, r)'
      BY <3>5, <3>6 DEF Batched
    <3> QED BY <3>7 DEF InBatches
  <2>2. CASE target[q] # r
    <3>1. Current(r)' \subseteq Current(r) /\ count'[r] = count[r]
      BY <1>8, <2>2 DEF InsertRaffleWinners
    <3> QED BY <1>1, <2>0, <3>1, LessDisplayed
  <2> QED BY <2>1, <2>2
<1>9. ASSUME NEW q \in Runners, InsertRaffleWinnersFails(q) \/ Abort(q)
      PROVE  InBatches(r)'
  <2>1. Current(r)' \subseteq Current(r) /\ count'[r] = count[r]
    BY <1>9 DEF InsertRaffleWinnersFails, Abort, tables
  <2>2. \A o \in Runners : Loaded(o, r)' => Loaded(o, r)
    BY <1>9 DEF InsertRaffleWinnersFails, Abort, Finish
  <2> QED BY <1>1, <2>1, <2>2, LessDisplayed
<1>10. CASE UNCHANGED <<count, row, past, runner>>
  BY <1>1, <1>10, LessDisplayed DEF runner
<1> QED
  BY <1>2, <1>3, <1>4, <1>5, <1>6, <1>7, <1>8, <1>9, <1>10
     DEF Next, Runner, ConfirmRaffleWinner, Editor, PostAddRaffleEvents,
         AppendRaffleEvents, AbortEdit, tables, vars

\* What is in one of some batches of at most n can be numbered by the pairs of
\* a batch and a place in it.
LEMMA BatchesWithin ==
  ASSUME NEW I, IsFiniteSet(I), NEW U, IsFiniteSet(U), NEW n \in Nat,
         NEW batch \in [I -> SUBSET U],
         \A i \in I : Cardinality(batch[i]) <= n,
         NEW T, \A x \in T : \E i \in I : x \in batch[i]
  PROVE  Cardinality(T) <= Cardinality(I) * n
<1>1. IsFiniteSet(1..n) /\ Cardinality(1..n) = n
  BY FS_Interval
<1>2. \A i \in I : \E f \in [batch[i] -> 1..n] :
         \A x, y \in batch[i] : f[x] = f[y] => x = y
  <2> SUFFICES ASSUME NEW i \in I
               PROVE  \E f \in [batch[i] -> 1..n] :
                        \A x, y \in batch[i] : f[x] = f[y] => x = y
    OBVIOUS
  <2>1. batch[i] \in SUBSET U /\ IsFiniteSet(batch[i])
    BY FS_Subset
  <2> DEFINE k == Cardinality(batch[i])
  <2>2. k \in Nat /\ IsFiniteSet(1..k) /\ Cardinality(1..k) = k
    BY <2>1, FS_CardinalityType, FS_Interval
  <2>3. ExistsBijection(batch[i], 1..k)
    BY <2>1, <2>2, FS_SameCardinalityBij
  <2>4. PICK f \in Bijection(batch[i], 1..k) : TRUE
    BY <2>3 DEF ExistsBijection
  <2>5. f \in [batch[i] -> 1..k] /\ \A x, y \in batch[i] : f[x] = f[y] => x = y
    BY <2>4 DEF Bijection, Injection, IsInjective
  <2>6. k <= n
    OBVIOUS
  <2> HIDE DEF k
  <2>7. f \in [batch[i] -> 1..n]
    BY <2>2, <2>5, <2>6
  <2> QED BY <2>5, <2>7
<1> DEFINE owner == [x \in T |-> CHOOSE i \in I : x \in batch[i]]
           place == [i \in I |->
                       CHOOSE f \in [batch[i] -> 1..n] :
                         \A x, y \in batch[i] : f[x] = f[y] => x = y]
           number == [x \in T |-> <<owner[x], place[owner[x]][x]>>]
<1>3. \A x \in T : owner[x] \in I /\ x \in batch[owner[x]]
  OBVIOUS
<1>4. \A i \in I :
         /\ place[i] \in [batch[i] -> 1..n]
         /\ \A x, y \in batch[i] : place[i][x] = place[i][y] => x = y
  BY <1>2
<1>5. number \in Injection(T, I \X (1..n))
  <2> HIDE DEF owner, place
  <2>1. number \in [T -> I \X (1..n)]
    BY <1>3, <1>4
  <2>2. \A x, y \in T : number[x] = number[y] => x = y
    BY <1>3, <1>4
  <2> QED BY <2>1, <2>2 DEF Injection, IsInjective
<1>6. /\ IsFiniteSet(I \X (1..n))
      /\ Cardinality(I \X (1..n)) = Cardinality(I) * n
  BY <1>1, FS_Product
<1>7. Cardinality(T) <= Cardinality(I \X (1..n))
  <2> HIDE DEF number
  <2> QED BY <1>5, <1>6, FS_Injection
<1> QED BY <1>6, <1>7

\* The winners on display are in batches of winner_count.
LEMMA BatchesBound ==
  ASSUME TypeOK, IsFiniteSet(Members), IsFiniteSet(Runners),
         NEW r \in Raffles, InBatches(r)
  PROVE  Cardinality(Current(r)) <= count[r] * Cardinality(Runners)
<1> DEFINE n == count[r]
           C == Current(r)
<1>1. PICK batch \in [Runners -> SUBSET Members] : Batched(batch, r)
  BY DEF InBatches
<1>2. n \in Nat /\ Cardinality(Runners) \in Nat
  BY CountIsNat, FS_CardinalityType
<1>3. /\ \A q \in Runners : Cardinality(batch[q]) <= n
      /\ \A m \in C : \E q \in Runners : m \in batch[q]
  BY <1>1 DEF Batched
<1> HIDE DEF n, C
<1>4. Cardinality(C) <= Cardinality(Runners) * n
  BY <1>2, <1>3, BatchesWithin
<1>5. Cardinality(Runners) * n = n * Cardinality(Runners)
  BY <1>2
<1> QED BY <1>4, <1>5 DEF n, C

\* However many requests rerun a raffle at once, it displays at most one batch
\* of winner_count winners for each of them.
THEOREM CurrentWithinBatches ==
  ASSUME IsFiniteSet(Members), IsFiniteSet(Runners)
  PROVE  Spec => []CurrentWithinCount
<1>1. Init => DisplayInv
  <2> SUFFICES ASSUME Init PROVE DisplayInv
    OBVIOUS
  <2>1. \A r \in Raffles : count[r] \in Nat /\ Current(r) = {}
    BY DEF Init, Current
  <2>2. ASSUME NEW r \in Raffles PROVE Batched([q \in Runners |-> {}], r)
    BY <2>1, FS_EmptySet DEF Batched
  <2>3. [q \in Runners |-> {}] \in [Runners -> SUBSET Members]
    OBVIOUS
  <2> QED BY <2>2, <2>3, DrawnInit DEF DisplayInv, InBatches
<1>2. TypeOK /\ TypeOK' /\ DisplayInv /\ [Next]_vars => DisplayInv'
  BY DrawnStep, DisplayStep DEF DisplayInv
<1>3. TypeOK /\ DisplayInv => CurrentWithinCount
  BY BatchesBound DEF DisplayInv, CurrentWithinCount
<1> QED BY <1>1, <1>2, <1>3, RaffleTypeCorrect, PTL DEF Spec

-----------------------------------------------------------------------------
(***************************************************************************)
(* The limit of events.                                                    *)
(***************************************************************************)

\* The events that requests in flight will add to raffle r.
Pending(r) ==
  {e \in Events :
     \E q \in Editors : epc[q] = "append" /\ etarget[q] = r /\ e \in newIDs[q]}

Bounded(n) ==
  \/ n <= MaxEvents + Cardinality(FormIDs)
  \/ n <= Cardinality(Editors) * (MaxEvents - 1) + 1

\* A request in flight adds less than the limit to what its raffle has, and a
\* raffle with all that is on its way to it is within the bound.
BoundInv ==
  /\ EventsInv
  /\ \A r \in raffles : events[r] # {} /\ Bounded(Cardinality(events[r] \cup Pending(r)))
  /\ \A q \in Runners : pc[q] = "insertRaffle" =>
       /\ form[q].events # {}
       /\ Cardinality(form[q].events) <= MaxEvents + Cardinality(FormIDs)
  /\ \A q \in Editors : epc[q] = "append" =>
       Cardinality(newIDs[q] \ events[etarget[q]]) <= MaxEvents - 1

LEMMA FewerIsBounded ==
  ASSUME NEW S, NEW T, T \subseteq S, IsFiniteSet(S), Bounded(Cardinality(S)),
         IsFiniteSet(Editors), IsFiniteSet(FormIDs)
  PROVE  Bounded(Cardinality(T))
<1>1. /\ Cardinality(S) \in Nat /\ Cardinality(T) \in Nat
      /\ Cardinality(T) <= Cardinality(S)
  BY FS_Subset, FS_CardinalityType
<1>2. /\ MaxEvents + Cardinality(FormIDs) \in Int
      /\ Cardinality(Editors) * (MaxEvents - 1) + 1 \in Int
  BY RaffleAssumption, FS_CardinalityType
<1> DEFINE a == MaxEvents + Cardinality(FormIDs)
           b == Cardinality(Editors) * (MaxEvents - 1) + 1
<1> HIDE DEF a, b
<1>3. ASSUME Cardinality(S) <= a \/ Cardinality(S) <= b
      PROVE  Cardinality(T) <= a \/ Cardinality(T) <= b
  <2>1. a \in Int /\ b \in Int
    BY <1>2 DEF a, b
  <2> QED BY <1>1, <1>3, <2>1
<1> QED BY <1>3 DEF Bounded, a, b

\* A request that has passed the check brings a raffle, and all that is on its
\* way to it, within the bound.
LEMMA CheckedIsBounded ==
  ASSUME IsFiniteSet(Editors), NEW q \in Editors, MaxEvents \in Nat \ {0},
         NEW S, IsFiniteSet(S), Cardinality(S) <= MaxEvents,
         NEW T, IsFiniteSet(T),
         NEW batch \in [Editors \ {q} -> SUBSET T],
         \A p \in Editors \ {q} : Cardinality(batch[p]) <= MaxEvents - 1,
         \A x \in T : \E p \in Editors \ {q} : x \in batch[p]
  PROVE  Bounded(Cardinality(S \cup T))
<1> DEFINE E == Cardinality(Editors)
           n == MaxEvents - 1
<1>1. /\ IsFiniteSet(Editors \ {q}) /\ Cardinality(Editors \ {q}) = E - 1
      /\ E \in Nat
  BY FS_RemoveElement, FS_CardinalityType
<1>2. n \in Nat
  OBVIOUS
<1>3. Cardinality(T) <= (E - 1) * n
  <2> HIDE DEF E, n
  <2>1. \A p \in Editors \ {q} : Cardinality(batch[p]) <= n
    BY DEF n
  <2> QED BY <1>1, <1>2, <2>1, BatchesWithin
<1>4. Cardinality(S \cup T) <= Cardinality(S) + Cardinality(T)
  <2>1. Cardinality(S \cup T) = Cardinality(S) + Cardinality(T) - Cardinality(S \cap T)
    BY FS_Union
  <2>2. Cardinality(S) \in Nat /\ Cardinality(T) \in Nat /\ Cardinality(S \cap T) \in Nat
    BY FS_CardinalityType, FS_Intersection
  <2> QED BY <2>1, <2>2
<1>5. Cardinality(S \cup T) <= E * n + 1
  <2>1. /\ Cardinality(S) \in Nat /\ Cardinality(T) \in Nat /\ Cardinality(S \cup T) \in Nat
    BY FS_CardinalityType, FS_Union
  <2>2. Cardinality(S) <= n + 1
    OBVIOUS
  <2>3. (E - 1) * n = E * n - n
    <3> HIDE DEF E, n
    <3> QED BY <1>1, <1>2
  <2>4. (E - 1) * n \in Int /\ E * n \in Int
    <3> HIDE DEF E, n
    <3> QED BY <1>1, <1>2
  <2> DEFINE u == (E - 1) * n
             v == E * n
  <2>5. u = v - n /\ u \in Int /\ v \in Int
    BY <2>3, <2>4
  <2>6. Cardinality(T) <= u
    BY <1>3
  <2> HIDE DEF u, v, n
  <2>7. Cardinality(S \cup T) <= v + 1
    BY <1>2, <1>4, <2>1, <2>2, <2>5, <2>6
  <2> QED BY <2>7 DEF v
<1> QED BY <1>5 DEF Bounded

LEMMA EditStep ==
  ASSUME TypeOK, IsFiniteSet(Events), IsFiniteSet(Editors), BoundInv,
         NEW q \in Editors, NEW r \in Raffles, PostAddRaffleEvents(q, r)
  PROVE  BoundInv'
<1>1. PICK ids \in SUBSET Events \ {{}} :
        /\ WithinLimit(events[r] \cup ids)
        /\ newIDs' = [newIDs EXCEPT ![q] = ids]
  BY DEF PostAddRaffleEvents
<1>2. /\ epc[q] = "idle" /\ r \in raffles
      /\ etarget' = [etarget EXCEPT ![q] = r] /\ epc' = [epc EXCEPT ![q] = "append"]
      /\ UNCHANGED <<raffles, events, pc, form>>
  BY DEF PostAddRaffleEvents, tables, runner
<1>3. /\ epc'[q] = "append" /\ etarget'[q] = r /\ newIDs'[q] = ids
      /\ \A p \in Editors \ {q} :
           epc'[p] = epc[p] /\ etarget'[p] = etarget[p] /\ newIDs'[p] = newIDs[p]
  BY <1>1, <1>2 DEF TypeOK
<1>4. EventsInv'
  BY <1>2, <1>3 DEF BoundInv, EventsInv
<1>5. /\ events[r] \subseteq Events /\ events[r] # {} /\ MaxEvents \in Nat
      /\ IsFiniteSet(events[r]) /\ IsFiniteSet(ids) /\ IsFiniteSet(events[r] \cup ids)
      /\ Cardinality(events[r] \cup ids) <= MaxEvents
  <2>1. events[r] \subseteq Events /\ events[r] # {}
    BY <1>2 DEF TypeOK, BoundInv
  <2> QED BY <1>1, <2>1, FS_Subset, FS_Union, RaffleAssumption DEF WithinLimit
<1>6. /\ Cardinality(ids \ events[r]) <= MaxEvents - 1
      /\ MaxEvents # 0
  <2> DEFINE D == ids \ events[r]
  <2>1. IsFiniteSet(D) /\ D \cap events[r] = {} /\ D \cup events[r] = events[r] \cup ids
    BY <1>5, FS_Difference
  <2>2. Cardinality(D \cup events[r]) = Cardinality(D) + Cardinality(events[r]) - Cardinality({})
    BY <1>5, <2>1, FS_Union
  <2>3. Cardinality({}) = 0 /\ Cardinality(D) \in Nat /\ Cardinality(events[r]) \in Nat
        /\ Cardinality(events[r]) # 0
    BY <1>5, <2>1, FS_EmptySet, FS_CardinalityType
  <2>4. Cardinality(D \cup events[r]) <= MaxEvents
    BY <1>5, <2>1
  <2> HIDE DEF D
  <2>5. Cardinality(D) <= MaxEvents - 1 /\ MaxEvents # 0
    BY <1>5, <2>2, <2>3, <2>4
  <2> QED BY <2>5 DEF D
<1>7. ASSUME NEW p \in Editors, epc'[p] = "append"
      PROVE  Cardinality(newIDs'[p] \ events'[etarget'[p]]) <= MaxEvents - 1
  BY <1>2, <1>3, <1>6, <1>7 DEF BoundInv
<1>8. ASSUME NEW x \in raffles
      PROVE  events'[x] # {} /\ Bounded(Cardinality(events'[x] \cup Pending(x)'))
  <2>1. CASE x # r
    <3>1. Pending(x)' = Pending(x)
      BY <1>2, <1>3, <2>1 DEF Pending
    <3> QED BY <1>2, <3>1 DEF BoundInv
  <2>2. CASE x = r
    <3> DEFINE S == events[r] \cup ids
               batch == [p \in Editors \ {q} |->
                           IF epc[p] = "append" /\ etarget[p] = r
                             THEN newIDs[p] \ events[r] ELSE {}]
               T == {e \in Events : \E p \in Editors \ {q} : e \in batch[p]}
    <3>1. \A p \in Editors : newIDs[p] \subseteq Events
      BY DEF TypeOK
    <3>2. IsFiniteSet(T) /\ IsFiniteSet(S)
      <4>1. T \subseteq Events
        OBVIOUS
      <4> QED BY <4>1, <1>5, FS_Subset
    <3>3. \A p \in Editors \ {q} : batch[p] \in SUBSET T
      BY <3>1
    <3>4. batch \in [Editors \ {q} -> SUBSET T]
      <4> HIDE DEF T
      <4> QED BY <3>3
    <3>5. \A p \in Editors \ {q} : Cardinality(batch[p]) <= MaxEvents - 1
      <4>1. 0 <= MaxEvents - 1
        BY <1>5, <1>6
      <4> QED BY <4>1, FS_EmptySet DEF BoundInv
    <3>6. \A e \in T : \E p \in Editors \ {q} : e \in batch[p]
      OBVIOUS
    <3>7. events'[r] \cup Pending(r)' \subseteq S \cup T
      <4> SUFFICES ASSUME NEW e \in Pending(r)' PROVE e \in S \cup T
        BY <1>2
      <4>1. PICK p \in Editors : epc'[p] = "append" /\ etarget'[p] = r /\ e \in newIDs'[p]
        BY DEF Pending
      <4>2. CASE p = q
        BY <1>3, <4>1, <4>2
      <4>3. CASE p # q
        BY <1>3, <3>1, <4>1, <4>3
      <4> QED BY <4>2, <4>3
    <3>8. Bounded(Cardinality(S \cup T)) /\ IsFiniteSet(S \cup T)
      <4> HIDE DEF batch, T, S
      <4>1. Cardinality(S) <= MaxEvents /\ MaxEvents \in Nat \ {0}
        BY <1>5, <1>6 DEF S
      <4> QED BY <3>2, <3>4, <3>5, <3>6, <4>1, CheckedIsBounded, FS_Union
    <3> HIDE DEF S, T
    <3>9. IsFiniteSet(FormIDs)
      BY FS_Subset, RaffleAssumption
    <3>10. Bounded(Cardinality(events'[r] \cup Pending(r)'))
      BY <3>7, <3>8, <3>9, FewerIsBounded
    <3> QED BY <1>2, <1>5, <2>2, <3>10
  <2> QED BY <2>1, <2>2
<1>9. \A o \in Runners : pc'[o] = "insertRaffle" =>
        /\ form'[o].events # {}
        /\ Cardinality(form'[o].events) <= MaxEvents + Cardinality(FormIDs)
  BY <1>2 DEF BoundInv
<1> QED BY <1>2, <1>4, <1>7, <1>8, <1>9 DEF BoundInv, Bounded

\* No event comes to a raffle that was not there or on its way to it.
LEMMA NoNewEvents ==
  ASSUME TypeOK, IsFiniteSet(Events), IsFiniteSet(Editors), BoundInv, EventsInv',
         UNCHANGED raffles,
         \A r \in raffles :
           /\ events[r] \subseteq events'[r]
           /\ events'[r] \cup Pending(r)' \subseteq events[r] \cup Pending(r),
         \A q \in Editors : epc'[q] = "append" =>
           epc[q] = "append" /\ etarget'[q] = etarget[q] /\ newIDs'[q] = newIDs[q],
         \A q \in Runners : pc'[q] = "insertRaffle" =>
           /\ form'[q].events # {}
           /\ Cardinality(form'[q].events) <= MaxEvents + Cardinality(FormIDs)
  PROVE  BoundInv'
<1>1. IsFiniteSet(FormIDs) /\ MaxEvents \in Nat
  BY FS_Subset, RaffleAssumption
<1>2. ASSUME NEW r \in raffles
      PROVE  events'[r] # {} /\ Bounded(Cardinality(events'[r] \cup Pending(r)'))
  <2> DEFINE S == events[r] \cup Pending(r)
             T == events'[r] \cup Pending(r)'
  <2>1. T \subseteq S /\ S \subseteq Events /\ Bounded(Cardinality(S)) /\ events[r] # {}
    BY DEF BoundInv, TypeOK, Pending
  <2>2. IsFiniteSet(S)
    BY <2>1, FS_Subset
  <2> HIDE DEF S, T
  <2>3. Bounded(Cardinality(T))
    BY <1>1, <2>1, <2>2, FewerIsBounded
  <2> QED BY <2>1, <2>3 DEF T
<1>3. ASSUME NEW q \in Editors, epc'[q] = "append"
      PROVE  Cardinality(newIDs'[q] \ events'[etarget'[q]]) <= MaxEvents - 1
  <2> DEFINE D == newIDs[q] \ events[etarget[q]]
             Dp == newIDs'[q] \ events'[etarget'[q]]
  <2>1. /\ epc[q] = "append" /\ etarget[q] \in raffles
        /\ etarget'[q] = etarget[q] /\ newIDs'[q] = newIDs[q]
    BY <1>3 DEF BoundInv, EventsInv
  <2>2. Dp \subseteq D /\ D \subseteq Events /\ Cardinality(D) <= MaxEvents - 1
    BY <2>1 DEF BoundInv, TypeOK
  <2>3. IsFiniteSet(D)
    BY <2>2, FS_Subset
  <2> HIDE DEF D, Dp
  <2>4. Cardinality(Dp) <= Cardinality(D) /\ Cardinality(Dp) \in Nat /\ Cardinality(D) \in Nat
    BY <2>2, <2>3, FS_Subset, FS_CardinalityType
  <2>5. Cardinality(Dp) <= MaxEvents - 1
    BY <1>1, <2>2, <2>4
  <2> QED BY <2>5 DEF Dp
<1> QED BY <1>2, <1>3 DEF BoundInv, Bounded

\* The form stores at most the limit and the ids of its checkboxes.
LEMMA FormStep ==
  ASSUME TypeOK, IsFiniteSet(Events), NEW q \in Runners, RunRaffle(q)
  PROVE  /\ form'[q].events # {}
         /\ Cardinality(form'[q].events) <= MaxEvents + Cardinality(FormIDs)
         /\ \A o \in Runners \ {q} : pc'[o] = pc[o] /\ form'[o] = form[o]
<1>1. PICK text \in SUBSET Events, ids \in SUBSET FormIDs, n \in WinnerCounts :
        /\ text \cup ids # {}
        /\ Cardinality(text) <= MaxEvents
        /\ form' = [form EXCEPT ![q] = [events |-> text \cup ids, count |-> n]]
  BY DEF RunRaffle
<1>2. form'[q].events = text \cup ids
  BY <1>1 DEF TypeOK
<1>3. IsFiniteSet(text) /\ IsFiniteSet(FormIDs) /\ IsFiniteSet(ids)
  BY FS_Subset, RaffleAssumption
<1>4. /\ Cardinality(text \cup ids) = Cardinality(text) + Cardinality(ids) - Cardinality(text \cap ids)
      /\ Cardinality(ids) <= Cardinality(FormIDs)
      /\ Cardinality(text) \in Nat /\ Cardinality(ids) \in Nat
      /\ Cardinality(text \cap ids) \in Nat /\ Cardinality(FormIDs) \in Nat
  BY <1>3, FS_Union, FS_Subset, FS_CardinalityType, FS_Intersection
<1>5. Cardinality(text \cup ids) <= MaxEvents + Cardinality(FormIDs)
  BY <1>1, <1>4, RaffleAssumption
<1> QED BY <1>1, <1>2, <1>5 DEF RunRaffle, TypeOK

\* The limit is checked against a raffle that may since have grown, and not at
\* all for the checkboxes; this is what it is worth all the same.  With one
\* request at a time adding events, only the checkboxes exceed it.
THEOREM EventsStayBounded ==
  ASSUME IsFiniteSet(Events), IsFiniteSet(Editors)
  PROVE  Spec => []EventsBounded
<1>1. Init => BoundInv
  BY DEF Init, BoundInv, EventsInv
<1>2. ASSUME TypeOK, BoundInv, [Next]_vars PROVE BoundInv'
  <2>1. ASSUME NEW q \in Runners, RunRaffle(q) PROVE BoundInv'
    <3>1. UNCHANGED <<raffles, events, epc, etarget, newIDs>>
      BY <2>1 DEF RunRaffle, tables, editor
    <3>2. \A o \in Runners : pc'[o] = "insertRaffle" =>
             /\ form'[o].events # {}
             /\ Cardinality(form'[o].events) <= MaxEvents + Cardinality(FormIDs)
      BY <1>2, <2>1, FormStep DEF BoundInv
    <3>3. EventsInv' /\ \A r \in raffles : Pending(r)' = Pending(r)
      BY <1>2, <3>1 DEF BoundInv, EventsInv, Pending
    <3> QED BY <1>2, <3>1, <3>2, <3>3, NoNewEvents
  <2>2. ASSUME NEW q \in Runners, InsertRaffle(q) PROVE BoundInv'
    <3>1. PICK s \in Raffles \ raffles :
             /\ raffles' = raffles \cup {s}
             /\ events' = [events EXCEPT ![s] = form[q].events]
      BY <2>2 DEF InsertRaffle
    <3>2. /\ UNCHANGED <<epc, etarget, newIDs>>
          /\ pc[q] = "insertRaffle"
          /\ \A o \in Runners : pc'[o] = "insertRaffle" =>
               pc[o] = "insertRaffle" /\ form'[o] = form[o]
      BY <1>2, <2>2 DEF InsertRaffle, Finish, editor, TypeOK
    <3>3. \A x \in raffles : x \in Raffles /\ x # s /\ events'[x] = events[x]
      BY <1>2, <3>1 DEF TypeOK
    <3>4. \A o \in Editors : epc[o] = "append" => etarget[o] \in raffles /\ etarget[o] # s
      BY <1>2, <3>1 DEF BoundInv, EventsInv
    <3>5. EventsInv'
      BY <1>2, <3>1, <3>2, <3>3, <3>4 DEF BoundInv, EventsInv, TypeOK
    <3>6. \A x \in raffles : Pending(x)' = Pending(x)
      BY <3>2 DEF Pending
    <3>7. events'[s] = form[q].events /\ Pending(s)' = {}
      BY <1>2, <3>1, <3>2, <3>4 DEF Pending, TypeOK
    <3>8. /\ events'[s] # {}
          /\ events'[s] \cup Pending(s)' = form[q].events
          /\ Bounded(Cardinality(form[q].events))
      BY <1>2, <3>2, <3>7 DEF BoundInv, Bounded
    <3>9. ASSUME NEW x \in raffles'
          PROVE  events'[x] # {} /\ Bounded(Cardinality(events'[x] \cup Pending(x)'))
      BY <1>2, <3>1, <3>3, <3>6, <3>8 DEF BoundInv
    <3>10. \A o \in Editors : epc'[o] = "append" =>
              Cardinality(newIDs'[o] \ events'[etarget'[o]]) <= MaxEvents - 1
      BY <1>2, <3>2, <3>3, <3>4 DEF BoundInv
    <3>11. \A o \in Runners : pc'[o] = "insertRaffle" =>
              /\ form'[o].events # {}
              /\ Cardinality(form'[o].events) <= MaxEvents + Cardinality(FormIDs)
      BY <1>2, <3>2 DEF BoundInv
    <3> QED BY <3>5, <3>9, <3>10, <3>11 DEF BoundInv, Bounded
  <2>3. ASSUME UNCHANGED <<raffles, events, editor>>,
               \A o \in Runners : pc'[o] = "insertRaffle" =>
                 pc[o] = "insertRaffle" /\ form'[o] = form[o]
        PROVE  BoundInv'
    <3>1. \A r \in raffles : Pending(r)' = Pending(r)
      BY <2>3 DEF editor, Pending
    <3>2. EventsInv'
      BY <1>2, <2>3 DEF editor, BoundInv, EventsInv
    <3> QED BY <1>2, <2>3, <3>1, <3>2, NoNewEvents DEF editor, BoundInv
  <2>4. ASSUME NEW q \in Runners, NEW r \in Raffles, RerunRaffle(q, r)
        PROVE  BoundInv'
    <3>1. PICK statement \in {"deleteUnconfirmed", "insertMembers"} :
             pc' = [pc EXCEPT ![q] = statement]
      BY <2>4 DEF RerunRaffle
    <3>2. \A o \in Runners : pc'[o] = "insertRaffle" => pc[o] = "insertRaffle"
      BY <1>2, <3>1 DEF TypeOK
    <3> QED BY <2>3, <2>4, <3>2 DEF RerunRaffle, tables
  <2>5. ASSUME NEW q \in Runners,
               \/ InsertMembers(q)
               \/ DeleteNotConfirmedRaffleWinners(q)
               \/ MarkRaffleWinnersAsPast(q)
               \/ InsertRaffleWinners(q)
               \/ InsertRaffleWinnersFails(q)
               \/ Abort(q)
        PROVE  BoundInv'
    <3>1. UNCHANGED <<raffles, events, editor>>
      BY <2>5 DEF InsertMembers, DeleteNotConfirmedRaffleWinners,
                  MarkRaffleWinnersAsPast, InsertRaffleWinners,
                  InsertRaffleWinnersFails, Abort, tables
    <3>2. \A o \in Runners : pc'[o] = "insertRaffle" =>
             pc[o] = "insertRaffle" /\ form'[o] = form[o]
      BY <1>2, <2>5 DEF InsertMembers, DeleteNotConfirmedRaffleWinners,
                  MarkRaffleWinnersAsPast, InsertRaffleWinners,
                  InsertRaffleWinnersFails, Abort, Goto, Finish, TypeOK
    <3> QED BY <2>3, <3>1, <3>2
  <2>6. ASSUME NEW q \in Editors, NEW r \in Raffles, PostAddRaffleEvents(q, r)
        PROVE  BoundInv'
    BY <1>2, <2>6, EditStep
  <2>7. ASSUME NEW q \in Editors, AppendRaffleEvents(q) PROVE BoundInv'
    <3>1. /\ epc[q] = "append" /\ etarget[q] \in raffles
          /\ events' = [events EXCEPT ![etarget[q]] = @ \cup newIDs[q]]
          /\ UNCHANGED <<raffles, pc, form>>
      BY <1>2, <2>7 DEF AppendRaffleEvents, runner, BoundInv, EventsInv
    <3>2. /\ epc'[q] = "idle"
          /\ \A o \in Editors \ {q} :
               epc'[o] = epc[o] /\ etarget'[o] = etarget[o] /\ newIDs'[o] = newIDs[o]
      BY <1>2, <2>7 DEF AppendRaffleEvents, EndEdit, TypeOK
    <3>3. /\ raffles \subseteq Raffles /\ events \in [Raffles -> SUBSET Events]
          /\ newIDs[q] \subseteq Events
      BY <1>2 DEF TypeOK
    <3>4. \A r \in raffles :
             /\ events[r] \subseteq events'[r]
             /\ events'[r] \subseteq events[r] \cup Pending(r)
             /\ Pending(r)' \subseteq Pending(r)
      BY <3>1, <3>2, <3>3 DEF Pending
    <3>5. EventsInv'
      BY <1>2, <3>1, <3>2, <3>3 DEF BoundInv, EventsInv
    <3> QED BY <1>2, <3>1, <3>2, <3>4, <3>5, NoNewEvents DEF BoundInv
  <2>8. ASSUME NEW q \in Editors, AbortEdit(q) PROVE BoundInv'
    <3>1. /\ UNCHANGED <<raffles, events, pc, form>>
          /\ epc'[q] = "idle"
          /\ \A o \in Editors \ {q} :
               epc'[o] = epc[o] /\ etarget'[o] = etarget[o] /\ newIDs'[o] = newIDs[o]
      BY <1>2, <2>8 DEF AbortEdit, EndEdit, tables, runner, TypeOK
    <3>2. \A r \in raffles : Pending(r)' \subseteq Pending(r)
      BY <3>1 DEF Pending
    <3>3. EventsInv'
      BY <1>2, <3>1 DEF BoundInv, EventsInv
    <3> QED BY <1>2, <3>1, <3>2, <3>3, NoNewEvents DEF BoundInv
  <2>9. CASE UNCHANGED <<raffles, events, runner, editor>>
    BY <2>3, <2>9 DEF runner
  <2> QED
    BY <1>2, <2>1, <2>2, <2>4, <2>5, <2>6, <2>7, <2>8, <2>9
       DEF Next, Runner, Editor, ConfirmRaffleWinner, tables, vars
<1>3. ASSUME TypeOK, BoundInv PROVE EventsBounded
  <2> SUFFICES ASSUME NEW r \in raffles PROVE Bounded(Cardinality(events[r]))
    BY DEF EventsBounded, Bounded
  <2> DEFINE S == events[r] \cup Pending(r)
             T == events[r]
  <2>1. T \subseteq S /\ S \subseteq Events /\ Bounded(Cardinality(S))
    BY <1>3 DEF BoundInv, TypeOK, Pending
  <2>2. IsFiniteSet(S) /\ IsFiniteSet(FormIDs)
    BY <2>1, FS_Subset, RaffleAssumption
  <2> HIDE DEF S, T
  <2>3. Bounded(Cardinality(T))
    BY <2>1, <2>2, FewerIsBounded
  <2> QED BY <2>3 DEF T
<1> QED BY <1>1, <1>2, <1>3, RaffleTypeCorrect, PTL DEF Spec

-----------------------------------------------------------------------------
(***************************************************************************)
(* The draw: the goroutines collect one ticket per entry in any order, and *)
(* the loop over the tickets returns what DrawOutcome says.  The draw has  *)
(* variables of its own; winner_count is not checked before it.            *)
(***************************************************************************)

EntriesIn(S, m) == {e \in S : Enters(e, m)}

\* The tickets of the events in S.
Collected(S) ==
  \A m \in Attendees :
    tickets[m] = IF singleEntry THEN Outcome!Smaller(1, Cardinality(EntriesIn(S, m)))
                                ELSE Cardinality(EntriesIn(S, m))

Collecting ==
  /\ phase = "collect" => drawn = <<>> /\ Collected(RaffleEvents \ pending)
  /\ TicketsAreEntries

\* An entrant has won or has tickets left, and nobody else has either.
Drawing ==
  /\ phase = "draw" =>
       \A m \in Attendees :
         /\ tickets[m] > 0 => m \in EntrantPool
         /\ m \in EntrantPool => tickets[m] > 0 \/ m \in Won
  /\ Won \subseteq EntrantPool
  /\ IsFiniteSet(Won) /\ Cardinality(Won) = Len(drawn)
  /\ winnerCount >= 0 => Len(drawn) <= winnerCount
  /\ phase = "done" => winnerCount >= 0

DrawIInv == DrawTypeOK /\ Collecting /\ Drawing

LEMMA EntriesFinite ==
  ASSUME NEW S, S \subseteq RaffleEvents, NEW m
  PROVE  /\ IsFiniteSet(EntriesIn(S, m))
         /\ Cardinality(EntriesIn(S, m)) \in 0..Cardinality(RaffleEvents)
<1>1. IsFiniteSet(RaffleEvents) /\ EntriesIn(S, m) \in SUBSET RaffleEvents
  BY DrawAssumption DEF EntriesIn
<1>2. IsFiniteSet(EntriesIn(S, m)) /\ Cardinality(EntriesIn(S, m)) <= Cardinality(RaffleEvents)
  BY <1>1, FS_Subset
<1> QED BY <1>1, <1>2, FS_CardinalityType

\* A member has tickets exactly if there is an entry.
LEMMA TicketsMeanEntries ==
  ASSUME DrawTypeOK, NEW S, S \subseteq RaffleEvents, Collected(S), NEW m \in Attendees
  PROVE  tickets[m] > 0 <=> EntriesIn(S, m) # {}
<1>1. /\ IsFiniteSet(EntriesIn(S, m)) /\ Cardinality(EntriesIn(S, m)) \in Nat
  BY EntriesFinite, FS_CardinalityType
<1>2. Cardinality(EntriesIn(S, m)) = 0 <=> EntriesIn(S, m) = {}
  BY <1>1, FS_EmptySet
<1>3. tickets[m] = IF singleEntry THEN Outcome!Smaller(1, Cardinality(EntriesIn(S, m)))
                                  ELSE Cardinality(EntriesIn(S, m))
  BY DEF Collected
<1> QED BY <1>1, <1>2, <1>3 DEF Outcome!Smaller

LEMMA WonBy ==
  ASSUME DrawTypeOK
  PROVE  /\ drawn \in Seq(Attendees) /\ Len(drawn) \in Nat
         /\ (drawn = <<>> => Won = {})
         /\ Won \subseteq Attendees
BY DEF DrawTypeOK, Won

LEMMA PoolIsEntries == EntrantPool = {m \in Attendees : EntriesIn(RaffleEvents, m) # {}}
BY DEF EntrantPool, Entries, EntriesIn

LEMMA DrawInitInv == DrawInit => DrawIInv
<1> SUFFICES ASSUME DrawInit PROVE DrawIInv
  OBVIOUS
<1>1. Cardinality(RaffleEvents) \in Nat
  BY FS_CardinalityType, DrawAssumption
<1>2. DrawTypeOK
  BY <1>1 DEF DrawInit, DrawTypeOK
<1>3. \A m : EntriesIn(RaffleEvents \ pending, m) = {}
  BY DEF DrawInit, EntriesIn
<1>4. Collected(RaffleEvents \ pending)
  <2>1. \A m : Cardinality(EntriesIn(RaffleEvents \ pending, m)) = 0
    BY <1>3, FS_EmptySet
  <2>2. \A m \in Attendees : tickets[m] = 0
    BY DEF DrawInit
  <2> QED BY <2>1, <2>2 DEF Collected, Outcome!Smaller
<1>5. Collecting
  BY <1>4 DEF DrawInit, Collecting, TicketsAreEntries
<1>6. Won = {} /\ Len(drawn) = 0
  BY <1>2, WonBy DEF DrawInit
<1>7. Drawing
  BY <1>6, FS_EmptySet DEF DrawInit, Drawing
<1> QED BY <1>2, <1>5, <1>7 DEF DrawIInv

\* Nobody looks at the raffle again once it has been read.
LEMMA PoolKept ==
  ASSUME UNCHANGED raffle
  PROVE  /\ EntrantPool' = EntrantPool
         /\ \A S, m : EntriesIn(S, m)' = EntriesIn(S', m')
         /\ winnerCount' = winnerCount /\ singleEntry' = singleEntry
BY DEF raffle, EntrantPool, Entries, EntriesIn, Enters

LEMMA CollectKeeps ==
  ASSUME DrawIInv, NEW e \in RaffleEvents, CollectEvent(e)
  PROVE  DrawIInv'
<1> DEFINE S == RaffleEvents \ pending
<1>1. /\ phase = "collect" /\ e \in pending /\ pending' = pending \ {e}
      /\ tickets' = [m \in Attendees |->
                       IF Enters(e, m) /\ ~(singleEntry /\ tickets[m] > 0)
                         THEN tickets[m] + 1 ELSE tickets[m]]
      /\ phase' = IF pending' = {} THEN "draw" ELSE "collect"
      /\ UNCHANGED <<raffle, drawn>>
  BY DEF CollectEvent
<1>2. DrawTypeOK /\ drawn = <<>> /\ Collected(S)
  BY <1>1 DEF DrawIInv, Collecting
<1>3. RaffleEvents \ pending' = S \cup {e} /\ e \notin S /\ S \subseteq RaffleEvents
  BY <1>1, <1>2 DEF DrawTypeOK
<1>4. ASSUME NEW m \in Attendees
      PROVE  tickets'[m] = IF singleEntry
                             THEN Outcome!Smaller(1, Cardinality(EntriesIn(S \cup {e}, m)))
                             ELSE Cardinality(EntriesIn(S \cup {e}, m))
  <2> DEFINE n == Cardinality(EntriesIn(S, m))
  <2>1. n \in Nat /\ IsFiniteSet(EntriesIn(S, m)) /\ e \notin EntriesIn(S, m)
    BY <1>3, EntriesFinite, FS_CardinalityType DEF EntriesIn
  <2>2. tickets[m] = IF singleEntry THEN Outcome!Smaller(1, n) ELSE n
    BY <1>2 DEF Collected
  <2>3. CASE Enters(e, m)
    <3>1. EntriesIn(S \cup {e}, m) = EntriesIn(S, m) \cup {e}
      BY <2>3 DEF EntriesIn
    <3>2. Cardinality(EntriesIn(S \cup {e}, m)) = n + 1
      BY <2>1, <3>1, FS_AddElement
    <3> HIDE DEF n
    <3> QED BY <1>1, <2>1, <2>2, <2>3, <3>2 DEF Outcome!Smaller
  <2>4. CASE ~Enters(e, m)
    <3>1. EntriesIn(S \cup {e}, m) = EntriesIn(S, m)
      BY <2>4 DEF EntriesIn
    <3> QED BY <1>1, <2>2, <2>4, <3>1
  <2> QED BY <2>3, <2>4
<1>5. \A m : EntriesIn(RaffleEvents \ pending, m)' = EntriesIn(S \cup {e}, m)
  BY <1>1, <1>3 DEF raffle, EntriesIn, Enters
<1>6. Collected(RaffleEvents \ pending)'
  BY <1>1, <1>4, <1>5 DEF Collected, raffle
<1>7. DrawTypeOK'
  <2>1. \A m \in Attendees : tickets'[m] \in 0..Cardinality(RaffleEvents)
    <3> SUFFICES ASSUME NEW m \in Attendees PROVE tickets'[m] \in 0..Cardinality(RaffleEvents)
      OBVIOUS
    <3> DEFINE n == Cardinality(EntriesIn(S \cup {e}, m))
    <3>1. n \in 0..Cardinality(RaffleEvents) /\ Cardinality(RaffleEvents) \in Nat
      BY <1>3, EntriesFinite, FS_CardinalityType, DrawAssumption
    <3>2. tickets'[m] = IF singleEntry THEN Outcome!Smaller(1, n) ELSE n
      BY <1>4
    <3> HIDE DEF n
    <3> QED BY <3>1, <3>2 DEF Outcome!Smaller
  <2>2. tickets' \in [Attendees -> 0..Cardinality(RaffleEvents)]
    BY <1>1, <2>1
  <2> QED BY <1>1, <1>2, <2>2 DEF DrawTypeOK, raffle
<1>8. ASSUME phase' = "draw"
      PROVE  /\ \A m \in Attendees : EntriesIn(RaffleEvents \ pending, m)' = Entries(m)'
             /\ (RaffleEvents \ pending)' = RaffleEvents
  BY <1>1, <1>8 DEF EntriesIn, Entries
<1>9. TicketsAreEntries'
  BY <1>6, <1>8 DEF TicketsAreEntries, Collected
<1>10. Won' = Won /\ Won = {} /\ Len(drawn) = 0
  BY <1>1, <1>2, WonBy DEF Won
<1>11. ASSUME phase' = "draw", NEW m \in Attendees
       PROVE  tickets'[m] > 0 <=> m \in EntrantPool'
  <2>1. EntriesIn(S \cup {e}, m) = EntriesIn(RaffleEvents, m) /\ S \cup {e} = RaffleEvents
    BY <1>3, <1>8, <1>11
  <2> DEFINE n == Cardinality(EntriesIn(RaffleEvents, m))
  <2>2. n \in Nat /\ (n = 0 <=> EntriesIn(RaffleEvents, m) = {})
    BY EntriesFinite, FS_CardinalityType, FS_EmptySet
  <2>3. tickets'[m] = IF singleEntry THEN Outcome!Smaller(1, n) ELSE n
    BY <1>4, <2>1
  <2>4. m \in EntrantPool' <=> EntriesIn(RaffleEvents, m) # {}
    BY <1>1, PoolKept, PoolIsEntries
  <2> HIDE DEF n
  <2> QED BY <2>2, <2>3, <2>4 DEF Outcome!Smaller
<1>12. Drawing'
  BY <1>1, <1>10, <1>11, FS_EmptySet DEF Drawing, raffle
<1>13. Collecting'
  BY <1>1, <1>2, <1>6, <1>9 DEF Collecting
<1> QED BY <1>7, <1>12, <1>13 DEF DrawIInv

LEMMA TicketKeeps ==
  ASSUME DrawIInv, NEW m \in Attendees, DrawTicket(m)
  PROVE  DrawIInv'
<1>1. /\ phase = "draw" /\ tickets[m] > 0 /\ Len(drawn) < winnerCount
      /\ tickets' = [tickets EXCEPT ![m] = @ - 1]
      /\ drawn' = IF m \in Won THEN drawn ELSE Append(drawn, m)
      /\ UNCHANGED <<raffle, pending, phase>>
  <2>1. ~(Len(drawn) >= winnerCount) /\ Len(drawn) \in Nat /\ winnerCount \in Int
    BY WonBy, DrawAssumption DEF DrawTicket, Complete, DrawIInv, DrawTypeOK
  <2> QED BY <2>1 DEF DrawTicket
<1>2. DrawTypeOK /\ Drawing /\ Won \subseteq Attendees
  BY WonBy DEF DrawIInv
<1>3. /\ drawn \in Seq(Attendees) /\ Len(drawn) \in Nat /\ winnerCount \in Int
      /\ tickets \in [Attendees -> 0..Cardinality(RaffleEvents)] /\ Cardinality(RaffleEvents) \in Nat
  BY <1>2, FS_CardinalityType, WonBy, DrawAssumption DEF DrawTypeOK
<1>4. /\ Won' = Won \cup {m} /\ drawn' \in Seq(Attendees) /\ drawn' # <<>>
      /\ Len(drawn') = IF m \in Won THEN Len(drawn) ELSE Len(drawn) + 1
  <2>1. CASE m \in Won
    <3>1. drawn # <<>>
      BY <1>2, <2>1, WonBy
    <3> QED BY <1>1, <1>3, <2>1, <3>1 DEF Won
  <2>2. CASE m \notin Won
    <3>1. drawn' = Append(drawn, m)
      BY <1>1, <2>2
    <3>2. /\ Len(drawn') = Len(drawn) + 1 /\ drawn' \in Seq(Attendees) /\ drawn' # <<>>
          /\ \A i \in 1..Len(drawn) : drawn'[i] = drawn[i]
          /\ drawn'[Len(drawn) + 1] = m
      BY <1>3, <3>1
    <3>3. Won' = {drawn'[i] : i \in 1..Len(drawn')}
      BY DEF Won
    <3>4. 1..Len(drawn') = 1..Len(drawn) \cup {Len(drawn) + 1}
      BY <1>3, <3>2
    <3> QED BY <2>2, <3>2, <3>3, <3>4 DEF Won
  <2> QED BY <2>1, <2>2
<1>5. tickets' \in [Attendees -> 0..Cardinality(RaffleEvents)]
  BY <1>1, <1>3
<1>6. DrawTypeOK'
  BY <1>1, <1>2, <1>4, <1>5 DEF DrawTypeOK, raffle
<1>7. Collecting'
  BY <1>1, <1>4 DEF Collecting, TicketsAreEntries
<1>8. /\ IsFiniteSet(Won') /\ Cardinality(Won') = Len(drawn')
  BY <1>2, <1>4, FS_AddElement DEF Drawing
<1>9. EntrantPool' = EntrantPool /\ winnerCount' = winnerCount /\ m \in EntrantPool
  BY <1>1, <1>2, PoolKept DEF Drawing
<1>10. ASSUME NEW n \in Attendees
       PROVE  /\ tickets'[n] > 0 => n \in EntrantPool
              /\ n \in EntrantPool => tickets'[n] > 0 \/ n \in Won'
  BY <1>1, <1>2, <1>3, <1>4, <1>9 DEF Drawing
<1>11. winnerCount >= 0 => Len(drawn') <= winnerCount
  BY <1>1, <1>3, <1>4
<1>12. Won' \subseteq EntrantPool
  BY <1>2, <1>4, <1>9 DEF Drawing
<1>13. Drawing'
  BY <1>1, <1>8, <1>9, <1>10, <1>11, <1>12 DEF Drawing
<1> QED BY <1>6, <1>7, <1>13 DEF DrawIInv

LEMMA DrawStep ==
  ASSUME DrawIInv, [DrawNext]_drawVars
  PROVE  DrawIInv'
<1>1. ASSUME NEW e \in RaffleEvents, CollectEvent(e) PROVE DrawIInv'
  BY <1>1, CollectKeeps
<1>2. ASSUME NEW m \in Attendees, DrawTicket(m) PROVE DrawIInv'
  BY <1>2, TicketKeeps
<1>3. ASSUME UNCHANGED <<raffle, pending, tickets, drawn>>,
             phase' = "failed" \/ (phase' = "done" /\ winnerCount >= 0)
      PROVE  DrawIInv'
  <2>1. DrawTypeOK'
    BY <1>3 DEF DrawIInv, DrawTypeOK, raffle
  <2>2. Won' = Won /\ EntrantPool' = EntrantPool
    BY <1>3, PoolKept DEF Won
  <2> QED BY <1>3, <2>1, <2>2 DEF DrawIInv, Collecting, TicketsAreEntries, Drawing, raffle
<1>4. CASE FetchFails \/ MakePanics \/ Return
  BY <1>3, <1>4 DEF FetchFails, MakePanics, Return
<1>5. CASE UNCHANGED drawVars
  <2>1. DrawTypeOK'
    BY <1>5 DEF DrawIInv, DrawTypeOK, drawVars, raffle
  <2>2. /\ Won' = Won /\ EntrantPool' = EntrantPool
        /\ \A S, m : EntriesIn(S, m)' = EntriesIn(S', m')
        /\ \A m : Entries(m)' = Entries(m')
    BY <1>5, PoolKept DEF drawVars, raffle, Won, Entries, Enters
  <2>3. Collecting' /\ Drawing'
    BY <1>5, <2>2 DEF DrawIInv, Collecting, Collected, TicketsAreEntries, Drawing, drawVars, raffle
  <2> QED BY <2>1, <2>3 DEF DrawIInv
<1> QED BY <1>1, <1>2, <1>4, <1>5 DEF DrawNext

\* However the goroutines are scheduled, the draw starts with a ticket per
\* entry, or per entrant when only a single entry counts.
THEOREM DrawInvariant == DrawSpec => []DrawInv
<1>1. DrawIInv => DrawInv
  BY DEF DrawIInv, DrawInv, Collecting
<1>2. DrawIInv /\ [DrawNext]_drawVars => DrawIInv'
  BY DrawStep
<1> QED BY <1>1, <1>2, DrawInitInv, PTL DEF DrawSpec

\* DrawOutcome counts as this module does.
LEMMA SameCardinality == \A S : Outcome!Cardinality(S) = Cardinality(S)
BY DEF Outcome!Cardinality, Cardinality

\* A loop that has come to its end has one winner for each prize, or all.
LEMMA ReturnIsOutcome ==
  ASSUME DrawIInv, Return
  PROVE  Won \in Outcome!Outcomes
<1>1. /\ phase = "draw" /\ winnerCount >= 0 /\ Complete
      /\ DrawTypeOK /\ Drawing /\ winnerCount \in Int
  BY DrawAssumption DEF Return, DrawIInv, DrawTypeOK
<1>2. /\ Won \subseteq EntrantPool /\ IsFiniteSet(Won) /\ Cardinality(Won) = Len(drawn)
      /\ Len(drawn) <= winnerCount /\ Len(drawn) \in Nat
  BY <1>1, WonBy DEF Drawing
<1>3. IsFiniteSet(EntrantPool) /\ Cardinality(EntrantPool) \in Nat
  <2>1. EntrantPool \in SUBSET Attendees /\ IsFiniteSet(Attendees)
    BY DrawAssumption DEF EntrantPool
  <2> QED BY <2>1, FS_Subset, FS_CardinalityType
<1>4. Cardinality(Won) <= Cardinality(EntrantPool)
  BY <1>2, <1>3, FS_Subset
<1>5. ASSUME Exhausted
      PROVE  Cardinality(Won) = Outcome!Smaller(winnerCount, Cardinality(EntrantPool))
  <2>1. Won = EntrantPool
    <3>1. \A m \in EntrantPool : m \in Attendees /\ ~(tickets[m] > 0)
      BY <1>5 DEF Exhausted, EntrantPool
    <3> QED BY <1>1, <1>2, <3>1 DEF Drawing
  <2> QED BY <1>1, <1>2, <1>3, <2>1 DEF Outcome!Smaller
<1>6. ASSUME Len(drawn) >= winnerCount
      PROVE  Cardinality(Won) = Outcome!Smaller(winnerCount, Cardinality(EntrantPool))
  BY <1>1, <1>2, <1>3, <1>4, <1>6 DEF Outcome!Smaller
<1>7. Cardinality(Won) = Outcome!Smaller(winnerCount, Cardinality(EntrantPool))
  BY <1>1, <1>5, <1>6 DEF Complete
<1> QED BY <1>2, <1>7, SameCardinality DEF Outcome!Outcomes

\* raffleWinners implements DrawOutcome, for any number of events and members:
\* as many distinct entrants win as there are prizes, or all of them.
THEOREM DrawImplementsOutcome == DrawSpec => ImplementsOutcome
<1> DEFINE shown == IF phase = "done" THEN {Won} ELSE {}
<1>1. DrawInit => Outcome!Init
  BY DEF DrawInit, Outcome!Init
<1>2. DrawIInv /\ [DrawNext]_drawVars => [Outcome!Next]_<<EntrantPool, winnerCount, shown>>
  <2> SUFFICES ASSUME DrawIInv, [DrawNext]_drawVars
               PROVE  [Outcome!Next]_<<EntrantPool, winnerCount, shown>>
    OBVIOUS
  <2>1. UNCHANGED <<EntrantPool, winnerCount>>
    <3>1. UNCHANGED raffle
      BY DEF DrawNext, CollectEvent, FetchFails, DrawTicket, MakePanics, Return, drawVars
    <3> QED BY <3>1, PoolKept
  <2>2. CASE Return
    <3>1. shown = {} /\ shown' = {Won}
      BY <2>2 DEF Return, Won
    <3>2. Won \in Outcome!Outcomes
      BY <2>2, ReturnIsOutcome
    <3> HIDE DEF shown
    <3> QED BY <2>1, <3>1, <3>2 DEF Outcome!Next, shown
  <2>3. CASE \/ \E e \in RaffleEvents : CollectEvent(e)
             \/ FetchFails \/ (\E m \in Attendees : DrawTicket(m)) \/ MakePanics
    <3>1. phase # "done" /\ phase' # "done"
      BY <2>3 DEF CollectEvent, FetchFails, DrawTicket, MakePanics
    <3> QED BY <2>1, <3>1
  <2>4. CASE UNCHANGED drawVars
    BY <2>1, <2>4 DEF drawVars, Won
  <2> QED BY <2>2, <2>3, <2>4 DEF DrawNext
<1>3. DrawIInv /\ [DrawNext]_drawVars => DrawIInv'
  BY DrawStep
<1> QED BY <1>1, <1>2, <1>3, DrawInitInv, PTL DEF DrawSpec, ImplementsOutcome, Outcome!Spec

\* Whatever raffleWinners returns is a draw that Raffle lets a handler make:
\* distinct members, none of them settled, and no more than winner_count.
THEOREM DrawIsAllowed ==
  ASSUME Attendees \subseteq Members
  PROVE  DrawSpec => [](phase = "done" => Won \in Draws(settled, winnerCount))
<1>1. DrawIInv => (phase = "done" => Won \in Draws(settled, winnerCount))
  <2> SUFFICES ASSUME DrawIInv, phase = "done"
               PROVE  Won \in Draws(settled, winnerCount)
    OBVIOUS
  <2>1. /\ Won \subseteq EntrantPool
        /\ Cardinality(Won) = Len(drawn) /\ Len(drawn) <= winnerCount
    BY DEF DrawIInv, Drawing
  <2>2. EntrantPool \subseteq Attendees \ settled
    BY DEF EntrantPool, Entries, Enters
  <2> QED BY <2>1, <2>2 DEF Draws
<1>2. DrawIInv /\ [DrawNext]_drawVars => DrawIInv'
  BY DrawStep
<1> QED BY <1>1, <1>2, DrawInitInv, PTL DEF DrawSpec
=============================================================================
