-------------------------- MODULE DiagnosticsProofs --------------------------
(***************************************************************************)
(* Proofs about Diagnostics, for any set of error flags and any number of   *)
(* frames, errors and commands: the types, the exactness of the counters    *)
(* and that get_diag loses no error flag but those set in its window and   *)
(* those of a message the link refused.                                    *)
(***************************************************************************)
EXTENDS Diagnostics, TLAPS

\* The mutex is held by the reader that is between its transfers.
Holds == \A r \in Readers : mutex = r <=> pc[r] \in {"bdiag", "clear"}

\* The value that canfd_rx_task has loaded is still that of the counter.
LoadedIsCount == \A k \in Counters \ undone : adding = k => reg = count[k]

\* What is in the register when it is cleared has been read or came late.
ReadOrLate ==
  \A r \in Readers :
    pc[r] = "clear" /\ Clears(r) => bdiag.errs \subseteq diag[r].errs \cup late

CountInv == CountsExact /\ LoadedIsCount
ErrorInv == NoErrorLost /\ ReadOrLate
IInv == TypeOK /\ Holds /\ CountInv /\ ErrorInv

\* The actions of Next one by one, for the proofs that look at each.
LEMMA Steps ==
  ASSUME Next
  PROVE  \/ \E e \in Kinds : Latch(e)
         \/ CountMessage
         \/ \E l \in Levels : ChangeLevel(l)
         \/ \E k \in Counters : Load(k)
         \/ Store \/ OtherTake \/ OtherGive
         \/ ResetRx \/ ResetTx \/ AskDiag \/ Period
         \/ \E r \in Readers : \/ Take(r) \/ TakeTimeout(r) \/ ReadBdiag(r)
                               \/ ClearBdiag(r) \/ Serialize(r)
                               \/ WriteTaken(r) \/ WriteRefused(r)
BY DEF Next, GetDiag

-----------------------------------------------------------------------------
(* Types. *)

LEMMA TypeStep == ASSUME TypeOK, [Next]_vars PROVE TypeOK'
<1> USE DEF TypeOK, Diag, Msg, Pcs, Readers, Counters, Levels
<1>1. ASSUME NEW e \in Kinds, Latch(e) PROVE TypeOK'
  BY <1>1 DEF Latch, counting, readers, commands
<1>2. CASE CountMessage
  BY <1>2, ZenonT(40) DEF CountMessage, counting, readers, commands
<1>3. ASSUME NEW l \in Levels, ChangeLevel(l) PROVE TypeOK'
  BY <1>3 DEF ChangeLevel, counting, readers, commands
<1>4. ASSUME NEW k \in Counters, Load(k) PROVE TypeOK'
  BY <1>4 DEF Load, chip, readers, commands
<1>5. CASE Store
  BY <1>5 DEF Store, chip, readers, commands
<1>6. CASE OtherTake \/ OtherGive
  BY <1>6 DEF OtherTake, OtherGive, chip, counting, readers, commands
<1>7. ASSUME NEW k \in Counters, ResetCounter(k)
      PROVE  /\ count' \in [Counters -> Nat] /\ fresh' \in [Counters -> Nat]
             /\ undone' \subseteq Counters
  BY <1>7 DEF ResetCounter
<1>7a. CASE ResetRx
  <2> HIDE DEF TypeOK, Readers, Counters
  <2>1. ResetCounter("rx") /\ "rx" \in Counters
    BY <1>7a DEF ResetRx, Counters
  <2>2. pc' \in [Readers -> Pcs \cup {"reset"}] /\ pc'["mon"] \in Pcs
    BY <1>7a DEF ResetRx, Goto, TypeOK, Readers
  <2>3. {gets', resets'} \subseteq Nat
    BY <1>7a DEF ResetRx, TypeOK
  <2> QED
    BY <1>7, <1>7a, <2>1, <2>2, <2>3 DEF ResetRx, TypeOK, chip
<1>7b. CASE ResetTx
  <2> HIDE DEF TypeOK, Readers, Counters
  <2>1. ResetCounter("tx") /\ "tx" \in Counters
    BY <1>7b DEF ResetTx, Counters
  <2>2. pc' \in [Readers -> Pcs \cup {"reset"}] /\ pc'["mon"] \in Pcs
    BY <1>7b DEF ResetTx, Goto, TypeOK, Readers
  <2> QED
    BY <1>7, <1>7b, <2>1, <2>2 DEF ResetTx, TypeOK, chip, commands
<1>8. CASE AskDiag
  BY <1>8 DEF AskDiag, Goto, chip, counting
<1>8a. CASE Period
  BY <1>8a DEF Period, Goto, chip, counting, commands
<1>9. ASSUME NEW r \in Readers, Take(r) \/ TakeTimeout(r) PROVE TypeOK'
  BY <1>9 DEF Take, TakeTimeout, Goto, chip, counting, commands
<1>10. ASSUME NEW r \in Readers, ReadBdiag(r) PROVE TypeOK'
  BY <1>10 DEF ReadBdiag, Goto, chip, counting, commands
<1>11. ASSUME NEW r \in Readers, ClearBdiag(r) PROVE TypeOK'
  BY <1>11 DEF ClearBdiag, Goto, counting, commands
<1>12. ASSUME NEW r \in Readers, Serialize(r) PROVE TypeOK'
  BY <1>12 DEF Serialize, Flags, Goto, chip, counting, commands
<1>13. ASSUME NEW r \in Readers, WriteTaken(r) \/ WriteRefused(r) PROVE TypeOK'
  <2> HIDE DEF TypeOK, Readers, Counters, Levels, Diag, Msg
  <2>1. pc' \in [Readers -> Pcs \cup {"reset"}] /\ pc'["mon"] \in Pcs
    BY <1>13 DEF WriteTaken, WriteRefused, Goto, TypeOK, Readers
  <2>2. NoDiag \in Diag /\ NoMsg \in Msg
    BY DEF NoDiag, NoMsg, Diag, Msg, Levels
  <2>3. Leave(r)
    BY <1>13 DEF WriteTaken, WriteRefused
  <2>4. diag' \in [Readers -> Diag] /\ msg' \in [Readers -> Msg]
    BY <2>2, <2>3 DEF Leave, TypeOK
  <2>5. msg[r].level \in Levels /\ msg[r].errs \subseteq Reported
    BY DEF TypeOK, Msg
  <2>6. shown' \in Levels /\ told' \subseteq Reported /\ gone' \subseteq Reported
    BY <1>13, <2>5 DEF WriteTaken, WriteRefused, TypeOK
  <2> QED
    BY <1>13, <2>1, <2>4, <2>6 DEF WriteTaken, WriteRefused, TypeOK, chip, counting, commands
<1>14. CASE UNCHANGED vars
  BY <1>14 DEF vars, chip, counting, readers, commands
<1> QED
  BY Steps, <1>1, <1>2, <1>3, <1>4, <1>5, <1>6, <1>7a, <1>7b, <1>8, <1>8a, <1>9,
     <1>10, <1>11, <1>12, <1>13, <1>14

-----------------------------------------------------------------------------
(* The mutex. *)

LEMMA HoldsStep == ASSUME TypeOK, Holds, [Next]_vars PROVE Holds'
<1> USE DEF TypeOK, Holds, Readers, Pcs
<1>1. ASSUME NEW e \in Kinds, Latch(e) PROVE Holds'
  BY <1>1 DEF Latch, readers
<1>2. CASE CountMessage \/ \E l \in Levels : ChangeLevel(l)
  BY <1>2 DEF CountMessage, ChangeLevel, readers
<1>3. CASE Store \/ \E k \in Counters : Load(k)
  BY <1>3 DEF Store, Load, readers
<1>4. CASE OtherTake \/ OtherGive
  BY <1>4 DEF OtherTake, OtherGive, readers
<1>5. CASE ResetRx \/ ResetTx \/ AskDiag \/ Period
  BY <1>5 DEF ResetRx, ResetTx, AskDiag, Period, Goto
<1>6. ASSUME NEW r \in Readers, Take(r) \/ TakeTimeout(r) \/ ReadBdiag(r)
      PROVE  Holds'
  BY <1>6 DEF Take, TakeTimeout, ReadBdiag, Goto
<1>7. ASSUME NEW r \in Readers, ClearBdiag(r) PROVE Holds'
  BY <1>7 DEF ClearBdiag, Goto
<1>8. ASSUME NEW r \in Readers, Serialize(r) \/ WriteTaken(r) \/ WriteRefused(r)
      PROVE  Holds'
  BY <1>8 DEF Serialize, WriteTaken, WriteRefused, Goto
<1>9. CASE UNCHANGED vars
  BY <1>9 DEF vars, readers
<1> QED
  BY Steps, <1>1, <1>2, <1>3, <1>4, <1>5, <1>6, <1>7, <1>8, <1>9

-----------------------------------------------------------------------------
(* The counters. *)

LEMMA CountStep == ASSUME TypeOK, CountInv, [Next]_vars PROVE CountInv'
<1> USE DEF TypeOK, CountInv, CountsExact, LoadedIsCount
<1>1. ASSUME NEW k \in Counters, Load(k) PROVE CountInv'
  BY <1>1 DEF Load
<1>2. CASE Store
  <2>1. /\ adding \in Counters /\ adding' = "none" /\ "none" \notin Counters
        /\ undone' = undone
    BY <1>2 DEF Store, Counters
  <2>2. ASSUME NEW k \in Counters \ undone PROVE count'[k] = fresh'[k]
    <3>1. CASE k = adding
      <4>1. count[k] = fresh[k] /\ reg = count[k]
        BY <2>2, <3>1
      <4>2. count'[k] = reg + 1 /\ fresh'[k] = fresh[k] + 1
        BY <1>2, <3>1 DEF Store
      <4> QED
        BY <4>1, <4>2
    <3>2. CASE k # adding
      <4>1. count[k] = fresh[k]
        BY <2>2
      <4>2. count'[k] = count[k] /\ fresh'[k] = fresh[k]
        BY <1>2, <3>2 DEF Store
      <4> QED
        BY <4>1, <4>2
    <3> QED
      BY <3>1, <3>2
  <2> QED
    BY <2>1, <2>2
<1>3. ASSUME NEW k \in Counters, ResetCounter(k), UNCHANGED <<adding, reg>>
      PROVE  CountInv'
  BY <1>3 DEF ResetCounter
<1>4. CASE ResetRx \/ ResetTx
  BY <1>3, <1>4 DEF ResetRx, ResetTx, Counters
<1>5. CASE UNCHANGED counting
  BY <1>5 DEF counting
<1>6. Next => \/ ResetRx \/ ResetTx \/ Store \/ UNCHANGED counting
              \/ \E k \in Counters : Load(k)
  BY Steps DEF Latch, CountMessage, ChangeLevel, OtherTake, OtherGive, AskDiag, Period,
     Take, TakeTimeout, ReadBdiag, ClearBdiag, Serialize, WriteTaken, WriteRefused
<1> QED
  BY <1>1, <1>2, <1>4, <1>5, <1>6 DEF vars

-----------------------------------------------------------------------------
(* The error flags. *)

LEMMA ErrorStep == ASSUME TypeOK, Holds, ErrorInv, [Next]_vars PROVE ErrorInv'
<1> USE DEF TypeOK, ErrorInv, NoErrorLost, ReadOrLate, OnItsWay, Clears, Readers, Pcs
<1>1. ASSUME NEW e \in Kinds, Latch(e) PROVE ErrorInv'
  BY <1>1 DEF Latch, readers
<1>2. CASE CountMessage
  BY <1>2 DEF CountMessage, readers
<1>3. ASSUME NEW l \in Levels, ChangeLevel(l) PROVE ErrorInv'
  BY <1>3 DEF ChangeLevel, readers
<1>4. CASE UNCHANGED <<chip, readers, told, gone>>
  BY <1>4 DEF chip, readers
<1>5. CASE ResetRx \/ ResetTx \/ AskDiag \/ Period
  BY <1>5 DEF ResetRx, ResetTx, AskDiag, Period, Goto, chip
<1>6. ASSUME NEW r \in Readers, Take(r) \/ TakeTimeout(r) PROVE ErrorInv'
  BY <1>6 DEF Take, TakeTimeout, Goto, chip, Diag
<1>7. ASSUME NEW r \in Readers, ReadBdiag(r) PROVE ErrorInv'
  BY <1>7 DEF ReadBdiag, Goto, chip, Diag
<1>8. ASSUME NEW r \in Readers, ClearBdiag(r) PROVE ErrorInv'
  BY <1>8 DEF ClearBdiag, Goto, Holds
<1>9. ASSUME NEW r \in Readers, Serialize(r) PROVE ErrorInv'
  BY <1>9 DEF Serialize, Flags, Goto, chip, Msg
<1>10. ASSUME NEW r \in Readers, WriteTaken(r) \/ WriteRefused(r) PROVE ErrorInv'
  BY <1>10 DEF WriteTaken, WriteRefused, Leave, Goto, chip
<1>11. UNCHANGED vars \/ Store \/ OtherTake \/ OtherGive \/ (\E k \in Counters : Load(k))
       => UNCHANGED <<chip, readers, told, gone>>
  BY DEF vars, Store, Load, OtherTake, OtherGive
<1> QED
  BY Steps, <1>1, <1>2, <1>3, <1>4, <1>5, <1>6, <1>7, <1>8, <1>9, <1>10, <1>11

-----------------------------------------------------------------------------
(* The theorems. *)

LEMMA Initially == ASSUME Init PROVE IInv
BY KindsAssumption, BoundsAssumption
   DEF Init, IInv, TypeOK, Holds, CountInv, CountsExact, LoadedIsCount, ErrorInv,
       NoErrorLost, ReadOrLate, OnItsWay, NoDiag, NoMsg, Diag, Msg, Pcs, Levels,
       Readers, Counters

\* The strengthened invariant of the counters, the mutex and the error flags.
THEOREM Invariance == Spec => []IInv
<1>1. IInv /\ [Next]_vars => IInv'
  BY TypeStep, HoldsStep, CountStep, ErrorStep DEF IInv
<1> QED
  BY Initially, <1>1, PTL DEF Spec

\* Every variable keeps its type, whatever the bounds.
THEOREM Typed == Spec => []TypeOK
<1>1. IInv => TypeOK
  BY DEF IInv
<1> QED
  BY Invariance, <1>1, PTL

\* Two readers of one register and their timeouts lose no error flag but one
\* that is set between a read and its clear (mcp2517fd_get_diag) or told in a
\* message the link refused (can_tasks.c:265-270 and 306-316).
THEOREM ErrorsKept == Spec => []NoErrorLost
<1>1. IInv => NoErrorLost
  BY DEF IInv, ErrorInv
<1> QED
  BY Invariance, <1>1, PTL

\* The counters are exact but for a reset that fell into an increment.
THEOREM CountsKept == Spec => []CountsExact
<1>1. IInv => CountsExact
  BY DEF IInv, CountInv
<1> QED
  BY Invariance, <1>1, PTL
=============================================================================
