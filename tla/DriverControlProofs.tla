------------------------ MODULE DriverControlProofs ------------------------
(***************************************************************************)
(* Safety of module DriverControl for every value of its constants: while   *)
(* no earlier mode request is pending, what the driver remembers and        *)
(* reports is what the controller does; a request that timed out suspends   *)
(* this until a later one is answered.                                      *)
(***************************************************************************)
EXTENDS DriverControl, TLAPS

Writing == op.kind \in {"rate", "filter"}

\* What is known of the controller at each place of the driver, as long as no
\* earlier request is pending: only at a place where the driver waits can the
\* requested mode differ from the mode.  What it waits for is requested even
\* then.
Agreement ==
  /\ pc = "cfgpoll" => reqop = Config
  /\ pc = "poll" => reqop = goal % 8
  /\ clean =>
       /\ pc # "fail"
       /\ pc = "idle" => opmod = reqop /\ curMode = opmod
       /\ pc \in {"read", "cfgreq", "request"} => opmod = reqop
       /\ pc \in {"program", "write"} => opmod = Config /\ reqop = Config
       /\ pc \in {"reset", "halted"} => reqop = Config
       /\ pc = "request" => Config \in {opmod, goal}
       /\ pc = "poll" => opmod = reqop \/ Config \in {opmod, reqop}
       /\ pc = "ok" => opmod = goal /\ reqop = goal

\* The mode the host chose survives a change of registers.  The choice counts
\* as unsure while a request is pending.
Keeping ==
  /\ ~clean => asked = Config
  /\ asked # Config /\ pc = "idle" => opmod = asked
  /\ Writing /\ pc # "idle" =>
       /\ goal \in {Config, TargetMode(prev)}
       /\ asked # Config => prev = asked

\* Until init has programmed the registers only the memory is right.
RateInv ==
  Configured = Programmed =>
    /\ pc \in {"reset", "program"} => curRate = Programmed
    /\ pc \notin {"reset", "program", "halted"} /\ rated => Runs(timing, curRate)

Places == /\ pc = "write" => Writing
          /\ pc \in {"reset", "program"} => op.kind = "init"
          /\ op \in Command \/ op.kind = "init"
          /\ op.kind = "init" /\ pc # "idle" => goal = Normal /\ curMode = Normal
          /\ op.kind = "rate" /\ pc # "idle" => op.arg \in Supported

IInv == TypeOK /\ Places /\ Agreement /\ Keeping /\ RateInv

USE DEF chip, memory, call, history, vars, Normal, Config, Modes

\* What a command carries, whatever its kind.
LEMMA CommandCases ==
  ASSUME NEW c \in Command
  PROVE  /\ c.kind \in {"mode", "rate", "filter", "on", "off"}
         /\ c.kind \in {"mode", "on", "off"} => c.arg \in 0..255
         /\ c.kind = "rate" => c.arg \in Rates
         /\ c.kind = "filter" => c.arg \in Filters
<1>1. CASE c \in [kind : {"mode"}, arg : ModeBytes]
  BY <1>1, ModeAssumption
<1>2. CASE c \in [kind : {"rate"}, arg : Rates]
  BY <1>2
<1>3. CASE c \in [kind : {"filter"}, arg : Filters]
  BY <1>3
<1>4. CASE c \in [kind : {"on"}, arg : {Normal}]
  BY <1>4
<1>5. CASE c \in [kind : {"off"}, arg : {Config}]
  BY <1>5
<1> QED BY <1>1, <1>2, <1>3, <1>4, <1>5 DEF Command

\* Every entry of the tables, for either oscillator, makes the controller run
\* at the rate it is filed under (mcp2517fd.c:727-817).
LEMMA NominalRight ==
  ASSUME NEW e \in NominalTable
  PROVE  e[1] * ClocksPerBit(e[2]) = Clock /\ SampledLate(e[2])
  BY ClockAssumption DEF NominalTable, Entry, ClocksPerBit, SampledLate, ClocksToSample

LEMMA DataRight ==
  ASSUME NEW e \in DataTable
  PROVE  /\ e[1] # 0 => e[1] * ClocksPerBit(e[2]) = Clock
         /\ SampledLate(e[2])
         /\ e[2].tseg1 <= 31 /\ e[2].tseg2 <= 15 /\ e[3] <= 63
         /\ e[3] = (e[2].brp + 1) * (e[2].tseg1 + 1)
  BY ClockAssumption DEF DataTable, Entry, ClocksPerBit, SampledLate, ClocksToSample

\* Hence calculate_timing answers every request it knows with registers that
\* do what was asked, and init programs the rates its comment names.
LEMMA TimingRight ==
  ASSUME NEW r, TimingKnown(r)
  PROVE  Runs(calculate_timing(r), r)
<1> DEFINE n == CHOOSE e \in NominalTable : e[1] = r[1]
           d == CHOOSE e \in DataTable : e[1] = r[2]
<1>1. n \in NominalTable /\ n[1] = r[1] /\ d \in DataTable /\ d[1] = r[2]
  BY Zenon DEF TimingKnown
<1>2. calculate_timing(r) = [nominal |-> n[2], data |-> d[2], tdco |-> d[3]]
  BY DEF calculate_timing
<1> HIDE DEF n, d
<1>3. n[1] * ClocksPerBit(n[2]) = Clock /\ SampledLate(n[2])
  BY <1>1, NominalRight
<1>4. /\ d[1] # 0 => d[1] * ClocksPerBit(d[2]) = Clock
      /\ SampledLate(d[2])
      /\ d[2].tseg1 <= 31 /\ d[2].tseg2 <= 15 /\ d[3] <= 63
      /\ d[3] = (d[2].brp + 1) * (d[2].tseg1 + 1)
  BY <1>1, DataRight
<1> QED BY <1>1, <1>2, <1>3, <1>4 DEF Runs, DataFits

LEMMA InitRight == Runs(InitTiming, Programmed)
  BY ClockAssumption DEF Runs, InitTiming, Programmed, Entry, ClocksPerBit,
     SampledLate, ClocksToSample, DataFits

\* A step keeps every variable in its type.
LEMMA TypeStep ==
  ASSUME TypeOK, Places, [Next]_vars
  PROVE  TypeOK'
<1> USE DEF TypeOK, Pcs
<1>1. CASE ChipSwitch
  BY <1>1 DEF ChipSwitch
<1>2. CASE InitPoll
  <2>1. polls' \in 0..PollMax - 1
    BY <1>2, PollAssumption DEF InitPoll
  <2>2. pc' \in {"reset", "program"} /\ reqop' \in Modes
    BY <1>2 DEF InitPoll
  <2>3. clean' \in BOOLEAN /\ asked' \in {asked, 4}
    BY <1>2 DEF InitPoll
  <2>4. UNCHANGED <<opmod, timing, filter, memory, call, result, rated>>
    BY <1>2 DEF InitPoll
  <2> QED BY <2>1, <2>2, <2>3, <2>4
<1>3. CASE InitProgram \/ InitRefused
  BY <1>3 DEF InitProgram, InitRefused, Timings
<1>4. CASE ReadMode
  BY <1>4 DEF ReadMode
<1>5. CASE RequestConfig
  BY <1>5, PollAssumption DEF RequestConfig
<1>6. CASE RequestGoal
  <2>1. goal % 8 \in 0..7
    OBVIOUS
  <2> QED BY <1>6, <2>1, PollAssumption DEF RequestGoal
<1>7. CASE ConfigPoll \/ GoalPoll
  <2>1. polls' \in 0..PollMax - 1
    BY <1>7, PollAssumption DEF ConfigPoll, GoalPoll, Poll
  <2>2. pc' \in Pcs /\ clean' \in BOOLEAN /\ asked' \in {asked, 4}
    BY <1>7 DEF ConfigPoll, GoalPoll, Poll
  <2>3. UNCHANGED <<chip, memory, call, result, rated>>
    BY <1>7 DEF ConfigPoll, GoalPoll, Poll
  <2> QED BY <2>1, <2>2, <2>3
<1>8. CASE Entered
  BY <1>8 DEF Entered
<1>9. CASE WriteRegisters
  <2>1. op \in Command /\ op.kind \in {"rate", "filter"}
    BY <1>9 DEF WriteRegisters, Places, Writing
  <2>2. goal' \in 0..255
    BY <1>9 DEF WriteRegisters, TargetMode
  <2>3. CASE op.kind = "rate"
    <3>1. calculate_timing(op.arg) \in Timings
      BY <1>9, <2>3 DEF WriteRegisters, Places, Timings
    <3> QED BY <1>9, <2>1, <2>2, <2>3, <3>1, CommandCases DEF WriteRegisters
  <2>4. CASE op.kind = "filter"
    BY <1>9, <2>1, <2>2, <2>4, CommandCases DEF WriteRegisters
  <2> QED BY <2>1, <2>3, <2>4
<1>10. CASE FinishWrite
  BY <1>10 DEF FinishWrite, Answer
<1>11. CASE FinishMode
  BY <1>11 DEF FinishMode, Answer, Chosen
<1>12. CASE FinishInit
  BY <1>12 DEF FinishInit, Answer, Chosen
<1>13. ASSUME NEW c \in Command, Start(c) PROVE TypeOK'
  <2>1. stby' \in BOOLEAN
    BY <1>13 DEF Start, StartMode, StartWrite
  <2>2. CASE StartMode(c)
    BY <1>13, <2>1, <2>2, CommandCases DEF Start, StartMode
  <2>3. CASE StartWrite(c)
    BY <1>13, <2>1, <2>3, CommandCases DEF Start, StartWrite
  <2> QED BY <1>13, <2>2, <2>3 DEF Start
<1>14. ASSUME NEW c \in Command, Refuse(c) PROVE TypeOK'
  BY <1>14, CommandCases DEF Refuse
<1>15. CASE Halted \/ UNCHANGED vars
  BY <1>15 DEF Halted
<1> QED
  BY <1>1, <1>2, <1>3, <1>4, <1>5, <1>6, <1>7, <1>8, <1>9, <1>10, <1>11, <1>12,
     <1>13, <1>14, <1>15 DEF Next, DriverStep, RequestStep, CommandStep

\* A step keeps the driver at places its command has.
LEMMA PlacesStep ==
  ASSUME TypeOK, Places, [Next]_vars
  PROVE  Places'
<1> USE DEF Places, Writing
<1>1. CASE ChipSwitch
  BY <1>1 DEF ChipSwitch
<1>2. CASE InitPoll
  BY <1>2 DEF InitPoll
<1>3. CASE InitProgram \/ InitRefused
  BY <1>3 DEF InitProgram, InitRefused
<1>4. CASE ReadMode
  BY <1>4 DEF ReadMode
<1>5. CASE RequestConfig
  BY <1>5 DEF RequestConfig
<1>6. CASE RequestGoal
  BY <1>6 DEF RequestGoal
<1>7. CASE ConfigPoll
  BY <1>7 DEF ConfigPoll, Poll
<1>8. CASE GoalPoll
  BY <1>8 DEF GoalPoll, Poll
<1>9. CASE Entered
  BY <1>9 DEF Entered
<1>10. CASE WriteRegisters
  BY <1>10 DEF WriteRegisters, TargetMode
<1>11. CASE FinishWrite
  BY <1>11 DEF FinishWrite
<1>12. CASE FinishMode
  BY <1>12 DEF FinishMode
<1>13. CASE FinishInit
  BY <1>13 DEF FinishInit
<1>14. ASSUME NEW c \in Command, Start(c) PROVE Places'
  BY <1>14, CommandCases DEF Start, StartMode, StartWrite, Supported
<1>15. ASSUME NEW c \in Command, Refuse(c) PROVE Places'
  BY <1>15, CommandCases DEF Refuse
<1>16. CASE Halted \/ UNCHANGED vars
  BY <1>16 DEF Halted
<1> QED
  BY <1>1, <1>2, <1>3, <1>4, <1>5, <1>6, <1>7, <1>8, <1>9, <1>10, <1>11, <1>12,
     <1>13, <1>14, <1>15, <1>16 DEF Next, DriverStep, RequestStep, CommandStep

\* A step keeps what is known of the controller at each place.
LEMMA AgreementStep ==
  ASSUME TypeOK, Places, Agreement, [Next]_vars
  PROVE  Agreement'
<1> USE DEF TypeOK, Places, Agreement, Writing
<1>1. CASE ChipSwitch
  BY <1>1 DEF ChipSwitch
<1>2. CASE InitPoll
  BY <1>2 DEF InitPoll
<1>3. CASE InitProgram \/ InitRefused
  <2>1. CASE InitProgram
    BY <2>1 DEF InitProgram
  <2>2. CASE InitRefused
    BY <2>2 DEF InitRefused
  <2> QED BY <1>3, <2>1, <2>2
<1>4. CASE ReadMode
  BY <1>4 DEF ReadMode
<1>5. CASE RequestConfig
  BY <1>5 DEF RequestConfig
<1>6. CASE RequestGoal
  BY <1>6 DEF RequestGoal
<1>7. CASE ConfigPoll
  BY <1>7 DEF ConfigPoll, Poll
<1>8. CASE GoalPoll
  <2>1. UNCHANGED <<chip, memory, call, result, rated>> /\ pc = "poll"
    BY <1>8 DEF GoalPoll, Poll
  <2>2. CASE opmod = goal /\ pc' = "ok"
    <3>1. goal \in 0..7
      BY <2>2
    <3>2. goal % 8 = goal
      BY <3>1
    <3> QED BY <2>1, <2>2, <3>2
  <2>3. CASE pc' = "poll" /\ clean' = clean
    BY <2>1, <2>3
  <2>4. CASE clean' = FALSE
    <3>1. pc' # "cfgpoll"
      BY <1>8 DEF GoalPoll, Poll
    <3> QED BY <2>1, <2>4, <3>1
  <2> QED BY <1>8, <2>1, <2>2, <2>3, <2>4 DEF GoalPoll, Poll
<1>9. CASE Entered
  BY <1>9 DEF Entered
<1>10. CASE WriteRegisters
  BY <1>10 DEF WriteRegisters, TargetMode
<1>11. CASE FinishWrite
  BY <1>11 DEF FinishWrite
<1>12. CASE FinishMode
  BY <1>12 DEF FinishMode
<1>13. CASE FinishInit
  BY <1>13 DEF FinishInit
<1>14. ASSUME NEW c \in Command, Start(c) PROVE Agreement'
  BY <1>14, CommandCases DEF Start, StartMode, StartWrite
<1>15. ASSUME NEW c \in Command, Refuse(c) PROVE Agreement'
  BY <1>15, CommandCases DEF Refuse
<1>16. CASE Halted \/ UNCHANGED vars
  BY <1>16 DEF Halted
<1> QED
  BY <1>1, <1>2, <1>3, <1>4, <1>5, <1>6, <1>7, <1>8, <1>9, <1>10, <1>11, <1>12,
     <1>13, <1>14, <1>15, <1>16 DEF Next, DriverStep, RequestStep, CommandStep

\* A step keeps the mode a write of registers has to return to.
LEMMA KeepingStep ==
  ASSUME TypeOK, Places, Agreement, Keeping, [Next]_vars
  PROVE  Keeping'
<1> USE DEF TypeOK, Places, Agreement, Keeping, Writing, TargetMode
<1>1. CASE ChipSwitch
  BY <1>1 DEF ChipSwitch
<1>2. CASE InitPoll
  BY <1>2 DEF InitPoll
<1>3. CASE InitProgram \/ InitRefused
  <2>1. CASE InitProgram
    BY <2>1 DEF InitProgram
  <2>2. CASE InitRefused
    BY <2>2 DEF InitRefused
  <2> QED BY <1>3, <2>1, <2>2
<1>4. CASE ReadMode
  BY <1>4 DEF ReadMode
<1>5. CASE RequestConfig
  BY <1>5 DEF RequestConfig
<1>6. CASE RequestGoal
  BY <1>6 DEF RequestGoal
<1>7. CASE ConfigPoll
  BY <1>7 DEF ConfigPoll, Poll
<1>8. CASE GoalPoll
  BY <1>8 DEF GoalPoll, Poll
<1>9. CASE Entered
  BY <1>9 DEF Entered
<1>10. CASE WriteRegisters
  BY <1>10 DEF WriteRegisters, TargetMode
<1>11. CASE FinishWrite
  BY <1>11 DEF FinishWrite
<1>12. CASE FinishMode
  BY <1>12 DEF FinishMode, Chosen
<1>13. CASE FinishInit
  BY <1>13 DEF FinishInit, Chosen
<1>14. ASSUME NEW c \in Command, Start(c) PROVE Keeping'
  BY <1>14, CommandCases DEF Start, StartMode, StartWrite
<1>15. ASSUME NEW c \in Command, Refuse(c) PROVE Keeping'
  BY <1>15, CommandCases DEF Refuse
<1>16. CASE Halted \/ UNCHANGED vars
  BY <1>16 DEF Halted
<1> QED
  BY <1>1, <1>2, <1>3, <1>4, <1>5, <1>6, <1>7, <1>8, <1>9, <1>10, <1>11, <1>12,
     <1>13, <1>14, <1>15, <1>16 DEF Next, DriverStep, RequestStep, CommandStep

\* A step keeps the remembered rates equal to the programmed ones.
LEMMA RateStep ==
  ASSUME TypeOK, Places, Agreement, RateInv, [Next]_vars
  PROVE  RateInv'
<1> USE DEF Places, Agreement, RateInv, Writing
<1>1. CASE ChipSwitch
  BY <1>1 DEF ChipSwitch
<1>2. CASE InitPoll
  BY <1>2 DEF InitPoll
<1>3. CASE InitProgram \/ InitRefused
  <2>1. CASE InitProgram
    BY <2>1, InitRight DEF InitProgram
  <2>2. CASE InitRefused
    BY <2>2 DEF InitRefused
  <2> QED BY <1>3, <2>1, <2>2
<1>4. CASE ReadMode
  BY <1>4 DEF ReadMode
<1>5. CASE RequestConfig
  BY <1>5 DEF RequestConfig
<1>6. CASE RequestGoal
  BY <1>6 DEF RequestGoal
<1>7. CASE ConfigPoll
  BY <1>7 DEF ConfigPoll, Poll
<1>8. CASE GoalPoll
  BY <1>8 DEF GoalPoll, Poll
<1>9. CASE Entered
  BY <1>9 DEF Entered
<1>10. CASE WriteRegisters
  <2>1. CASE op.kind = "rate"
    <3>1. op.arg \in Supported
      BY <1>10, <2>1 DEF WriteRegisters
    <3>2. Runs(calculate_timing(op.arg), op.arg)
      BY <3>1, TimingRight DEF Supported
    <3> QED BY <1>10, <2>1, <3>2 DEF WriteRegisters
  <2>2. CASE op.kind # "rate"
    BY <1>10, <2>2 DEF WriteRegisters
  <2> QED BY <2>1, <2>2
<1>11. CASE FinishWrite
  BY <1>11 DEF FinishWrite
<1>12. CASE FinishMode
  BY <1>12 DEF FinishMode
<1>13. CASE FinishInit
  BY <1>13 DEF FinishInit
<1>14. ASSUME NEW c \in Command, Start(c) PROVE RateInv'
  BY <1>14, CommandCases DEF Start, StartMode, StartWrite
<1>15. ASSUME NEW c \in Command, Refuse(c) PROVE RateInv'
  BY <1>15, CommandCases DEF Refuse
<1>16. CASE Halted \/ UNCHANGED vars
  BY <1>16 DEF Halted
<1> QED
  BY <1>1, <1>2, <1>3, <1>4, <1>5, <1>6, <1>7, <1>8, <1>9, <1>10, <1>11, <1>12,
     <1>13, <1>14, <1>15, <1>16 DEF Next, DriverStep, RequestStep, CommandStep


\* The first states satisfy the invariant: nothing is known of a controller
\* that may still be in its old mode, except that it was asked to reset.
LEMMA InitInv ==
  ASSUME Init
  PROVE  IInv
<1>1. TypeOK
  <2>1. 0 \in 0..PollMax - 1 /\ Configured \in Rates
    BY PollAssumption, RateAssumption
  <2>2. opmod \in Modes
    <3>1. opmod \in {0, 4}
      BY DEF Init
    <3> QED BY <3>1
  <2>3. op \in Command \cup {[kind |-> "init", arg |-> Normal]}
    <3>1. op = [kind |-> "init", arg |-> 0]
      BY DEF Init
    <3> QED BY <3>1, Zenon
  <2>4. /\ reqop \in Modes /\ timing \in Timings /\ curRate \in Rates
        /\ pc \in Pcs /\ goal \in 0..255 /\ prev \in Modes /\ curMode \in 0..255
        /\ asked \in 0..255 /\ polls \in 0..PollMax - 1
    BY <2>1 DEF Init, Pcs
  <2>5. /\ filter \in Filters \cup {"all"} /\ stby \in BOOLEAN /\ clean \in BOOLEAN
        /\ rated \in BOOLEAN /\ result \in {"none", "ok", "error"}
    BY DEF Init
  <2> QED BY <2>2, <2>3, <2>4, <2>5 DEF TypeOK
<1>2. Places /\ Agreement /\ Keeping
  BY DEF Init, Places, Agreement, Keeping, Writing
<1>3. RateInv
  BY DEF Init, RateInv
<1> QED BY <1>1, <1>2, <1>3 DEF IInv

\* The inductive invariant of the driver and its controller.
THEOREM Invariance == Spec => []IInv
<1>1. Init => IInv
  BY InitInv
<1>2. IInv /\ [Next]_vars => IInv'
  <2> SUFFICES ASSUME IInv, [Next]_vars PROVE IInv'
    OBVIOUS
  <2>1. TypeOK' /\ Places' /\ Agreement' /\ Keeping' /\ RateInv'
    BY TypeStep, PlacesStep, AgreementStep, KeepingStep, RateStep DEF IInv
  <2> QED BY <2>1 DEF IInv
<1> QED BY <1>1, <1>2, PTL DEF Spec

\* Every variable keeps its type: in particular REQOP holds three bits of
\* whatever byte the host sent (mcp2517fd.c:137-188).
THEOREM Typed == Spec => []TypeOK
<1>1. IInv => TypeOK
  BY DEF IInv
<1> QED BY <1>1, Invariance, PTL

\* What get_mode answers between two commands is the mode of the controller,
\* again also after a request that timed out, once a later one is answered
\* (mcp2517fd.c:137-188, 859-942).
THEOREM Agrees == Spec => []ModeAgreement
<1>1. IInv => ModeAgreement
  BY DEF IInv, Agreement, ModeAgreement
<1> QED BY <1>1, Invariance, PTL

\* Timing and filter registers are written in Configuration mode only, when no
\* earlier request is pending (mcp2517fd.c:345-395, 838-842, 885-911).
THEOREM WritesSafe == Spec => []WritesInConfig
<1>1. IInv => WritesInConfig
  BY DEF IInv, Agreement, WritesInConfig
<1> QED BY <1>1, Invariance, PTL

\* The rates get_bitrates answers are the rates the registers of the controller
\* stand for, for both oscillators and every entry of the tables, when Kconfig
\* asks for the rates init programs and they were written with no request
\* pending; commands that failed or timed out since change nothing
\* (mcp2517fd.c:727-857, 944-952).
THEOREM RatesKept == Spec => []RatesAgree
<1>1. IInv => RatesAgree
  BY DEF IInv, RateInv, RatesAgree
<1> QED BY <1>1, Invariance, PTL

\* A change of rate or filter returns to the mode the host chose, unless a
\* request timed out since (mcp2517fd.c:845, 911).
THEOREM ModeSurvives == Spec => []ModeKept
<1>1. IInv => ModeKept
  BY DEF IInv, Keeping, ModeKept
<1> QED BY <1>1, Invariance, PTL

\* Two operational modes never follow each other (mcp2517fd.c:137-188): a step
\* that changes the mode is the controller's, and when it may take one either
\* its mode or the requested one is Configuration mode.
THEOREM PassesConfig == Spec => ThroughConfig
<1>1. IInv /\ [Next]_vars => [clean /\ opmod' # opmod => Config \in {opmod, opmod'}]_vars
  <2> SUFFICES ASSUME IInv, [Next]_vars, clean, opmod' # opmod
               PROVE  Config \in {opmod, opmod'}
    OBVIOUS
  <2>1. ChipSwitch
    BY DEF Next, DriverStep, InitPoll, InitRefused, InitProgram, RequestStep, ReadMode,
           RequestConfig, ConfigPoll, RequestGoal, GoalPoll, Poll, CommandStep,
           Entered, WriteRegisters, FinishWrite, FinishMode, FinishInit, Halted,
           Start, Refuse
  <2>2. opmod' = reqop
    BY <2>1 DEF ChipSwitch
  <2>3. Agreement /\ Places /\ pc \in Pcs
    BY DEF IInv, TypeOK
  <2> QED BY <2>1, <2>2, <2>3 DEF ChipSwitch, Agreement, Places, Pcs
<1> QED BY <1>1, Invariance, PTL DEF Spec, ThroughConfig
=============================================================================
