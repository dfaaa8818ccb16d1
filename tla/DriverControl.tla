---------------------------- MODULE DriverControl ----------------------------
(***************************************************************************)
(* Mode, bit timing and filters: the initialisation and the control         *)
(* commands of main/mcp2517fd.c against a controller that changes its       *)
(* operating mode in its own time.                                         *)
(*                                                                         *)
(* The driver runs in one task at a time (app_main, then usb_cmd_task); the *)
(* other process is the controller, which follows the mode requested in     *)
(* REQOP when it can, perhaps long after the driver gave up waiting.        *)
(* Registers of the bit timing and the filters are writable in              *)
(* Configuration mode only.                                                *)
(***************************************************************************)
EXTENDS BitTiming

CONSTANTS ModeBytes,    \* mode bytes the host sends, of 0..255
          Rates,        \* pairs of bit rates the host asks for
          Configured,   \* the rates of Kconfig, remembered by init
          Filters,      \* values of a filter and its mask
          PollMax,      \* polls of OPMOD before a request times out (50)
          SlowReset     \* the controller may take longer than init to reset

Normal == 0
Listen == 3
Config == 4
Modes == 0..7

ASSUME ModeAssumption == ModeBytes \subseteq 0..255
ASSUME RateAssumption == Rates \subseteq Nat \X Nat /\ Configured \in Rates
ASSUME PollAssumption == PollMax \in Nat \ {0} /\ SlowReset \in BOOLEAN

VARIABLES opmod, reqop,         \* the controller: mode, requested mode
          timing, filter,       \* its bit timing, its filter
          stby,                 \* the transceivers' standby pins are high
          curMode, curRate,     \* s_current_mode, s_current_*_bps
          pc, polls,            \* place in the driver, polls made
          op,                   \* the command that runs, with its argument
          goal, prev,           \* mode parameter, local prev_mode
          result,               \* what the last command returned
          clean,                \* no request is pending but the one awaited
          asked,                \* the mode the host chose; Config: unsure
          rated                 \* the rates were written while clean

chip == <<opmod, reqop, timing, filter>>
memory == <<stby, curMode, curRate>>
call == <<op, goal, prev>>
history == <<clean, asked, rated>>
vars == <<chip, memory, pc, polls, call, result, history>>

\* The requests calculate_timing has registers for, and all it may write.
Supported == {r \in Rates : TimingKnown(r)}
Timings == {calculate_timing(r) : r \in Supported} \cup {InitTiming}

\* The commands: SET_MODE, SET_BITRATE, SET_FILTER and BUS_CONTROL.
Command == [kind : {"mode"}, arg : ModeBytes] \cup [kind : {"rate"}, arg : Rates]
           \cup [kind : {"filter"}, arg : Filters]
           \cup [kind : {"on"}, arg : {Normal}]
           \cup [kind : {"off"}, arg : {Config}]

Pcs == {"reset", "program", "idle", "read", "cfgreq", "cfgpoll", "request",
        "poll", "ok", "fail", "write", "halted"}

\* app_main: the reset command was sent; the controller may still be in the
\* mode it had and goes to Configuration mode by itself.
Init ==
  /\ opmod \in IF SlowReset THEN {Normal, Config} ELSE {Config}
  /\ reqop = Config /\ timing \in Timings /\ filter = "all"
  /\ stby = FALSE /\ curMode = Normal /\ curRate = Configured
  /\ pc = "reset" /\ polls = 0
  /\ op = [kind |-> "init", arg |-> Normal] /\ goal = Normal /\ prev = Config
  /\ result = "none" /\ clean = TRUE /\ asked = Normal /\ rated = TRUE

-----------------------------------------------------------------------------
(* The controller.                                                          *)

ChipSwitch ==
  /\ opmod # reqop /\ opmod' = reqop
  /\ UNCHANGED <<reqop, timing, filter, memory, pc, polls, call, result,
                 history>>

-----------------------------------------------------------------------------
(* mcp2517fd_init.                                                          *)

\* Poll for Configuration mode; give up after PollMax polls, ask for the mode
\* and go on.
InitPoll ==
  /\ pc = "reset"
  /\ \/ opmod = Config /\ pc' = "program" /\ UNCHANGED <<polls, reqop, clean, asked>>
     \/ /\ opmod # Config
        /\ IF polls + 1 < PollMax
             THEN polls' = polls + 1 /\ UNCHANGED <<pc, reqop, clean, asked>>
             ELSE /\ pc' = "program" /\ reqop' = Config
                  /\ clean' = FALSE /\ asked' = Config /\ UNCHANGED polls
  /\ UNCHANGED <<opmod, timing, filter, memory, call, result, rated>>

\* The RAM does not read back what was written: init fails at once.
InitRefused ==
  /\ pc = "program" /\ pc' = "halted" /\ result' = "error"
  /\ UNCHANGED <<chip, memory, polls, call, history>>

\* Bit timing of 500k and 2M whatever was configured, filter 0 accepts all.
InitProgram ==
  /\ pc = "program" /\ pc' = "read"
  /\ timing' = IF opmod = Config THEN InitTiming ELSE timing
  /\ filter' = IF opmod = Config THEN "all" ELSE filter
  /\ rated' = clean
  /\ UNCHANGED <<opmod, reqop, memory, polls, call, result, clean, asked>>

-----------------------------------------------------------------------------
(* mcp2517fd_request_mode(goal).                                            *)

\* A bug: between two operational modes Configuration mode is left out.
ReadDirect ==
  /\ pc = "read"
  /\ pc' = IF opmod = goal THEN "ok" ELSE "request"
  /\ clean' = (clean \/ goal \in {opmod} \cap {reqop})
  /\ UNCHANGED <<chip, memory, polls, call, result, asked, rated>>

\* OPMOD decides: nothing to do, through Configuration mode, or directly.  An
\* earlier request that is still pending is not looked at.
ReadMode ==
  /\ pc = "read"
  /\ pc' = IF opmod = goal THEN "ok"
           ELSE IF Config \notin {opmod, goal} THEN "cfgreq" ELSE "request"
  /\ clean' = (clean \/ goal \in {opmod} \cap {reqop})
  /\ UNCHANGED <<chip, memory, polls, call, result, asked, rated>>

\* REQOP := CONFIGURATION with ABAT.
RequestConfig ==
  /\ pc = "cfgreq" /\ pc' = "cfgpoll" /\ reqop' = Config /\ polls' = 0
  /\ UNCHANGED <<opmod, timing, filter, memory, call, result, history>>

\* A bug: the answer of the controller is not awaited.
RequestGoalNoWait ==
  /\ pc = "request" /\ pc' = "ok" /\ reqop' = goal % 8 /\ polls' = 0
  /\ UNCHANGED <<opmod, timing, filter, memory, call, result, history>>

\* The byte is cut to the three bits of REQOP.
RequestGoal ==
  /\ pc = "request" /\ pc' = "poll" /\ reqop' = goal % 8 /\ polls' = 0
  /\ UNCHANGED <<opmod, timing, filter, memory, call, result, history>>

\* A bug: the polls are not counted.
PollForever(place, wanted, next) ==
  /\ pc = place
  /\ pc' = IF opmod = wanted THEN next ELSE place
  /\ UNCHANGED <<chip, memory, polls, call, result, history>>

\* At most PollMax reads of OPMOD, then ESP_ERR_TIMEOUT with the request
\* left to the controller.
Poll(place, wanted, next) ==
  /\ pc = place
  /\ \/ opmod = wanted /\ pc' = next /\ clean' = TRUE /\ UNCHANGED <<polls, asked>>
     \/ opmod # wanted /\ polls + 1 < PollMax
        /\ polls' = polls + 1 /\ UNCHANGED <<pc, clean, asked>>
     \/ opmod # wanted /\ polls + 1 = PollMax
        /\ pc' = "fail" /\ clean' = FALSE /\ asked' = Config /\ UNCHANGED polls
  /\ UNCHANGED <<chip, memory, call, result, rated>>

ConfigPoll == Poll("cfgpoll", Config, "request")
GoalPoll == Poll("poll", goal, "ok")

-----------------------------------------------------------------------------
(* The commands, between two calls of request_mode.                         *)

\* mcp2517fd_set_mode and mcp2517fd_bus_control: the pins go low before the
\* request of Normal mode.
StartMode(c) ==
  /\ c.kind \in {"mode", "on", "off"}
  /\ goal' = c.arg /\ pc' = "read"
  /\ stby' = (stby /\ c.kind # "on")
  /\ UNCHANGED <<prev, result>>

\* mcp2517fd_set_bitrate and mcp2517fd_set_filter: the mode is read, then
\* Configuration mode is requested; an unsupported rate is refused at once.
StartWrite(c) ==
  /\ c.kind \in {"rate", "filter"}
  /\ IF c.kind = "rate" /\ c.arg \notin Supported
       THEN result' = "error" /\ UNCHANGED <<pc, goal, prev>>
       ELSE /\ prev' = opmod /\ goal' = Config /\ pc' = "read"
            /\ UNCHANGED result
  /\ UNCHANGED stby

Start(c) ==
  /\ pc = "idle" /\ op' = c
  /\ StartMode(c) \/ StartWrite(c)
  /\ UNCHANGED <<chip, curMode, curRate, polls, history>>

\* No mutex in 100 ms, or a filter that does not exist: an error; bus_control
\* has moved the pins already or moves them all the same.
Refuse(c) ==
  /\ pc = "idle" /\ op' = c /\ result' = "error"
  /\ stby' = (c.kind = "off" \/ (stby /\ c.kind # "on"))
  /\ UNCHANGED <<chip, curMode, curRate, pc, polls, goal, prev, history>>

\* Configuration mode was reached: the registers can be written.
Entered ==
  /\ pc = "ok" /\ op.kind \in {"rate", "filter"} /\ goal = Config
  /\ pc' = "write"
  /\ UNCHANGED <<chip, memory, polls, call, result, history>>

\* A bug: the node always goes on in Normal mode.
TargetNormal(mode) == Normal

\* The mode to go back to: a node found in Configuration mode goes to Normal.
TargetMode(mode) == IF mode = Config THEN Normal ELSE mode

\* The registers are written (with effect in Configuration mode only) and the
\* rates remembered; then the mode before is requested.
WriteRegisters ==
  /\ pc = "write" /\ pc' = "read" /\ goal' = TargetMode(prev)
  /\ IF op.kind = "rate"
       THEN /\ timing' = IF opmod = Config THEN calculate_timing(op.arg) ELSE timing
            /\ curRate' = op.arg /\ rated' = clean /\ UNCHANGED filter
       ELSE /\ filter' = IF opmod = Config THEN op.arg ELSE filter
            /\ UNCHANGED <<timing, curRate, rated>>
  /\ UNCHANGED <<opmod, reqop, stby, curMode, polls, op, prev, result, clean, asked>>

Answer == result' = IF pc = "ok" THEN "ok" ELSE "error"

\* What the host has chosen when a command of it, or init, has ended.
Chosen == IF pc = "fail" THEN asked ELSE IF clean THEN goal ELSE Config

\* The end of set_bitrate and set_filter: the target mode is remembered
\* whatever request_mode returned; after a failure to enter Configuration
\* mode nothing is.
FinishWrite ==
  /\ pc \in {"ok", "fail"} /\ op.kind \in {"rate", "filter"}
  /\ pc = "ok" => goal # Config
  /\ pc' = "idle" /\ Answer
  /\ curMode' = IF goal # Config THEN goal ELSE curMode
  /\ UNCHANGED <<chip, stby, curRate, polls, call, history>>

\* A bug: SET_MODE does not remember the mode.
FinishModeForgets ==
  /\ pc \in {"ok", "fail"} /\ op.kind \in {"mode", "on", "off"}
  /\ pc' = "idle" /\ Answer
  /\ stby' = (stby \/ op.kind = "off") /\ asked' = Chosen
  /\ UNCHANGED <<chip, curMode, curRate, polls, call, clean, rated>>

\* The end of set_mode and bus_control; after a request of Configuration mode
\* that may have failed, the pins go high.
FinishMode ==
  /\ pc \in {"ok", "fail"} /\ op.kind \in {"mode", "on", "off"}
  /\ pc' = "idle" /\ Answer
  /\ curMode' = IF pc = "ok" THEN goal ELSE curMode
  /\ stby' = (stby \/ op.kind = "off") /\ asked' = Chosen
  /\ UNCHANGED <<chip, curRate, polls, call, clean, rated>>

\* app_main starts the tasks, or returns: then nobody reads the USB link.
FinishInit ==
  /\ pc \in {"ok", "fail"} /\ op.kind = "init"
  /\ pc' = IF pc = "ok" THEN "idle" ELSE "halted"
  /\ Answer /\ asked' = Chosen
  /\ UNCHANGED <<chip, memory, polls, call, clean, rated>>

Halted == pc = "halted" /\ UNCHANGED vars

-----------------------------------------------------------------------------
RequestStep == \/ ReadMode \/ RequestConfig \/ ConfigPoll \/ RequestGoal
               \/ GoalPoll
CommandStep == \/ Entered \/ WriteRegisters \/ FinishWrite \/ FinishMode
               \/ FinishInit
DriverStep == \/ InitPoll \/ InitRefused \/ InitProgram
              \/ RequestStep \/ CommandStep

Next == ChipSwitch \/ DriverStep \/ Halted \/ \E c \in Command : Start(c) \/ Refuse(c)

Spec == Init /\ [][Next]_vars
\* The driver's task runs; nothing is assumed of the controller.
FairSpec == Spec /\ WF_vars(DriverStep)

-----------------------------------------------------------------------------
(* Properties.  A request that times out stays in REQOP and takes effect     *)
(* when the controller gets to it, unless a later one replaces it.  Until    *)
(* a later request is answered the driver promises nothing (clean is FALSE); *)
(* from then on all of it holds again.  Not only a slow controller makes a   *)
(* request time out: mode bytes above 7 are cut to the three bits of REQOP,  *)
(* and the whole byte is waited for (mcp2517fd.c:164-181).                   *)

TypeOK ==
  /\ opmod \in Modes /\ reqop \in Modes
  /\ timing \in Timings /\ filter \in Filters \cup {"all"}
  /\ stby \in BOOLEAN /\ curMode \in 0..255 /\ curRate \in Rates
  /\ pc \in Pcs /\ polls \in 0..PollMax - 1
  /\ op \in Command \cup {[kind |-> "init", arg |-> Normal]}
  /\ goal \in 0..255 /\ prev \in Modes
  /\ result \in {"none", "ok", "error"} /\ clean \in BOOLEAN
  /\ asked \in 0..255 /\ rated \in BOOLEAN

\* mcp2517fd.c:137-188, 859-942.  s_current_mode, which PING reports, is the
\* mode the controller is in and will stay in: after commands that were
\* answered, and again after one that timed out as soon as a later request
\* has been answered.
ModeAgreement == pc = "idle" /\ clean => curMode = opmod /\ reqop = opmod

\* mcp2517fd.c:838-842, 885-911.  Timing and filter registers are written in
\* Configuration mode, which the controller is not about to leave, unless a
\* request that timed out is pending and Configuration mode was found, not
\* asked for.
WritesInConfig ==
  pc \in {"program", "write"} /\ clean => opmod = Config /\ reqop = Config

\* mcp2517fd.c:727-857.  When Kconfig asks for the rates init programs, the
\* rates PING reports are the rates the registers of the controller stand for,
\* whatever commands were refused, failed or timed out since they were
\* written with nothing pending: the tables agree with their labels and with
\* the copy in init.  Nothing is said of the data phase for a data rate of 0.
RatesAgree ==
  pc = "idle" /\ rated /\ Configured = Programmed => Runs(timing, curRate)

\* mcp2517fd.c:845, 911.  A change of bit rate or filter keeps the mode the
\* host chose: a listen-only node stays listen-only.  A command that timed
\* out leaves the choice unsure until the next one that is answered.
ModeKept == pc = "idle" /\ clean /\ asked # Config => opmod = asked

\* mcp2517fd.c:143-145.  From one operational mode to another the controller
\* passes through Configuration mode.
ThroughConfig ==
  [][clean /\ opmod' # opmod => Config \in {opmod, opmod'}]_vars

\* mcp2517fd.c:151, 175.  Every command is answered, however long the
\* controller takes: all the polls are bounded.
CommandAnswered == pc # "idle" ~> pc \in {"idle", "halted"}
=============================================================================
