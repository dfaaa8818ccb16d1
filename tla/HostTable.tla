------------------------------ MODULE HostTable ------------------------------
(***************************************************************************)
(* The table of received messages of tools/pcan_view_gui.py.  The receive  *)
(* thread keeps one row per identifier in self.messages; the refresh timer *)
(* of the main thread copies the rows that have changed to the display,    *)
(* at most Portion of them; a button clears both, another pauses the       *)
(* refresh, and a timer counts the frames of each second.  msg_lock makes  *)
(* one step of what each does to self.messages and the counters; the       *)
(* display belongs to the main thread, which shows what it collected after *)
(* it has given the lock back.                                             *)
(***************************************************************************)
EXTENDS Naturals, SequencesExt

CONSTANTS
  Frames,     \* pairs of an identifier and a kind, which the flags tell
  Portion,    \* rows shown in one refresh (60)
  MaxBatch,   \* frames the receive thread takes in one read
  MaxFrames, MaxClears, MaxToggles   \* bounds on what happens in a run

Numbers == {f[1] : f \in Frames}
Kinds == {f[2] : f \in Frames}

ASSUME PortionAssumption == Portion \in Nat \ {0}
ASSUME BoundAssumption == {MaxBatch, MaxFrames, MaxClears, MaxToggles} \subseteq Nat

VARIABLES
  messages,        \* self.messages: identifier -> row
  order,           \* the order of the keys of that dictionary
  total_rx_count, rate_rx_count, current_fps,
  log,             \* all frames so far; the number of a frame is its data
  cleared,         \* frames there were at the last clear
  measured,        \* sum of the rates shown so far
  main,            \* the main thread: "idle" or "show"
  dirty_items,     \* what the refresh has collected
  tree,            \* the display: identifier -> values
  paused,
  clears, toggles  \* counted for the bounds

table == <<messages, order, total_rx_count, log, cleared>>
fps == <<rate_rx_count, current_fps, measured>>
view == <<main, dirty_items, tree>>
vars == <<table, fps, view, paused, clears, toggles>>

Empty == [n \in {} |-> 0]

Init ==
  /\ messages = Empty /\ order = <<>> /\ tree = Empty
  /\ total_rx_count = 0 /\ rate_rx_count = 0 /\ current_fps = 0
  /\ log = <<>> /\ cleared = 0 /\ measured = 0
  /\ main = "idle" /\ dirty_items = <<>>
  /\ paused = FALSE /\ clears = 0 /\ toggles = 0

\* The function f with n mapped to v.
With(f, n, v) == [m \in DOMAIN f \cup {n} |-> IF m = n THEN v ELSE f[m]]

-----------------------------------------------------------------------------
(* The receive thread. *)

\* A bug: a row that is there already is not marked.
UpdateUnmarked(msgs, n, kind, data) ==
  IF n \in DOMAIN msgs
  THEN [msgs EXCEPT ![n].count = @ + 1, ![n].data = data]
  ELSE With(msgs, n, [count |-> 1, kind |-> kind, data |-> data, dirty |-> TRUE])

\* The row of a frame: its kind is that of the first frame with the identifier.
Update(msgs, n, kind, data) ==
  IF n \in DOMAIN msgs
  THEN [msgs EXCEPT ![n].count = @ + 1, ![n].data = data, ![n].dirty = TRUE]
  ELSE With(msgs, n, [count |-> 1, kind |-> kind, data |-> data, dirty |-> TRUE])

\* A whole batch of frames <<identifier, kind>> in one acquisition of the lock.
ProcessRxBatch(batch) ==
  /\ Len(log) + Len(batch) <= MaxFrames
  /\ log' = log \o batch
  /\ total_rx_count' = total_rx_count + Len(batch)
  /\ rate_rx_count' = rate_rx_count + Len(batch)
  /\ messages' = FoldLeft(LAMBDA msgs, k : Update(msgs, log'[k][1], log'[k][2], k),
                          messages, [k \in 1..Len(batch) |-> Len(log) + k])
  /\ order' = FoldLeft(LAMBDA keys, f : IF Contains(keys, f[1]) THEN keys
                                         ELSE Append(keys, f[1]), order, batch)
  /\ UNCHANGED <<cleared, current_fps, measured, view, paused, clears, toggles>>

-----------------------------------------------------------------------------
(* The main thread. *)

Values(row) == [count |-> row.count, kind |-> row.kind, data |-> row.data]

\* The refresh collects what has changed and clears the marks.
Collect ==
  /\ main = "idle" /\ ~paused
  /\ main' = "show"
  /\ dirty_items' = FoldLeft(LAMBDA items, n :
                                IF messages[n].dirty
                                THEN Append(items, <<n, Values(messages[n])>>)
                                ELSE items, <<>>, order)
  /\ messages' = [n \in DOMAIN messages |-> [messages[n] EXCEPT !.dirty = FALSE]]
  /\ UNCHANGED <<order, total_rx_count, log, cleared, fps, tree, paused, clears, toggles>>

\* A bug: the rows at the end of the table are shown.
ShownLast(items) ==
  IF Len(items) <= Portion THEN items
  ELSE SubSeq(items, Len(items) - Portion + 1, Len(items))

\* dirty_items[:60]
Shown(items) == IF Len(items) <= Portion THEN items ELSE SubSeq(items, 1, Portion)

Show ==
  /\ main = "show"
  /\ main' = "idle"
  /\ tree' = FoldLeft(LAMBDA t, item : With(t, item[1], item[2]), tree,
                       Shown(dirty_items))
  /\ dirty_items' = <<>>
  /\ UNCHANGED <<table, fps, paused, clears, toggles>>

\* A bug: the number of frames is not reset.
ClearCounted ==
  /\ main = "idle" /\ clears < MaxClears
  /\ clears' = clears + 1
  /\ tree' = Empty /\ messages' = Empty /\ order' = <<>>
  /\ cleared' = Len(log)
  /\ UNCHANGED <<total_rx_count, log, fps, main, dirty_items, paused, toggles>>

ClearGrid ==
  /\ main = "idle" /\ clears < MaxClears
  /\ clears' = clears + 1
  /\ tree' = Empty /\ messages' = Empty /\ order' = <<>>
  /\ total_rx_count' = 0
  /\ cleared' = Len(log)
  /\ UNCHANGED <<log, fps, main, dirty_items, paused, toggles>>

TogglePause ==
  /\ main = "idle" /\ toggles < MaxToggles
  /\ toggles' = toggles + 1
  /\ paused' = ~paused
  /\ UNCHANGED <<table, fps, view, clears>>

\* Once a second.
CalcFps ==
  /\ main = "idle"
  /\ current_fps' = rate_rx_count
  /\ measured' = measured + rate_rx_count
  /\ rate_rx_count' = 0
  /\ UNCHANGED <<table, view, paused, clears, toggles>>

Batches == UNION {[1..k -> Frames] : k \in 1..MaxBatch}

Next ==
  \/ \E batch \in Batches : ProcessRxBatch(batch)
  \/ Collect \/ Show
  \/ ClearGrid \/ TogglePause \/ CalcFps

Spec == Init /\ [][Next]_vars

\* The refresh timer sets itself again whatever happens, every 40 ms.
FairSpec == Spec /\ WF_vars(Collect) /\ WF_vars(Show)

-----------------------------------------------------------------------------
(* Types. *)

Row == [count : 1..MaxFrames, kind : Kinds, data : 1..MaxFrames]
TypeOK ==
  /\ \A n \in DOMAIN messages : n \in Numbers /\ Values(messages[n]) \in Row
  /\ Len(order) = Cardinality(DOMAIN messages) /\ ToSet(order) = DOMAIN messages
  /\ {total_rx_count, rate_rx_count, current_fps, measured} \subseteq 0..MaxFrames
  /\ main \in {"idle", "show"} /\ (main = "idle" => dirty_items = <<>>)
  /\ paused \in BOOLEAN /\ clears \in 0..MaxClears /\ toggles \in 0..MaxToggles

-----------------------------------------------------------------------------
(* Properties. *)

\* The frames with identifier n since the display was cleared.
Received(n) == {k \in cleared+1..Len(log) : log[k][1] = n}

\* Every row counts the frames with its identifier since the last clear and
\* has the data of the last and the kind of the first of them, whatever
\* refreshes and clears came between and however the frames were batched; the
\* total is that of the rows (_process_rx_batch, _clear_grid under msg_lock).
RowsTellFrames ==
  /\ DOMAIN messages = {n \in Numbers : Received(n) # {}}
  /\ \A n \in DOMAIN messages : /\ messages[n].count = Cardinality(Received(n))
                                /\ messages[n].data = Max(Received(n))
                                /\ messages[n].kind = log[Min(Received(n))][2]
  /\ total_rx_count = Len(log) - cleared

\* Each frame is counted in the rate of exactly one second (_calc).
FramesMeasured == measured + rate_rx_count = Len(log)

\* The table and the rate tell every frame, in rows of their types.
TableOK == TypeOK /\ RowsTellFrames /\ FramesMeasured

\* Row n is on the display as it is in the table.
IsShown(n) == n \in DOMAIN tree /\ tree[n] = Values(messages[n])

\* Between two refreshes the first Portion rows are on the display or still
\* marked, also if frames came while the refresh was showing what it had
\* collected.  Rows behind them may lose their mark unseen; no row shows frames
\* that were not received, or any after a clear (_refresh, _clear_grid).
DisplayFollows ==
  main = "idle" =>
    /\ \A k \in 1..Len(order) :
         k <= Portion => messages[order[k]].dirty \/ IsShown(order[k])
    /\ \A n \in DOMAIN tree : /\ n \in DOMAIN messages
                             /\ tree[n].count <= messages[n].count
                             /\ tree[n].data \in Received(n)

\* When the frames stop and the refresh is not paused the first Portion rows
\* are on the display for good: "Decoupled 25 Hz UI refresh for 0 lag and 0
\* dropped frames" (pcan_view_gui.py:13) as far as it goes.
CatchesUp ==
  <>[](paused \/ \A k \in 1..Len(order) : k <= Portion => IsShown(order[k]))
=============================================================================
