---------------------------- MODULE ConsoleInput ----------------------------
(***************************************************************************)
(* Keys on their way from the terminal to the guest, and the escape keys:  *)
(* the stdin thread (FPGA::process_stdin, src/fpga.cpp) reads chunks,      *)
(* takes out the C-a sequences and writes the rest to a pipe, from which   *)
(* the I/O thread (VirtioDevices::process_io, src/virtiodevices.cpp) fills *)
(* the buffers of the console's receive queue.  Without a console device   *)
(* the keys go into stdin_queue, which the guest reads through the UART.   *)
(*                                                                         *)
(* The model starts when start_io has returned.  The main thread then      *)
(* serves MMIO forever; it does not see a stop.  The device is not reset   *)
(* (DeviceReset has that), and stdin_fd of process_io, before it is first  *)
(* assigned, is taken not to be a descriptor that is ready.                *)
(***************************************************************************)
EXTENDS Naturals, Sequences, SequencesExt

CONSTANTS
  MaxKeys,    \* number of keys typed
  ChunkMax,   \* size of process_stdin's buffer
  PipeMax,    \* capacity of the pipe
  BufLen,     \* bytes in a buffer of the driver, or of process_io if less
  MaxBuffers  \* bound on the buffers the driver offers

ASSUME SizesAssumption == {ChunkMax, PipeMax, BufLen} \subseteq Nat \ {0}
ASSUME CountsAssumption == MaxKeys \in Nat /\ MaxBuffers \in Nat

CtrlA == "C-a"
Key == {CtrlA, "x", "r", "h", "k"}

VARIABLES
  console,             \* has_virtio_console_device, fixed before the start
  typed, nread,        \* the keys the user types, and how many have been read
  spc, ctrla_seen, out,  \* stdin thread: place, escape state, keys to write
  channel,             \* virtio_stdio_pipe, or stdin_queue
  ipc, ready, buf,     \* I/O thread: place, FD_ISSET(stdin_fd), keys it has read
  avail_idx0, last_avail_idx0,  \* of the console's queue 0
  received,            \* guest memory: what it has got, buffer after buffer
  stopping, exit_code  \* the stop pipes have been written; set by stop_io

stdinVars == <<typed, nread, spc, ctrla_seen, out>>
ioVars == <<ipc, ready, buf>>
queueVars == <<avail_idx0, last_avail_idx0, received>>
stopVars == <<stopping, exit_code>>
convars == <<console, stdinVars, channel, ioVars, queueVars, stopVars>>

ConInit ==
  /\ console \in BOOLEAN
  /\ typed \in [1..MaxKeys -> Key] /\ nread = 0
  /\ spc = "select" /\ ctrla_seen = FALSE /\ out = <<>>
  /\ channel = <<>>
  /\ ipc = "fill" /\ ready = FALSE /\ buf = <<>>
  /\ avail_idx0 = 0 /\ last_avail_idx0 = 0 /\ received = <<>>
  /\ stopping = FALSE /\ exit_code = "none"

-----------------------------------------------------------------------------
(* The driver offers a buffer, and queue_notify caches the avail index.    *)
Offer ==
  /\ console /\ avail_idx0 < MaxBuffers
  /\ avail_idx0' = avail_idx0 + 1
  /\ UNCHANGED <<console, stdinVars, channel, ioVars, last_avail_idx0, received, stopVars>>

(* The guest reads the UART: dequeue_stdin, under stdin_mutex.             *)
DequeueStdin ==
  /\ ~console /\ channel # <<>>
  /\ received' = Append(received, Head(channel))
  /\ channel' = Tail(channel)
  /\ UNCHANGED <<console, stdinVars, ioVars, avail_idx0, last_avail_idx0, stopVars>>

-----------------------------------------------------------------------------
(* One turn of the loop of enqueue_stdin, which returns at "x" and "r".    *)
Escape(st, k) ==
  CASE st.stop # "none" -> st
    [] st.stop = "none" /\ st.seen /\ k \in {"x", "r"} -> [st EXCEPT !.stop = k, !.seen = FALSE]
    [] st.stop = "none" /\ st.seen /\ k = "h" -> [st EXCEPT !.seen = FALSE]
    [] st.stop = "none" /\ st.seen /\ k \notin {"x", "r", "h"} ->
         [st EXCEPT !.seen = FALSE, !.out = Append(@, k)]
    [] st.stop = "none" /\ ~st.seen /\ k = CtrlA -> [st EXCEPT !.seen = TRUE]
    [] st.stop = "none" /\ ~st.seen /\ k # CtrlA -> [st EXCEPT !.out = Append(@, k)]

\* Mutated form: the escape state does not outlive the chunk.
Scan_ForgetsState(chunk) ==
  FoldLeft(Escape, [seen |-> FALSE, out |-> <<>>, stop |-> "none"], chunk)

(* The loop over a chunk, from the escape state the last one left.         *)
Scan(chunk) ==
  FoldLeft(Escape, [seen |-> ctrla_seen, out |-> <<>>, stop |-> "none"], chunk)

(* process_stdin reads what has been typed, up to a chunk, and enqueue_stdin scans
   it.  If it stops, stop_io writes the stop pipes and what was scanned before
   it in the chunk is dropped.                                             *)
StdinRead(n) ==
  /\ spc = "select" /\ ~stopping
  /\ n \in 1..ChunkMax /\ nread + n <= Len(typed)
  /\ LET st == Scan(SubSeq(typed, nread + 1, nread + n))
     IN  /\ ctrla_seen' = st.seen
         /\ out' = IF st.stop = "none" THEN st.out ELSE <<>>
         /\ spc' = IF st.stop = "none" THEN "write" ELSE "select"
         /\ stopping' = (st.stop # "none")
         /\ exit_code' = st.stop
  /\ nread' = nread + n
  /\ UNCHANGED <<console, typed, channel, ioVars, queueVars>>

(* The write to the pipe, as much as fits, which waits while it is full; or,
   under stdin_mutex, the push of all into stdin_queue.                    *)
StdinWrite ==
  /\ spc = "write" /\ out # <<>>
  /\ \/ /\ console
        /\ \E n \in 1..Len(out) :
             /\ n + Len(channel) <= PipeMax
             /\ channel' = channel \o SubSeq(out, 1, n)
             /\ out' = SubSeq(out, n + 1, Len(out))
     \/ ~console /\ channel' = channel \o out /\ out' = <<>>
  /\ UNCHANGED <<console, typed, nread, spc, ctrla_seen, ioVars, queueVars, stopVars>>

StdinWritten ==
  /\ spc = "write" /\ out = <<>>
  /\ spc' = "select"
  /\ UNCHANGED <<console, typed, nread, ctrla_seen, out, channel, ioVars, queueVars, stopVars>>

(* The stop pipe is ready: the thread ends.                                *)
StdinStop ==
  /\ spc = "select" /\ stopping
  /\ spc' = "done"
  /\ UNCHANGED <<console, typed, nread, ctrla_seen, out, channel, ioVars, queueVars, stopVars>>

-----------------------------------------------------------------------------

(* process_io waits for the pipe only if virtio_console_can_write_data, and
   select returns, by its timeout at the latest.                           *)
IoSelect ==
  /\ ipc = "fill" /\ ~stopping
  /\ ready' = (console /\ last_avail_idx0 # avail_idx0 /\ channel # <<>>)
  /\ ipc' = "poll"
  /\ UNCHANGED <<console, stdinVars, channel, buf, queueVars, stopVars>>

(* It reads at most virtio_console_get_write_len.                          *)
IoRead ==
  /\ ipc = "poll" /\ ready
  /\ LET n == IF Len(channel) < BufLen THEN Len(channel) ELSE BufLen
     IN  /\ buf' = SubSeq(channel, 1, n)
         /\ channel' = SubSeq(channel, n + 1, Len(channel))
  /\ ipc' = "write"
  /\ UNCHANGED <<console, stdinVars, ready, queueVars, stopVars>>

IoNothing ==
  /\ ipc = "poll" /\ ~ready
  /\ ipc' = "fill"
  /\ UNCHANGED <<console, stdinVars, channel, ready, buf, queueVars, stopVars>>

(* virtio_console_write_data: memcpy_to_queue copies up to the end of the
   buffer; without a buffer nothing is written.                            *)
IoWrite ==
  /\ ipc = "write"
  /\ IF last_avail_idx0 = avail_idx0
       THEN UNCHANGED <<last_avail_idx0, received>>
       ELSE /\ received' = received \o SubSeq(buf, 1, IF Len(buf) < BufLen THEN Len(buf) ELSE BufLen)
            /\ last_avail_idx0' = last_avail_idx0 + 1
  /\ buf' = <<>>
  /\ ipc' = "fill"
  /\ UNCHANGED <<console, stdinVars, channel, ready, avail_idx0, stopVars>>

(* The stop pipe is ready: the thread ends.                                *)
IoStop ==
  /\ ipc = "fill" /\ stopping
  /\ ipc' = "done"
  /\ UNCHANGED <<console, stdinVars, channel, ready, buf, queueVars, stopVars>>

-----------------------------------------------------------------------------
Stdin == (\E n \in 1..ChunkMax : StdinRead(n)) \/ StdinWrite \/ StdinWritten \/ StdinStop
Io == IoSelect \/ IoRead \/ IoNothing \/ IoWrite \/ IoStop

ConNext == Offer \/ DequeueStdin \/ Stdin \/ Io

-----------------------------------------------------------------------------
(* The meaning of the keys, without chunks: a key is escaped if an odd number
   of C-a comes right before it.                                           *)
Escaped(i) ==
  \E m \in 1..i-1 :
    /\ m % 2 = 1
    /\ \A j \in i-m..i-1 : typed[j] = CtrlA
    /\ i - m = 1 \/ typed[i - m - 1] # CtrlA
Stops(i) == Escaped(i) /\ typed[i] \in {"x", "r"}
Sent(i) == IF Escaped(i) THEN typed[i] \notin {"x", "r", "h"} ELSE typed[i] # CtrlA
Meant(n) ==
  LET sent == SelectSeq([i \in 1..n |-> i], Sent) IN [j \in 1..Len(sent) |-> typed[sent[j]]]

(* While nothing stops, the guest has, and the buffers on the way hold, just
   the keys that are meant for it, in order, wherever the chunks were cut and
   however the two threads and the driver interleave.                      *)
NoKeyLost ==
  exit_code = "none" => received \o buf \o channel \o out = Meant(nread)

(* C-a x and C-a r, and nothing else, stop, also across two reads; exit_code
   is that of the first.                                                   *)
EscapeStops ==
  LET stops == {i \in 1..nread : Stops(i)}
  IN  exit_code = IF stops = {} THEN "none"
                  ELSE typed[CHOOSE i \in stops : \A j \in stops : i <= j]

(* Every key does what it should, reaches the guest in its place or stops the
   program, wherever process_stdin's reads cut the sequences. *)
KeysArrive == NoKeyLost /\ EscapeStops

=============================================================================
