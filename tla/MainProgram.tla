----------------------------- MODULE MainProgram -----------------------------
(***************************************************************************)
(* The program around the devices: start_io and its order, the main loop   *)
(* that answers the guest's accesses, stop_io from the escape keys or from *)
(* the guest, and the end of the three threads (main.cpp, fpga.cpp,        *)
(* virtiodevices.cpp, and the start of the worker in virtio.c).            *)
(*                                                                         *)
(* Of a descriptor the model keeps whether it is not there yet, open or    *)
(* closed; of the devices, which were notified and which the worker was    *)
(* given.                                                                  *)
(***************************************************************************)
EXTENDS Integers, FiniteSets, Sequences

CONSTANTS MaxStops,    \* bound on the calls of stop_io
          MaxPending   \* bound on the devices notified at a time

VARIABLES has_console, blocks,  \* how the program was called
          pc,        \* the main thread
          fd,        \* the three pipes, [r, w]
          told,      \* pipes that hold the byte of a stop
          thread,    \* "none", "run" or "end"
          list,      \* devices given to the worker
          stop,      \* pending_notify_stop
          pending,   \* devices with a notification to be served
          stopping,  \* how far a thread is in stop_io; 0 outside of it
          stops,     \* calls of stop_io
          request,   \* the access to be answered
          misused,   \* a descriptor was used that was not open
          early      \* a key was handled before start_io was through

mainvars == <<has_console, blocks, pc, fd, told, thread, list, stop, pending,
              stopping, stops, request, misused, early>>

Pipes == {"stop_stdin", "stdio", "stop_io"}
BlockName(i) == <<"block", i>>
Devices ==
    {<<"net", 0>>, <<"entropy", 0>>} \union {BlockName(i) : i \in 1 .. blocks}
      \union (IF has_console THEN {<<"console", 0>>} ELSE {})

MainInit ==
    /\ has_console \in BOOLEAN /\ blocks \in 1 .. 2
    /\ pc = "stdin_pipe"
    /\ fd = [p \in Pipes |-> [r |-> "none", w |-> "none"]] /\ told = {}
    /\ thread = [t \in {"stdin", "io", "notify"} |-> "none"]
    /\ list = {} /\ stop = FALSE /\ pending = {}
    /\ stopping = [t \in {"main", "stdin"} |-> 0] /\ stops = 0
    /\ request = <<>> /\ misused = FALSE /\ early = FALSE

Started == pc \in {"loop", "stop", "respond"}

-----------------------------------------------------------------------------
(* FPGA::start_io and VirtioDevices::start *)
Open(pipe) == fd' = [fd EXCEPT ![pipe] = [r |-> "open", w |-> "open"]]
Create(t) == thread' = [thread EXCEPT ![t] = "run"]

StartPipe ==
    /\ pc \in {"stdin_pipe", "stdio_pipe", "io_pipe"}
    /\ \/ pc = "stdin_pipe" /\ Open("stop_stdin") /\ pc' = "stdin_thread"
       \/ pc = "stdio_pipe" /\ has_console /\ Open("stdio") /\ pc' = "notify"
       \/ pc = "stdio_pipe" /\ ~has_console /\ fd' = fd /\ pc' = "notify"
       \/ pc = "io_pipe" /\ Open("stop_io") /\ pc' = "io_thread"
    /\ UNCHANGED <<has_console, blocks, told, thread, list, stop, pending, stopping,
                   stops, request, misused, early>>

\* Mutated form: the list is made before the console is added.
WorkerDevices_NoConsole == Devices \ {<<"console", 0>>}
\* ADD_DEVICE: virtio_block is the block device that was added last.
WorkerDevices == Devices \ {BlockName(i) : i \in 1 .. blocks - 1}

StartThread ==
    /\ \/ pc = "stdin_thread" /\ Create("stdin") /\ list' = list /\ pc' = "stdio_pipe"
       \/ pc = "notify" /\ Create("notify") /\ list' = WorkerDevices /\ pc' = "io_pipe"
       \/ pc = "io_thread" /\ Create("io") /\ list' = list /\ pc' = "loop"
    /\ UNCHANGED <<has_console, blocks, fd, told, stop, pending, stopping, stops,
                   request, misused, early>>

-----------------------------------------------------------------------------
(* FPGA::stop_io: the byte for the stdin thread, the worker, the byte for  *)
(* the I/O thread.                                                         *)
WriteAndClose(pipe) ==
    IF fd[pipe].w = "open"
    THEN /\ told' = told \union {pipe}
         /\ fd' = [fd EXCEPT ![pipe].w = "closed"]
         /\ misused' = misused
    ELSE misused' = TRUE /\ UNCHANGED <<told, fd>>

BeginStop(t) ==
    /\ stops < MaxStops /\ stops' = stops + 1
    /\ stopping' = [stopping EXCEPT ![t] = 1]

\* Mutated form: stop() tells the I/O thread nothing.
StopIo_Forgets == UNCHANGED <<told, fd, misused>>
StopIo == WriteAndClose("stop_io")

StopStep(t) ==
    /\ stopping[t] \in 1 .. 3
    /\ stopping' = [stopping EXCEPT ![t] = (@ + 1) % 4]
    /\ \/ stopping[t] = 1 /\ WriteAndClose("stop_stdin") /\ stop' = stop
       \/ stopping[t] = 2 /\ stop' = TRUE /\ UNCHANGED <<told, fd, misused>>
       \/ stopping[t] = 3 /\ StopIo /\ stop' = stop
    /\ pc' = IF t = "main" /\ stopping[t] = 3 THEN "respond" ELSE pc
    /\ UNCHANGED <<has_console, blocks, thread, list, pending, stops, request, early>>

-----------------------------------------------------------------------------
(* emulated_mmio_respond.  The guest notifies a device, ends the program   *)
(* over HTIF or the test finisher, or does something that only moves data. *)
Access(r) ==
    /\ request = <<>> /\ Started
    /\ r[1] = "notify" => Cardinality(pending) < MaxPending
    /\ request' = r
    /\ UNCHANGED <<has_console, blocks, pc, fd, told, thread, list, stop, pending,
                   stopping, stops, misused, early>>

Respond ==
    /\ pc = "loop" /\ request # <<>>
    /\ CASE request[1] = "notify" ->
              /\ pending' = pending \union {request[2]}
              /\ pc' = "respond" /\ UNCHANGED <<stopping, stops>>
         [] request[1] = "exit" ->
              /\ IF stops < MaxStops THEN BeginStop("main") /\ pc' = "stop"
                 ELSE pc' = "respond" /\ UNCHANGED <<stopping, stops>>
              /\ UNCHANGED pending
         [] OTHER -> pc' = "respond" /\ UNCHANGED <<pending, stopping, stops>>
    /\ UNCHANGED <<has_console, blocks, fd, told, thread, list, stop, request,
                   misused, early>>

Answered(r) == <<>>

SendResp ==
    /\ pc = "respond"
    /\ request' = Answered(request) /\ pc' = "loop"
    /\ UNCHANGED <<has_console, blocks, fd, told, thread, list, stop, pending,
                   stopping, stops, misused, early>>

-----------------------------------------------------------------------------
(* process_stdin: a plain key, an escape that stops, the end. *)
StdinIdle == thread["stdin"] = "run" /\ stopping["stdin"] = 0

Key ==
    /\ StdinIdle /\ "stop_stdin" \notin told
    /\ misused' = (misused \/ (has_console /\ fd["stdio"].w # "open"))
    /\ early' = (early \/ ~Started)
    /\ UNCHANGED <<has_console, blocks, pc, fd, told, thread, list, stop, pending,
                   stopping, stops, request>>

EscapeKey ==
    /\ StdinIdle /\ "stop_stdin" \notin told
    /\ BeginStop("stdin")
    /\ early' = (early \/ ~Started)
    /\ UNCHANGED <<has_console, blocks, pc, fd, told, thread, list, stop, pending,
                   request, misused>>

\* Mutated form: the thread also closes the end that stop_io closes.
ClosedByStdin_Both(f) ==
    [f EXCEPT !["stop_stdin"] = [r |-> "closed", w |-> "closed"], !["stop_io"].w = "closed"]
ClosedByStdin(f) ==
    [f EXCEPT !["stop_stdin"].r = "closed",
              !["stdio"].w = IF has_console THEN "closed" ELSE @]

StdinEnds ==
    /\ StdinIdle /\ "stop_stdin" \in told
    /\ fd' = ClosedByStdin(fd)
    /\ thread' = [thread EXCEPT !["stdin"] = "end"]
    /\ UNCHANGED <<has_console, blocks, pc, told, list, stop, pending, stopping,
                   stops, request, misused, early>>

(* process_io, as far as its end goes. *)
IoEnds ==
    /\ thread["io"] = "run" /\ "stop_io" \in told
    /\ fd' = [fd EXCEPT !["stop_io"].r = "closed"]
    /\ thread' = [thread EXCEPT !["io"] = "end"]
    /\ UNCHANGED <<has_console, blocks, pc, told, list, stop, pending, stopping,
                   stops, request, misused, early>>

(* A turn of pending_notify_worker. *)
NotifyTurn ==
    /\ thread["notify"] = "run"
    /\ \/ /\ stop
          /\ stop' = FALSE /\ thread' = [thread EXCEPT !["notify"] = "end"]
          /\ UNCHANGED pending
       \/ /\ ~stop /\ pending \intersect list # {}
          /\ pending' = pending \ list
          /\ UNCHANGED <<stop, thread>>
    /\ UNCHANGED <<has_console, blocks, pc, fd, told, list, stopping, stops,
                   request, misused, early>>

-----------------------------------------------------------------------------
MainStep == StartPipe \/ StartThread \/ StopStep("main") \/ Respond \/ SendResp
StdinStep == StopStep("stdin") \/ StdinEnds

MainNext ==
    \/ MainStep \/ StdinStep \/ IoEnds \/ NotifyTurn \/ Key \/ EscapeKey
    \/ \E d \in Devices : Access(<<"notify", d>>)
    \/ Access(<<"exit">>) \/ Access(<<"data">>)

-----------------------------------------------------------------------------
(* No thread uses a descriptor before its pipe is made or after it was     *)
(* closed, except in the two ways the code leaves open: a key that comes   *)
(* while start_io still runs, and a second call of stop_io, which the main *)
(* loop allows since it goes on after the first.                           *)
DescriptorsOpen == misused => (early \/ stops > 1)

(* Once stop_io is called, from whichever thread, all three threads end,   *)
(* so that join_io would return; unless a key stopped the program before   *)
(* start_io was through.                                                   *)
StopEndsAll ==
    (stops > 0) ~> (early \/ \A t \in DOMAIN thread : thread[t] = "end")

(* A device the guest notifies is served, unless the program is stopped or *)
(* the device is a block device that was not the last one added: start()   *)
(* gives the worker one block device.                                      *)
NotifiedIsServed ==
    LET served == {d \in pending : d[1] = "block" => d[2] = blocks}
    IN served # {} ~> (served = {} \/ stops > 0)

(* Every access of the guest gets its response, after a stop as before it. *)
AccessAnswered == (request # <<>>) ~> (request = <<>>)

(* What the guest asks of the program is done: emulated_mmio_respond       *)
(* answers its accesses, and the worker serves what they notify.           *)
GuestServed == AccessAnswered /\ NotifiedIsServed
=============================================================================
