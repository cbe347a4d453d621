---------------------------- MODULE ProgramProofs ----------------------------
(***************************************************************************)
(* The program around the devices: the worker over resets of a device, for *)
(* every number of entries and of resets; the descriptors of the main      *)
(* program, for every number of stops and of notified devices; and the     *)
(* memory map with its dirty bits, for every size of RAM and of the        *)
(* address space.                                                          *)
(***************************************************************************)
EXTENDS DeviceReset, MainProgram, PhysMem, TLAPS

-----------------------------------------------------------------------------
(* DeviceReset.  The driver is assumed quiet, as in the run: it resets     *)
(* when nothing is being notified or served.                               *)
Types ==
  /\ manual_recv \in BOOLEAN /\ ready \in BOOLEAN
  /\ unkicked \in BOOLEAN /\ pending_queue_notify \in BOOLEAN
  /\ availIdx \in Nat /\ last_avail_idx \in Nat /\ wavail \in Nat
  /\ wpc \in {"idle", "loop", "advance"}

(* A notification on its way, or a worker at work, is of the ring the      *)
(* driver has set up.                                                      *)
WorkIsCurrent ==
  /\ pending_queue_notify \/ unkicked => ready
  /\ wpc # "idle" => ready /\ ~manual_recv

(* The worker is between the entries it has passed and those published     *)
(* since; before the set-up it has passed none.                            *)
IndicesOrdered ==
  ~manual_recv =>
    /\ ~ready => last_avail_idx = 0
    /\ ready => last_avail_idx <= availIdx
    /\ wpc # "idle" => last_avail_idx <= wavail /\ wavail <= availIdx
    /\ wpc = "advance" => last_avail_idx < wavail

IInv == Types /\ WorkIsCurrent /\ IndicesOrdered

LEMMA InvInitially == Init => IInv
<1> SUFFICES ASSUME Init PROVE IInv
  OBVIOUS
<1>1. Types
  BY Zenon DEF Init, Types
<1>2. WorkIsCurrent
  BY DEF Init, WorkIsCurrent
<1>3. IndicesOrdered
  BY DEF Init, IndicesOrdered
<1> QED
  BY <1>1, <1>2, <1>3 DEF IInv

(* The driver's actions: the set-up finds the indices at zero, and a reset *)
(* finds no notification and an idle worker.                               *)
LEMMA DriverKeeps == ASSUME Quiet, IInv, Driver PROVE IInv'
<1> USE DEF IInv, Types, WorkIsCurrent, IndicesOrdered, driverVars, queueVars, workerVars
<1>1. CASE DriverSetup
  <2>1. Types'
    BY <1>1, Zenon DEF DriverSetup
  <2>2. WorkIsCurrent'
    BY <1>1, Zenon DEF DriverSetup
  <2>3. IndicesOrdered'
    BY <1>1 DEF DriverSetup
  <2> QED
    BY <2>1, <2>2, <2>3
<1>2. CASE DriverPublish
  BY <1>2 DEF DriverPublish
<1>3. CASE DriverNotify
  BY <1>3 DEF DriverNotify
<1>4. CASE Reset
  BY <1>4, Quiet DEF Reset
<1> QED
  BY <1>1, <1>2, <1>3, <1>4 DEF Driver

(* The worker's: it reads the index of a ring that is set up.              *)
LEMMA WorkerKeeps == ASSUME IInv, Worker PROVE IInv'
<1> USE DEF IInv, Types, WorkIsCurrent, IndicesOrdered, driverVars, queueVars, workerVars
<1>1. CASE QueueNotifyReadAvail
  <2>1. ready /\ wavail' = availIdx
    BY <1>1 DEF QueueNotifyReadAvail
  <2>2. Types'
    BY <1>1, <2>1, Zenon DEF QueueNotifyReadAvail
  <2>3. WorkIsCurrent'
    BY <1>1, <2>1 DEF QueueNotifyReadAvail
  <2>4. IndicesOrdered'
    BY <1>1, <2>1 DEF QueueNotifyReadAvail
  <2> QED
    BY <2>2, <2>3, <2>4
<1>2. CASE QueueNotifyServe
  BY <1>2 DEF QueueNotifyServe
<1>3. CASE QueueNotifyAdvance
  BY <1>3 DEF QueueNotifyAdvance
<1>4. CASE QueueNotifyReturn
  BY <1>4 DEF QueueNotifyReturn
<1> QED
  BY <1>1, <1>2, <1>3, <1>4 DEF Worker

LEMMA IoFillKeeps == ASSUME IInv, IoFill PROVE IInv'
  BY DEF IoFill, IInv, Types, WorkIsCurrent, IndicesOrdered, driverVars, workerVars

(* The invariant of a quiet driver's queue.                                *)
THEOREM ResetInvariant == ASSUME Quiet PROVE Spec => []IInv
<1>1. Quiet /\ IInv /\ [Next]_vars => IInv'
  <2> SUFFICES ASSUME Quiet, IInv, [Next]_vars PROVE IInv'
    OBVIOUS
  <2>1. CASE UNCHANGED vars
    BY <2>1 DEF vars, driverVars, queueVars, workerVars,
                IInv, Types, WorkIsCurrent, IndicesOrdered
  <2> QED
    BY <2>1, DriverKeeps, WorkerKeeps, IoFillKeeps DEF Next
<1> QED
  BY <1>1, InvInitially, PTL DEF Spec

(* queue_notify takes an entry only if the driver has published it since   *)
(* it last set the queue up, although virtio_reset leaves the cached       *)
(* avail_idx as it was.                                                    *)
THEOREM WorkerStaysCurrent == ASSUME Quiet PROVE Spec => WorkerTakesPublished
<1>1. IInv => [QueueNotifyServe => ready /\ last_avail_idx < availIdx]_vars
  <2> SUFFICES ASSUME IInv, QueueNotifyServe PROVE ready /\ last_avail_idx < availIdx
    OBVIOUS
  <2> QED
    BY DEF QueueNotifyServe, IInv, Types, WorkIsCurrent, IndicesOrdered
<1> QED
  BY <1>1, ResetInvariant, PTL DEF WorkerTakesPublished

-----------------------------------------------------------------------------
(* MainProgram *)
MainSpec == MainInit /\ [][MainNext]_mainvars

Stages == {"stdin_pipe", "stdin_thread", "stdio_pipe", "notify", "io_pipe",
           "io_thread", "loop", "stop", "respond"}
States == {"none", "open", "closed"}

MainTypes ==
  /\ pc \in Stages
  /\ fd \in [Pipes -> [r : States, w : States]] /\ told \subseteq Pipes
  /\ thread \in [{"stdin", "io", "notify"} -> {"none", "run", "end"}]
  /\ stopping \in [{"main", "stdin"} -> 0 .. 3] /\ stops \in Nat

(* How far the one call of stop_io has come, of a program that nobody      *)
(* stops before it has started: it runs in one thread, and the ends it has *)
(* yet to write to are open.                                               *)
StopInOrder ==
  /\ stops > 0 => Started
  /\ stops = 0 => told = {} /\ \A t \in {"main", "stdin"} : stopping[t] = 0
  /\ stopping["main"] = 0 \/ stopping["stdin"] = 0
  /\ \A t \in {"main", "stdin"} :
       /\ stopping[t] = 1 => fd["stop_stdin"].w = "open"
       /\ stopping[t] # 0 => fd["stop_io"].w = "open"

(* What start_io has opened stays open until stop_io, and the console's    *)
(* pipe until the stdin thread ends.                                       *)
OpenedInOrder ==
  /\ stops = 0 /\ pc # "stdin_pipe" => fd["stop_stdin"].w = "open"
  /\ stops = 0 /\ (pc = "io_thread" \/ Started) => fd["stop_io"].w = "open"
  /\ has_console /\ "stop_stdin" \notin told
       /\ pc \notin {"stdin_pipe", "stdin_thread", "stdio_pipe"} => fd["stdio"].w = "open"

OneStop == ~early /\ stops <= 1 => ~misused /\ StopInOrder /\ OpenedInOrder

MainIInv == MainTypes /\ OneStop

LEMMA MainInitially == MainInit => MainIInv
<1> SUFFICES ASSUME MainInit PROVE MainIInv
  OBVIOUS
<1>1. MainTypes
  BY DEF MainInit, MainTypes, Stages, States, Pipes
<1>2. OneStop
  BY DEF MainInit, OneStop, StopInOrder, OpenedInOrder, Started
<1> QED
  BY <1>1, <1>2 DEF MainIInv

(* start_io opens the pipes before it starts the threads that use them.    *)
LEMMA StartKeeps == ASSUME MainIInv, StartPipe \/ StartThread PROVE MainIInv'
<1> USE DEF MainIInv, MainTypes, Pipes, Open, Create
<1>1. CASE StartPipe
  <2>1. MainTypes'
    BY <1>1 DEF StartPipe, Stages, States
  <2> QED
    BY <1>1, <2>1 DEF StartPipe, OneStop, StopInOrder, OpenedInOrder, Started
<1>2. CASE StartThread
  <2>1. MainTypes'
    BY <1>2 DEF StartThread, Stages, States
  <2> QED
    BY <1>2, <2>1 DEF StartThread, OneStop, StopInOrder, OpenedInOrder, Started
<1> QED
  BY <1>1, <1>2

(* A step of stop_io closes an end that is open, once.                     *)
LEMMA StopKeeps == ASSUME MainIInv, NEW t \in {"main", "stdin"}, StopStep(t) PROVE MainIInv'
<1> USE DEF MainIInv
<1>1. MainTypes'
  BY DEF StopStep, StopIo, WriteAndClose, MainTypes, Stages, States, Pipes
<1>2. OneStop'
  BY DEF StopStep, StopIo, WriteAndClose, MainTypes, Pipes, Stages,
         OneStop, StopInOrder, OpenedInOrder, Started
<1> QED
  BY <1>1, <1>2

LEMMA AccessKeeps == ASSUME MainIInv, (\E r : Access(r)) \/ Respond \/ SendResp PROVE MainIInv'
<1> USE DEF MainIInv
<1>1. MainTypes'
  BY DEF Access, Respond, SendResp, BeginStop, MainTypes, Stages
<1>2. OneStop'
  BY DEF Access, Respond, SendResp, BeginStop, MainTypes,
         OneStop, StopInOrder, OpenedInOrder, Started
<1> QED
  BY <1>1, <1>2

LEMMA StdinKeeps == ASSUME MainIInv, Key \/ EscapeKey \/ StdinEnds PROVE MainIInv'
<1> USE DEF MainIInv, MainTypes, Pipes, BeginStop
<1>1. CASE Key
  <2>1. UNCHANGED <<has_console, pc, fd, told, thread, stopping, stops>>
    BY <1>1, Zenon DEF Key
  <2>2. "stop_stdin" \notin told
    BY <1>1, Zenon DEF Key
  <2>3. ~early' => ~early /\ Started
    BY <1>1, Zenon DEF Key
  <2>4. misused' => misused \/ (has_console /\ fd["stdio"].w # "open")
    BY <1>1, Zenon DEF Key
  <2> QED
    BY <2>1, <2>2, <2>3, <2>4 DEF OneStop, StopInOrder, OpenedInOrder, Started
<1>2. CASE EscapeKey
  <2>1. UNCHANGED <<has_console, pc, fd, told, thread, misused>> /\ BeginStop("stdin")
    BY <1>2, Zenon DEF EscapeKey
  <2>2. ~early' => ~early /\ Started
    BY <1>2, Zenon DEF EscapeKey
  <2>3. MainTypes'
    BY <2>1
  <2> QED
    BY <2>1, <2>2, <2>3 DEF OneStop, StopInOrder, OpenedInOrder, Started
<1>3. CASE StdinEnds
  <2>1. MainTypes'
    BY <1>3 DEF StdinEnds, ClosedByStdin, States
  <2>2. OneStop'
    BY <1>3 DEF StdinEnds, ClosedByStdin, StdinIdle,
                OneStop, StopInOrder, OpenedInOrder, Started
  <2> QED
    BY <2>1, <2>2
<1> QED
  BY <1>1, <1>2, <1>3

LEMMA OthersKeep == ASSUME MainIInv, IoEnds \/ NotifyTurn PROVE MainIInv'
<1> USE DEF MainIInv
<1>1. MainTypes'
  BY DEF IoEnds, NotifyTurn, MainTypes, States, Pipes
<1>2. OneStop'
  BY DEF IoEnds, NotifyTurn, MainTypes, Pipes, OneStop, StopInOrder, OpenedInOrder, Started
<1> QED
  BY <1>1, <1>2

(* No thread of the program uses a descriptor that is not open, in any     *)
(* interleaving of start_io, the main loop, the keys and the ends of the   *)
(* three threads, but for a key that comes before start_io is through and  *)
(* a second stop_io.                                                       *)
THEOREM DescriptorsStayOpen == MainSpec => []DescriptorsOpen
<1>1. MainIInv /\ [MainNext]_mainvars => MainIInv'
  <2> SUFFICES ASSUME MainIInv, [MainNext]_mainvars PROVE MainIInv'
    OBVIOUS
  <2>1. CASE UNCHANGED mainvars
    BY <2>1 DEF mainvars, MainIInv, MainTypes, OneStop, StopInOrder, OpenedInOrder, Started
  <2> QED
    BY <2>1, StartKeeps, StopKeeps, AccessKeeps, StdinKeeps, OthersKeep
       DEF MainNext, MainStep, StdinStep
<1>2. MainIInv => DescriptorsOpen
  BY DEF MainIInv, MainTypes, OneStop, DescriptorsOpen
<1> QED
  BY <1>1, <1>2, MainInitially, PTL DEF MainSpec

-----------------------------------------------------------------------------
(* PhysMem. *)
PmSpec == PmInit /\ [][PmNext]_pmvars

(* The ranges and tables have their types, and the table reported is the   *)
(* one that is not in use.                                                 *)
MapInv ==
    /\ DOMAIN ranges = 1 .. 2
    /\ \A i \in 1 .. 2 :
          ranges[i] \in [addr : Nat, org_size : Nat, size : Nat, is_ram : BOOLEAN]
    /\ ranges[Ram].org_size = RamPages /\ ranges[Ram].size \in {0, RamPages}
    /\ ranges[Ram].is_ram /\ ~ranges[2].is_ram
    /\ dirty_tab \in [0 .. 1 -> SUBSET Pages] /\ dirty_index \in 0 .. 1
    /\ report.tab = 1 - dirty_index

(* A page in the TLB lies in the RAM range where the entry says, and has   *)
(* its dirty bit: what makes it safe that a store through the TLB sets     *)
(* none, and that the TLB is not flushed when no bit is set or the range   *)
(* is off.                                                                 *)
TlbInv ==
    \A e \in tlb :
        /\ e.addr \in Nat /\ e.page \in dirty_bits
        /\ e.addr - ranges[Ram].addr = e.page
        /\ e.page \in 0 .. ranges[Ram].size - 1

PmIInv == MapInv /\ TlbInv /\ WritesShowDirty /\ ReportStable

(* The look-up finds the RAM range exactly for the addresses it covers: it *)
(* is the first of phys_mem_range, so a device in its place is not seen.   *)
LEMMA LookupRam ==
    ASSUME MapInv, NEW a \in Nat
    PROVE  get_phys_mem_range(a) = Ram
             <=> a \in ranges[Ram].addr .. ranges[Ram].addr + ranges[Ram].size - 1
<1> DEFINE hits == {i \in DOMAIN ranges :
                      a \in ranges[i].addr .. ranges[i].addr + ranges[i].size - 1}
<1>1. hits \subseteq 1 .. 2
  BY DEF MapInv
<1>2. 1 \in hits <=> a \in ranges[1].addr .. ranges[1].addr + ranges[1].size - 1
  BY DEF MapInv
<1>3. 1 \in hits => Min(hits) = 1
  BY <1>1 DEF Min
<1>4. 1 \notin hits => hits = {} \/ hits = {2}
  BY <1>1
<1>5. Min({2}) = 2
  BY DEF Min
<1>6. get_phys_mem_range(a) = IF hits = {} THEN 0 ELSE Min(hits)
  BY DEF get_phys_mem_range
<1> HIDE DEF hits
<1> QED
  BY <1>2, <1>3, <1>4, <1>5, <1>6 DEF Ram

(* The map starts with an empty TLB and clear tables. *)
LEMMA MapInitially == PmInit => PmIInv
<1> SUFFICES ASSUME PmInit PROVE PmIInv
  OBVIOUS
<1>1. MapInv
  BY SizeAssumption DEF PmInit, MapInv, Range_, Ram, Pages
<1>2. TlbInv /\ WritesShowDirty /\ ReportStable
  BY DEF PmInit, TlbInv, WritesShowDirty, ReportStable, dirty_bits
<1> QED
  BY <1>1, <1>2 DEF PmIInv

(* phys_mem_get_ram_ptr for writing sets the bit of the page it gives out. *)
LEMMA StoreKeeps ==
    ASSUME PmIInv, NEW a \in Nat, NEW c \in BOOLEAN, Store(a, c)
    PROVE  PmIInv'
<1> DEFINE page == a - ranges[Ram].addr
<1>1. page \in 0 .. ranges[Ram].size - 1 /\ page \in Pages
  BY LookupRam, SizeAssumption DEF PmIInv, MapInv, Store, Pages, Ram
<1>2. dirty_bits' = dirty_bits \cup {page}
  BY DEF PmIInv, MapInv, Store, dirty_bits
<1>3. MapInv'
  BY <1>1 DEF PmIInv, MapInv, Store
<1>4. TlbInv'
  BY <1>1, <1>2 DEF PmIInv, TlbInv, Store
<1>5. WritesShowDirty'
  BY <1>2 DEF PmIInv, WritesShowDirty, Store
<1>6. ReportStable'
  BY DEF PmIInv, MapInv, ReportStable, Store
<1> QED
  BY <1>3, <1>4, <1>5, <1>6 DEF PmIInv

(* A store of the processor, through the TLB or past it. *)
LEMMA CpuStoreKeeps ==
    ASSUME PmIInv, NEW a \in Nat, CpuStore(a)
    PROVE  PmIInv'
<1>1. CASE Store(a, TRUE)
  BY <1>1, StoreKeeps
<1>2. ASSUME NEW e \in tlb, written' = written \cup {e.page},
             UNCHANGED <<ranges, dirty_tab, dirty_index, tlb, report>>
      PROVE  PmIInv'
  BY <1>2 DEF PmIInv, MapInv, TlbInv, WritesShowDirty, ReportStable, dirty_bits, Ram
<1> QED
  BY <1>1, <1>2 DEF CpuStore

(* After default_get_dirty_bits no page is left in the TLB, whether it has *)
(* flushed it or had no reason to.                                         *)
LEMMA GetDirtyBitsEmpties ==
    ASSUME PmIInv, GetDirtyBits
    PROVE  tlb' = {}
<1>1. \A e \in tlb : e.page \in Pages
  BY DEF PmIInv, MapInv, TlbInv, dirty_bits
<1>2. CASE dirty_bits # {} /\ ranges[Ram].size # 0
  BY <1>1, <1>2 DEF GetDirtyBits, FlushDirty, flush_tlb_write_range
<1>3. CASE dirty_bits = {}
  BY <1>3 DEF PmIInv, TlbInv, GetDirtyBits, FlushDirty
<1>4. CASE ranges[Ram].size = 0
  BY <1>4 DEF PmIInv, TlbInv, GetDirtyBits, FlushDirty
<1> QED
  BY <1>2, <1>3, <1>4

(* default_get_dirty_bits changes the tables over. *)
LEMMA GetDirtyBitsKeeps ==
    ASSUME PmIInv, GetDirtyBits
    PROVE  PmIInv'
<1>1. tlb' = {}
  BY GetDirtyBitsEmpties
<1>2. MapInv'
  BY DEF PmIInv, MapInv, GetDirtyBits, OtherTable
<1>3. TlbInv'
  BY <1>1 DEF TlbInv
<1>4. WritesShowDirty'
  BY DEF WritesShowDirty, GetDirtyBits
<1>5. ReportStable'
  BY DEF PmIInv, MapInv, ReportStable, GetDirtyBits, OtherTable, dirty_bits
<1> QED
  BY <1>2, <1>3, <1>4, <1>5 DEF PmIInv

(* phys_mem_reset_dirty_bit takes one bit and flushes its page. *)
LEMMA ResetDirtyBitKeeps ==
    ASSUME PmIInv, NEW page \in Pages, ResetDirtyBit(page)
    PROVE  PmIInv'
<1>1. dirty_bits' = dirty_bits \ {page}
  BY DEF PmIInv, MapInv, ResetDirtyBit, dirty_bits
<1>2. MapInv'
  BY DEF PmIInv, MapInv, ResetDirtyBit
<1>3. TlbInv'
  BY <1>1 DEF PmIInv, TlbInv, ResetDirtyBit, flush_tlb_write_range
<1>4. WritesShowDirty'
  BY <1>1 DEF PmIInv, WritesShowDirty, ResetDirtyBit
<1>5. ReportStable'
  BY DEF PmIInv, MapInv, ReportStable, ResetDirtyBit
<1> QED
  BY <1>2, <1>3, <1>4, <1>5 DEF PmIInv

(* phys_mem_set_addr flushes the TLB when it moves the RAM range. *)
LEMMA SetAddrKeeps ==
    ASSUME PmIInv, NEW i \in 1 .. 2, NEW a \in Nat, NEW on \in BOOLEAN, SetAddr(i, a, on)
    PROVE  PmIInv'
<1> DEFINE pr == default_set_addr(ranges[i], a, on)
<1>1. /\ ranges' = [ranges EXCEPT ![i] = pr]
      /\ DOMAIN ranges = 1 .. 2
  BY DEF SetAddr, PmIInv, MapInv
<1>2. /\ pr \in [addr : Nat, org_size : Nat, size : Nat, is_ram : BOOLEAN]
      /\ pr.org_size = ranges[i].org_size /\ pr.is_ram = ranges[i].is_ram
      /\ pr.size \in {ranges[i].size, 0, ranges[i].org_size}
  BY DEF PmIInv, MapInv, default_set_addr
<1>3. MapInv'
  BY <1>1, <1>2 DEF PmIInv, MapInv, SetAddr, Ram
<1>4. dirty_bits' = dirty_bits
  BY DEF SetAddr, dirty_bits
<1>5. TlbInv'
  <2>1. CASE Flushes(ranges[i], a, on)
    <3>1. \A e \in tlb : e.page \in Pages
      BY DEF PmIInv, MapInv, TlbInv, dirty_bits
    <3>2. tlb' = {}
      BY <2>1, <3>1 DEF SetAddr, flush_tlb_write_range
    <3> QED
      BY <3>2 DEF TlbInv
  <2>2. CASE ~Flushes(ranges[i], a, on)
    <3>1. ranges'[Ram] = ranges[Ram]
      BY <1>1, <2>2 DEF PmIInv, MapInv, Flushes, default_set_addr, Ram
    <3>2. tlb' = tlb
      BY <2>2 DEF SetAddr
    <3> QED
      BY <3>1, <3>2, <1>4 DEF PmIInv, TlbInv
  <2> QED
    BY <2>1, <2>2
<1>6. WritesShowDirty' /\ ReportStable'
  BY <1>4 DEF PmIInv, WritesShowDirty, ReportStable, SetAddr
<1> QED
  BY <1>3, <1>5, <1>6 DEF PmIInv

(* The invariant holds of every state the map can be in. *)
THEOREM MapInvariant == PmSpec => []PmIInv
<1>1. PmIInv /\ [PmNext]_pmvars => PmIInv'
  <2> SUFFICES ASSUME PmIInv, [PmNext]_pmvars PROVE PmIInv'
    OBVIOUS
  <2>1. ASSUME NEW a \in Addresses, CpuStore(a) \/ Store(a, FALSE) PROVE PmIInv'
    <3>1. a \in Nat
      BY SizeAssumption DEF Addresses
    <3> QED
      BY <2>1, <3>1, CpuStoreKeeps, StoreKeeps
  <2>2. CASE GetDirtyBits
    BY <2>2, GetDirtyBitsKeeps
  <2>3. ASSUME NEW p \in Pages, ResetDirtyBit(p) PROVE PmIInv'
    BY <2>3, ResetDirtyBitKeeps
  <2>4. ASSUME NEW i \in DOMAIN ranges, NEW a \in Addresses, NEW on \in BOOLEAN, SetAddr(i, a, on)
        PROVE  PmIInv'
    <3>1. a \in Nat /\ i \in 1 .. 2
      BY SizeAssumption DEF Addresses, PmIInv, MapInv
    <3> QED
      BY <2>4, <3>1, SetAddrKeeps
  <2>5. CASE UNCHANGED pmvars
    BY <2>5 DEF pmvars, PmIInv, MapInv, TlbInv, WritesShowDirty, ReportStable, dirty_bits
  <2> QED
    BY <2>1, <2>2, <2>3, <2>4, <2>5 DEF PmNext
<1> QED
  BY <1>1, MapInitially, PTL DEF PmSpec

(* No store escapes the dirty bits, although one through the TLB sets none. *)
THEOREM StoresShowDirty == PmSpec => []WritesShowDirty
<1>1. PmIInv => WritesShowDirty
  BY DEF PmIInv
<1> QED
  BY <1>1, MapInvariant, PTL

(* A TLB entry always agrees with a look-up in the map as it is now: every *)
(* move of the RAM range in phys_mem_set_addr has flushed what it outdates. *)
THEOREM TlbStaysCurrent == PmSpec => []TlbIsCurrent
<1>1. PmIInv => TlbIsCurrent
  <2> SUFFICES ASSUME PmIInv, NEW e \in tlb
               PROVE  get_phys_mem_range(e.addr) = Ram /\ e.addr - ranges[Ram].addr = e.page
    BY DEF TlbIsCurrent
  <2>1. /\ e.addr \in Nat /\ e.addr - ranges[Ram].addr = e.page
        /\ e.page \in 0 .. ranges[Ram].size - 1
    BY DEF PmIInv, TlbInv
  <2>2. e.addr \in ranges[Ram].addr .. ranges[Ram].addr + ranges[Ram].size - 1
    BY <2>1 DEF PmIInv, MapInv, Ram
  <2> QED
    BY <2>1, <2>2, LookupRam DEF PmIInv
<1> QED
  BY <1>1, MapInvariant, PTL

(* The bits a caller of phys_mem_get_dirty_bits reads stay as they were.   *)
THEOREM ReportsStayStable == PmSpec => []ReportStable
<1>1. PmIInv => ReportStable
  BY DEF PmIInv
<1> QED
  BY <1>1, MapInvariant, PTL
=============================================================================
