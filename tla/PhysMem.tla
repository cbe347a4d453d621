------------------------------- MODULE PhysMem -------------------------------
(***************************************************************************)
(* The physical memory map (iomem.c): ranges of RAM and of devices that    *)
(* are looked up by address, moved and switched off, and the dirty bits of *)
(* a RAM range.  Addresses count pages.  The processor that stores through *)
(* a write TLB is outside of the repository; the map knows it by           *)
(* flush_tlb_write_range.                                                  *)
(***************************************************************************)
EXTENDS Integers, FiniteSets, FiniteSetsExt, Sequences

CONSTANTS RamPages,   \* pages of the RAM range
          MapPages    \* size of the address space

ASSUME SizeAssumption == RamPages \in Nat /\ MapPages \in Nat

VARIABLES ranges,     \* phys_mem_range: the RAM range, then a device
          dirty_tab,  \* dirty_bits_tab of the RAM range, as sets of pages
          dirty_index,
          tlb,        \* the processor's write TLB: pairs of address and page
          written,    \* pages stored to since their dirty bit was last taken
          report      \* what the last get_dirty_bits returned

pmvars == <<ranges, dirty_tab, dirty_index, tlb, written, report>>

Ram == 1
Pages == 0 .. RamPages - 1
Addresses == 0 .. MapPages - 1

(* register_ram_entry and cpu_register_device. *)
Range_(addr, size, is_ram, disabled) ==
    [addr |-> addr, org_size |-> size, size |-> IF disabled THEN 0 ELSE size,
     is_ram |-> is_ram]

PmInit ==
    /\ \E off \in BOOLEAN :
          ranges = << Range_(0, RamPages, TRUE, off), Range_(0, 1, FALSE, TRUE) >>
    /\ dirty_tab = [i \in 0 .. 1 |-> {}] /\ dirty_index = 0
    /\ tlb = {} /\ written = {}
    /\ report = [tab |-> 1, pages |-> {}]

(* get_phys_mem_range: the first range that holds the address; 0 for none. *)
get_phys_mem_range(paddr) ==
    LET hits == {i \in DOMAIN ranges :
                   paddr \in ranges[i].addr .. ranges[i].addr + ranges[i].size - 1}
    IN IF hits = {} THEN 0 ELSE Min(hits)

dirty_bits == dirty_tab[dirty_index]

flush_tlb_write_range(pages) == tlb' = {e \in tlb : e.page \notin pages}

-----------------------------------------------------------------------------
(* phys_mem_get_ram_ptr with is_rw, and the store through the pointer. *)
Store(paddr, cached) ==
    /\ get_phys_mem_range(paddr) = Ram
    /\ LET page == paddr - ranges[Ram].addr
       IN /\ dirty_tab' = [dirty_tab EXCEPT ![dirty_index] = @ \union {page}]
          /\ written' = written \union {page}
          /\ tlb' = IF cached THEN tlb \union {[addr |-> paddr, page |-> page]} ELSE tlb
    /\ UNCHANGED <<ranges, dirty_index, report>>

(* The processor's store: through the TLB when it has the page. *)
CpuStore(paddr) ==
    \/ /\ \A e \in tlb : e.addr # paddr
       /\ Store(paddr, TRUE)
    \/ \E e \in tlb :
          /\ e.addr = paddr
          /\ written' = written \union {e.page}
          /\ UNCHANGED <<ranges, dirty_tab, dirty_index, tlb, report>>

\* Mutated form: the TLB keeps the pages whose bits are taken.
FlushDirty_Never == tlb' = tlb
FlushDirty ==
    IF dirty_bits # {} /\ ranges[Ram].size # 0
    THEN flush_tlb_write_range(Pages) ELSE tlb' = tlb

OtherTable == 1 - dirty_index

(* default_get_dirty_bits *)
GetDirtyBits ==
    /\ FlushDirty
    /\ report' = [tab |-> dirty_index, pages |-> dirty_bits]
    /\ dirty_index' = OtherTable
    /\ dirty_tab' = [dirty_tab EXCEPT ![OtherTable] = {}]
    /\ written' = {} /\ UNCHANGED ranges

(* phys_mem_reset_dirty_bit *)
ResetDirtyBit(page) ==
    /\ page \in dirty_bits
    /\ dirty_tab' = [dirty_tab EXCEPT ![dirty_index] = @ \ {page}]
    /\ flush_tlb_write_range({page})
    /\ written' = written \ {page}
    /\ UNCHANGED <<ranges, dirty_index, report>>

-----------------------------------------------------------------------------
(* default_set_addr on a range. *)
Moves(pr, addr, enabled) == IF enabled THEN pr.size = 0 \/ pr.addr # addr ELSE pr.size # 0
default_set_addr(pr, addr, enabled) ==
    IF ~Moves(pr, addr, enabled) THEN pr
    ELSE [pr EXCEPT !.addr = IF enabled THEN addr ELSE 0,
                    !.size = IF enabled THEN pr.org_size ELSE 0]

Flushes(pr, addr, enabled) == pr.is_ram /\ Moves(pr, addr, enabled)

(* phys_mem_set_addr *)
SetAddr(i, addr, enabled) ==
    /\ ranges' = [ranges EXCEPT ![i] = default_set_addr(@, addr, enabled)]
    /\ IF Flushes(ranges[i], addr, enabled)
       THEN flush_tlb_write_range(Pages) ELSE tlb' = tlb
    /\ UNCHANGED <<dirty_tab, dirty_index, written, report>>

PmNext ==
    \/ \E a \in Addresses : CpuStore(a) \/ Store(a, FALSE)
    \/ GetDirtyBits
    \/ \E p \in Pages : ResetDirtyBit(p)
    \/ \E i \in DOMAIN ranges, a \in Addresses, on \in BOOLEAN : SetAddr(i, a, on)

-----------------------------------------------------------------------------
(* No store escapes the dirty bits: a page stored to since its bit was     *)
(* taken has its bit set, although the processor skips                     *)
(* phys_mem_set_dirty_bit for a page in its TLB.                           *)
WritesShowDirty == written \subseteq dirty_bits

(* The TLB never outlives a mapping: what it holds for an address is what  *)
(* a look-up of the address gives, after every move of a range.            *)
TlbIsCurrent ==
    \A e \in tlb :
        /\ get_phys_mem_range(e.addr) = Ram
        /\ e.addr - ranges[Ram].addr = e.page

(* The table a caller of phys_mem_get_dirty_bits reads does not change     *)
(* under it until it asks again.                                           *)
ReportStable == dirty_tab[report.tab] = report.pages
=============================================================================
