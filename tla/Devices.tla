-------------------------------- MODULE Devices --------------------------------
(* The devices of the simulated machine (devices.cc, sim.cc): behind memory  *)
(* lie a ROM with the device tree and, for each hart, its CSRs.  The bus     *)
(* finds a device by the negated address in a map sorted by negated base.    *)
(* Addresses wrap at AddrSpace.                                              *)
EXTENDS Integers, FiniteSetsExt

CONSTANTS
  AddrSpace,         \* addresses of a reg_t, 2^64
  memsz,
  Harts,
  max_devtree_size,  \* 4096 for each hart
  RomSize,           \* bytes of the finished device tree
  XlenBytes,         \* max_xlen / 8
  NCSR,
  IntSpace,          \* values of an int, 2^32: a CSR number is one
  Implemented,       \* CSRs that get_csr and set_csr know
  Lens               \* bytes of an access

Mod(n) == n % AddrSpace
Neg(addr) == Mod(AddrSpace - addr)

VARIABLES mmio,      \* the access made: its address, length and kind
          answer     \* what answered it

bvars == <<mmio, answer>>

cpu_size == NCSR * XlenBytes
cpu_addr(i) == memsz + max_devtree_size + i * cpu_size

\* Memory, the ROM's place and the CSRs of a hart are whole pages, so that an
\* aligned access does not cross their ends.
Aligned(n) == \A len \in Lens : n % len = 0

ASSUME DevicesAssumption ==
  /\ {AddrSpace, memsz, Harts, max_devtree_size, XlenBytes, NCSR, IntSpace} \subseteq Nat \ {0}
  /\ RomSize \in Nat /\ RomSize <= max_devtree_size /\ cpu_addr(Harts) < AddrSpace
  /\ Implemented \subseteq 0 .. NCSR - 1 /\ NCSR <= IntSpace
  /\ Lens \subseteq 1 .. AddrSpace - 1
  /\ Aligned(memsz + max_devtree_size) /\ Aligned(cpu_size)

\* make_device_tree: add_device files a device under its negated address.
Rom == [name |-> "rom", id |-> 0]
Hart(i) == [name |-> "hart", id |-> i]
Placed == {<<cpu_addr(i), Hart(i)>> : i \in 0 .. Harts - 1} \cup {<<memsz, Rom>>}
devices == [key \in {Neg(d[1]) : d \in Placed} |-> (CHOOSE d \in Placed : Neg(d[1]) = key)[2]]

Nobody == [by |-> "nobody", id |-> 0, word |-> 0]

rom_access(off, len, store) ==
  IF store \/ Mod(off + len) > RomSize THEN Nobody
  ELSE [by |-> "rom", id |-> 0, word |-> off]

\* processor_t::load and store; the CSR number is truncated to an int.
csr_access(i, off) ==
  LET which == (off \div XlenBytes) % IntSpace
  IN  IF which \in Implemented THEN [by |-> "hart", id |-> i, word |-> which] ELSE Nobody

(* mutant: the device at the very address is passed over *)
upper_bound(addr) == {key \in DOMAIN devices : key > Neg(addr)}

lower_bound(addr) == {key \in DOMAIN devices : key >= Neg(addr)}

bus_access(addr, len, store) ==
  IF lower_bound(addr) = {} THEN Nobody
  ELSE LET key == Min(lower_bound(addr))
           off == Mod(addr - Neg(key))
       IN  IF devices[key] = Rom THEN rom_access(off, len, store)
           ELSE csr_access(devices[key].id, off)

mmio_access(addr, len, store) ==
  IF Mod(addr + len) < addr THEN Nobody ELSE bus_access(addr, len, store)

DevicesInit == mmio = [addr |-> 0, len |-> 0, store |-> FALSE] /\ answer = Nobody

\* The memory port sends an aligned access beyond memory to the bus.
Mmio(addr, len, store) ==
  /\ addr % len = 0 /\ addr >= memsz
  /\ mmio' = [addr |-> addr, len |-> len, store |-> store]
  /\ answer' = mmio_access(addr, len, store)

DevicesNext ==
  \E addr \in 0 .. AddrSpace - 1 : \E len \in Lens : \E store \in BOOLEAN :
    Mmio(addr, len, store)

DevicesSpec == DevicesInit /\ [][DevicesNext]_bvars

-----------------------------------------------------------------------------
csr(a, i) == (a - cpu_addr(i)) \div XlenBytes

(* The harts all bytes of an access lie in, at a CSR that exists. *)
HartsAt(a, len) ==
  {i \in 0 .. Harts - 1 : a >= cpu_addr(i) /\ a + len <= cpu_addr(i + 1)
                          /\ csr(a, i) \in Implemented}

Owner(a, len, store) ==
  IF a >= memsz /\ a + len <= memsz + RomSize
  THEN IF store THEN Nobody ELSE [by |-> "rom", id |-> 0, word |-> a - memsz]
  ELSE IF HartsAt(a, len) = {} THEN Nobody
  ELSE LET i == CHOOSE h \in HartsAt(a, len) : TRUE
       IN  [by |-> "hart", id |-> i, word |-> csr(a, i)]

(* An access reaches the device its bytes lie in, at the right place, and    *)
(* nothing answers between or outside of the devices (devices.cc:8-40,       *)
(* sim.cc:145-157): neither below the first base, nor behind the end of the  *)
(* ROM, nor where the end of the access wraps.  Left out: addresses behind   *)
(* the last hart, whose CSR numbers are truncated to those of that hart.     *)
MmioReachesOwner ==
  mmio.len > 0 /\ mmio.addr < cpu_addr(Harts)
    => answer = Owner(mmio.addr, mmio.len, mmio.store)
=============================================================================
