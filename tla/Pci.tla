-------------------------------- MODULE Pci --------------------------------
(***************************************************************************)
(* Boot of the PCI devices: drivers/pci/pci.c, and what console_init       *)
(* (bochs.c) and virtio_blk_init (virtio_blk.c) do with it, one action per *)
(* step that can return early.  A register is RegMod values wide and an    *)
(* address is two registers: 32 and 64 bits in the code.  The devices,     *)
(* the answers they give and their decoding of addresses are external.     *)
(***************************************************************************)
EXTENDS Integers, FiniteSets, Sequences

CONSTANTS
  RegMod,
  BAR_COUNT,
  FbBase, CfgBase, VirtioBase,  \* where the kernel wants the windows
  Hardware,          \* the devices the board may have
  QueueSizes,        \* what the disk may propose
  VIRTIO_MAX_QUEUE_SIZE,
  PageSize,
  NoAddr             \* NULL

ASSUME PciAssumption ==
  /\ {RegMod, BAR_COUNT, VIRTIO_MAX_QUEUE_SIZE, PageSize} \subseteq Nat \ {0}
  /\ {FbBase, CfgBase, VirtioBase} \subseteq Nat
  /\ QueueSizes \subseteq Nat

VARIABLES
  hw,                \* the devices: is it there, its BARs, its capabilities
  bar,               \* the BAR registers
  cmd,               \* the command registers
  kmap,              \* the windows iommap_kernel has mapped
  boot,              \* the step kernel_start is at
  addr,              \* fb_base, cfg_base, notify_addr and irq_addr
  status,            \* device_status of the disk
  vq                 \* the queue: its number of descriptors, rings, enabled

pcivars == <<hw, bar, cmd, kmap, boot, addr, status, vq>>

Devs == {"bochs", "virtio"}
Bars == 0..(BAR_COUNT - 1)

AlignUp(a, size) == ((a + size - 1) \div size) * size
-----------------------------------------------------------------------------
\* What a BAR keeps of a value written to it: the bits above its size.  The
\* upper half of a 64-bit BAR is the next register.
Wired(d, n, v) ==
  LET b == hw[d].bars[n]
  IN  CASE b.type = "none" -> 0
        [] b.type = "high" -> LET unit == IF b.size <= RegMod THEN 1 ELSE b.size \div RegMod
                              IN  v - (v % unit)
        [] OTHER           -> LET unit == IF b.size < RegMod THEN b.size ELSE RegMod
                              IN  v - (v % unit)

WriteBar(regs, d, n, v) == [regs EXCEPT ![d][n] = Wired(d, n, v)]

AllOnes == RegMod - 1

\* The register after the probe of pci_get_bar_size: restored
Probed(regs, d, n) == WriteBar(WriteBar(regs, d, n, AllOnes), d, n, regs[d][n])

\* Faulty pci_get_bar_size: the upper half of a 32-bit mask is left clear
size_of_low(d, n) ==
  LET low == Wired(d, n, AllOnes)
  IN  IF low = 0 THEN 0 ELSE RegMod * RegMod - low

\* ~mask + 1, where the mask is what the register keeps of all ones; 0
\* stands for -EINVAL, of a BAR whose low half keeps nothing
pci_get_bar_size(d, n) ==
  LET low  == Wired(d, n, AllOnes)
      high == IF hw[d].bars[n].type = "64" THEN Wired(d, n + 1, AllOnes) ELSE AllOnes
  IN  IF low = 0 THEN 0 ELSE RegMod * RegMod - (high * RegMod + low)

pci_set_bar(regs, d, n, a) ==
  LET w == WriteBar(regs, d, n, a % RegMod)
  IN  IF hw[d].bars[n].type = "64" THEN WriteBar(w, d, n + 1, a \div RegMod) ELSE w

pci_bar_addr(d, n) ==
  bar[d][n] + IF hw[d].bars[n].type = "64" THEN bar[d][n + 1] * RegMod ELSE 0

\* -EIO of an I/O BAR, -EINVAL of an unimplemented one or of a 64-bit one
\* with no next register: all but -ENODEV end in a panic of kernel_start
Refused(d, n) ==
  \/ hw[d].bars[n].type = "io"
  \/ hw[d].bars[n].type = "64" /\ n = BAR_COUNT - 1
  \/ pci_get_bar_size(d, n) = 0

\* pci_get_bar_size, pci_set_bar and iommap_kernel, which may be out of memory;
\* the driver keeps the address in the field, if it has one
MapBar(d, n, base, next, field) ==
  IF Refused(d, n)
    THEN /\ boot' = "panic"
         /\ UNCHANGED <<bar, kmap, addr>>
    ELSE LET size == pci_get_bar_size(d, n)
             a    == AlignUp(base, size)
             regs == Probed(bar, d, n)
         IN  /\ bar' = pci_set_bar(IF hw[d].bars[n].type = "64" THEN Probed(regs, d, n + 1)
                                                                ELSE regs, d, n, a)
             /\ \/ /\ kmap' = kmap \cup {[base |-> a, size |-> size]} /\ boot' = next
                   /\ addr' = IF field \in DOMAIN addr THEN [addr EXCEPT ![field] = a] ELSE addr
                \/ boot' = "panic" /\ UNCHANGED <<kmap, addr>>

\* pci_enable_device and pci_set_master
SetCmd(d, flags) == cmd' = [cmd EXCEPT ![d] = @ \cup flags]

\* _get_virtio_cap: the first capability of that type in the list
Caps(type) == {k \in DOMAIN hw["virtio"].caps :
                 /\ hw["virtio"].caps[k].cfg_type = type
                 /\ \A i \in 1..(k - 1) : hw["virtio"].caps[i].cfg_type # type}

_get_virtio_cap(type) == hw["virtio"].caps[CHOOSE k \in Caps(type) : TRUE]
-----------------------------------------------------------------------------
Step(from, to) == boot = from /\ boot' = to

pci_find_device ==
  /\ \/ Step("find_bochs", IF hw["bochs"].there THEN "fb" ELSE "find_virtio")
     \/ Step("find_virtio", IF hw["virtio"].there /\ Caps("common") # {} THEN "vbar" ELSE "done")
  /\ UNCHANGED <<hw, bar, cmd, kmap, addr, status, vq>>

\* config_pcie of bochs.c, BAR 0 and then BAR 2
config_pcie ==
  /\ \/ /\ boot = "fb"
        /\ MapBar("bochs", 0, FbBase, "cfg", "fb_base")
     \/ /\ boot = "cfg"
        /\ MapBar("bochs", 2, CfgBase, "screen", "cfg_base")
  /\ IF boot' = "screen" THEN SetCmd("bochs", {"mmio"}) ELSE UNCHANGED cmd
  /\ UNCHANGED <<hw, status, vq>>

\* The display is on, or its identifier is wrong: -ENODEV, the boot goes on.
config_screen ==
  /\ Step("screen", "find_virtio")
  /\ UNCHANGED <<hw, bar, cmd, kmap, addr, status, vq>>

config_pci ==
  /\ boot = "vbar"
  /\ MapBar("virtio", _get_virtio_cap("common").bar, VirtioBase, "features", "none")
  /\ IF boot' = "features" THEN SetCmd("virtio", {"mmio", "master"}) ELSE UNCHANGED cmd
  /\ UNCHANGED <<hw, status, vq>>

\* The device keeps FEATURES_OK if it accepts what is left of its features.
setup_features ==
  /\ boot = "features"
  /\ \/ status' = {"ACK", "DRIVER", "FEATURES_OK"} /\ boot' = "queues"
     \/ status' = {"ACK", "DRIVER"} /\ boot' = "done"
  /\ UNCHANGED <<hw, bar, cmd, kmap, addr, vq>>

\* sizeof(struct virtq_avail) * n, where the ring has 2 bytes for each entry
AvailBytes(n) == 4 * n

\* The three parts of a queue of n, one after the other in a page
Rings(n) ==
  LET avail == AlignUp(16 * n, 2)
      used  == AlignUp(avail + AvailBytes(n), 4)
  IN  [desc |-> 0, avail |-> avail, used |-> used]

setup_queues(proposed) ==
  /\ boot = "queues"
  /\ LET n == IF proposed > VIRTIO_MAX_QUEUE_SIZE THEN VIRTIO_MAX_QUEUE_SIZE ELSE proposed
     IN  \/ n = 0 /\ boot' = "done" /\ UNCHANGED vq
         \/ n > 0 /\ boot' = "panic" /\ UNCHANGED vq
         \/ /\ n > 0 /\ boot' = "notify"
            /\ vq' = [num |-> n, rings |-> Rings(n), free_slots |-> n \div 3, enabled |-> TRUE]
  /\ UNCHANGED <<hw, bar, cmd, kmap, addr, status>>

\* set_notify_addr and set_irq_addr.  The capabilities of the device QEMU
\* offers all name one BAR, the one config_pci has set.
SetAddr(type, field, next) ==
  \/ Caps(type) = {} /\ boot' = "done" /\ UNCHANGED addr
  \/ /\ Caps(type) # {}
     /\ LET cap == _get_virtio_cap(type)
        IN  addr' = [addr EXCEPT ![field] = pci_bar_addr("virtio", cap.bar) + cap.offset]
     /\ boot' = next

set_notify_addr ==
  /\ boot = "notify"
  /\ SetAddr("notify", "notify_addr", "irq")
  /\ UNCHANGED <<hw, bar, cmd, kmap, status, vq>>

set_irq_addr ==
  /\ boot = "irq"
  /\ SetAddr("isr", "irq_addr", "start")
  /\ UNCHANGED <<hw, bar, cmd, kmap, status, vq>>

\* The end of config_common; the device may have set FAILED.
DriverOk ==
  /\ boot = "start"
  /\ status' = status \cup {"DRIVER_OK"}
  /\ boot' \in {"done", "panic"}
  /\ UNCHANGED <<hw, bar, cmd, kmap, addr, vq>>

\* The scheduler starts, or panic stops the machine.
Booted == boot \in {"done", "panic"} /\ UNCHANGED pcivars

PciInit ==
  /\ hw \in Hardware
  /\ bar = [d \in Devs |-> [n \in Bars |-> 0]]
  /\ cmd = [d \in Devs |-> {}]
  /\ kmap = {}
  /\ boot = "find_bochs"
  /\ addr = [fb_base |-> NoAddr, cfg_base |-> NoAddr, notify_addr |-> NoAddr, irq_addr |-> NoAddr]
  /\ status = {}
  /\ vq = [num |-> 0, rings |-> [desc |-> 0, avail |-> 0, used |-> 0], free_slots |-> 0,
           enabled |-> FALSE]

PciNext ==
  \/ pci_find_device \/ config_pcie \/ config_screen
  \/ config_pci \/ setup_features \/ \E n \in QueueSizes : setup_queues(n)
  \/ set_notify_addr \/ set_irq_addr \/ DriverOk
  \/ Booted

PciSpec == PciInit /\ [][PciNext]_pcivars
-----------------------------------------------------------------------------
\* The window of the BAR, once the device answers in it
Decoded(d, n) ==
  IF "mmio" \in cmd[d] THEN {[base |-> pci_bar_addr(d, n), size |-> hw[d].bars[n].size]} ELSE {}

\* Address a is of a window the device decodes and the kernel maps.
Reaches(d, n, a) == \E w \in Decoded(d, n) \cap kmap : w.base <= a /\ a < w.base + w.size

Apart(w, x) == w.base + w.size <= x.base \/ x.base + x.size <= w.base

\* Once a driver is up, whatever the devices' BARs are like and wherever an
\* early return left the other driver, every address it keeps is one its
\* device decodes and the kernel maps, and no two windows overlap; the disk
\* is started only after its features are agreed and its queue is set, and
\* a queue that can hold a request has its three rings apart in one page.
DriversReachTheirDevices ==
  /\ \A w, x \in kmap : w # x => Apart(w, x)
  /\ boot \notin {"fb", "cfg", "panic"} =>
       /\ addr.fb_base # NoAddr => Reaches("bochs", 0, addr.fb_base)
       /\ addr.cfg_base # NoAddr => Reaches("bochs", 2, addr.cfg_base)
  /\ "DRIVER_OK" \in status =>
       /\ "FEATURES_OK" \in status /\ vq.enabled /\ "master" \in cmd["virtio"]
       /\ LET n == _get_virtio_cap("common").bar
          IN  Reaches("virtio", n, addr.notify_addr) /\ Reaches("virtio", n, addr.irq_addr)
  /\ vq.free_slots > 0 =>
       /\ vq.rings.desc + 16 * vq.num <= vq.rings.avail
       /\ vq.rings.avail + 4 + 2 * vq.num <= vq.rings.used
       /\ vq.rings.used % 4 = 0 /\ vq.rings.used + 4 + 8 * vq.num <= PageSize
=============================================================================
