---------------------------- MODULE MCStructures ----------------------------
(* The memory of three tasks; and, each on its own, parts that no interrupt *)
(* enters: part says which one a behaviour is about.  Three nodes are in    *)
(* two lists.                                                               *)
EXTENDS MCMemory, Clist, Heap, Console, Pci, TLC

CONSTANTS n1, n2, n3, glyph

VARIABLE part

MCRank == (n1 :> 1) @@ (n2 :> 1) @@ (n3 :> 2)

MCBanners == {<<glyph>>, <<Blank, glyph, glyph, Blank, Blank>>}

\* A unit of address is 64 Mbytes: windows have up to 256, and a register 4096.
BarOf(type, size) == [type |-> type, size |-> size]
Layout(x, y, z) == (0 :> x) @@ (1 :> y) @@ (2 :> z)
MCBochs ==
  {Layout(BarOf("32", s), BarOf("none", 1), BarOf("32", 1)) : s \in {1, 4}} \cup
  {Layout(BarOf("64", s), BarOf("high", s), BarOf("32", 2)) : s \in {2, 128}} \cup
  {Layout(BarOf("32", 1), BarOf("none", 1), BarOf(type, 1)) : type \in {"io", "none"}}
MCVirtio ==
  {Layout(BarOf("none", 1), BarOf("64", s), BarOf("high", s)) : s \in {2, 64}} \cup
  {Layout(BarOf("none", 1), BarOf(type, 4), BarOf("none", 1)) : type \in {"io", "32"}}
Cap(type) == [cfg_type |-> type, bar |-> 1, offset |-> IF type = "isr" THEN 1 ELSE 0]
MCCaps ==
  {<<>>, <<Cap("other"), Cap("common")>>, <<Cap("notify"), Cap("common")>>,
   <<Cap("notify"), Cap("isr"), Cap("common")>>}
MCHardware ==
  {("bochs" :> [there |-> x, bars |-> f, caps |-> <<>>]) @@
   ("virtio" :> [there |-> y, bars |-> v, caps |-> l]) :
     x \in BOOLEAN, y \in BOOLEAN, f \in MCBochs, v \in MCVirtio, l \in MCCaps}

structures == <<part, vars, clistvars, heapvars, consolevars, pcivars>>

\* A part that a behaviour is not about has one initial state.
StructuresInit ==
  /\ part \in {"memory", "clist", "heap", "console", "pci"}
  /\ \/ part = "pci" /\ hw \in Hardware
     \/ part # "pci" /\ hw = CHOOSE h \in Hardware : TRUE
  /\ Init /\ ClistInit /\ HeapInit /\ ConsoleInit /\ PciInit
  /\ part # "console" => fb_rows = CHOOSE n \in FbSizes : TRUE
  /\ part # "memory" => Cardinality(mem.free) = CHOOSE n \in RamSizes : TRUE

StructuresNext ==
  /\ UNCHANGED part
  /\ \/ /\ part = "memory" /\ Next
        /\ UNCHANGED <<clistvars, heapvars, consolevars, pcivars>>
     \/ /\ part = "clist" /\ ClistNext
        /\ UNCHANGED <<vars, heapvars, consolevars, pcivars>>
     \/ /\ part = "heap" /\ HeapNext
        /\ UNCHANGED <<vars, clistvars, consolevars, pcivars>>
     \/ /\ part = "console" /\ ConsoleNext
        /\ UNCHANGED <<vars, clistvars, heapvars, pcivars>>
     \/ /\ part = "pci" /\ PciNext
        /\ UNCHANGED <<vars, clistvars, heapvars, consolevars>>

StructuresSpec == StructuresInit /\ [][StructuresNext]_structures

PartView ==
  IF part = "memory" THEN <<part, View>>
  ELSE <<part, clistvars, heapvars, consolevars, pcivars>>
=============================================================================
