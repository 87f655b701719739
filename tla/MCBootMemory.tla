----------------------------- MODULE MCBootMemory -----------------------------
EXTENDS BootMemory

\* an entry of n bytes from page p, off bytes in
Entry(p, off, n, type) == [base |-> p * PageSize + off, len |-> n, type |-> type]

\* the kernel and the image in low memory, the rest usable up to page top, cut
\* at page cut by k pages of the given type, off bytes past the start of a page
MapOf(cut, k, top, off, type) ==
  <<Entry(0, 0, PageSize, "reserved"),
    Entry(1, 0, 2 * PageSize, "usable"),
    Entry(3, 0, 9 * PageSize, "kernel"),
    Entry(12, 0, (cut - 12) * PageSize + off, "usable"),
    Entry(cut, off, k * PageSize, type),
    Entry(cut + k, off, (top - cut - k) * PageSize - off, "usable")>>

\* k usable pages, no two of them next to each other
Fragments(k) ==
  <<Entry(3, 0, 9 * PageSize, "kernel")>>
  \o [i \in 1..k |-> Entry(11 + 2 * i, 0, PageSize, "usable")]

Segments == <<[vaddr |-> 2049 * PageSize + 8, memsz |-> PageSize],
              [vaddr |-> 2051 * PageSize, memsz |-> 20]>>

\* a machine with the kernel and the image in nine pages from page k
MachineOf(map, k, screen, ncpus, apics) ==
  [map |-> map, segments |-> Segments, kphys |-> k * PageSize, kvirt |-> 2048 * PageSize,
   ramdisk |-> k + 5, apics |-> apics, screen |-> screen, ncpus |-> ncpus]

SomeMachines ==
  {MachineOf(MapOf(cut, k, top, off, type), 3, screen, ncpus, apics) :
     cut \in {17, 22}, k \in {2, 9}, top \in {32, 42, 90}, off \in {0, 24},
     type \in {"reclaimable", "bad"}, screen \in {40, 400}, ncpus \in {1, 3},
     apics \in {<<61, 95>>}}
  \cup {MachineOf(<<Entry(0, 0, top * PageSize, "usable"), Entry(top, 0, 9 * PageSize, "kernel")>>, top, 40, 1, <<5>>) : top \in {6, 8, 9, 16}}
  \cup {MachineOf(Fragments(k), 3, 40, 1, <<5>>) : k \in {22, 55}}
===============================================================================
