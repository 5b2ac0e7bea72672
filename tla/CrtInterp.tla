----------------------------- MODULE CrtInterp ------------------------------
(***************************************************************************)
(* reloc_main (pkgs/cr/crt-interp/src/crt_interp.c), the entry stub of a   *)
(* program without PT_INTERP: it maps ld.so into memory as the kernel      *)
(* would have, and hands it the initial stack.  Memory is a function from  *)
(* addresses to what a byte holds: 0, or the offset of the file's byte.    *)
(***************************************************************************)
EXTENDS Integers, Sequences, SequencesExt, FiniteSetsExt

CONSTANTS
  Word        \* addresses are modulo Word

Down(a, pg) == (a \div pg) * pg
Up(a, pg) == Down(a + pg - 1, pg)

\* A byte of a file, from 1; nothing beyond its end but zeros, up to the page's.
FileByte(len, off) == IF off < len THEN off + 1 ELSE 0

Loads(ph) == SelectSeq(ph, LAMBDA p : p.type = "LOAD")

\* The disabled PT_INTERP: the last PT_NULL with contents.
InterpIndex(ph) == SelectLastInSeq(ph, LAMBDA p : p.type = "NULL" /\ p.filesz > 1)

\* self_bias, from PT_PHDR when there is one.
SelfBias(ph, at) ==
  LET i == SelectLastInSeq(ph, LAMBDA p : p.type = "PHDR") IN IF i = 0 THEN 0 ELSE (at - ph[i].vaddr) % Word

\* The protection of the segment an entry of the program headers is in; the
\* subtraction wraps.
PhdrProt(ph, at, entry) ==
  LET vaddr == (entry - SelfBias(ph, at)) % Word
      i == SelectLastInSeq(ph, LAMBDA p : p.type = "LOAD" /\ (vaddr - p.vaddr) % Word < p.memsz)
  IN  IF i = 0 THEN {"r"} ELSE ph[i].flags

\* Mutant of InterpPath: the name is not cut off.
InterpPathUncut(self, rel) == IF rel.abs THEN rel.path ELSE self \o rel.path

\* The directory part of our own path, then the interpreter's.
InterpPath(self, rel) == IF rel.abs THEN rel.path ELSE Front(self) \o rel.path

\* What the reservation covers, from the lowest address to the highest.
Lo(ph, pg) == Down(Min({Loads(ph)[i].vaddr : i \in DOMAIN Loads(ph)}), pg)
Hi(ph, pg) == Up(Max({Loads(ph)[i].vaddr + Loads(ph)[i].memsz : i \in DOMAIN Loads(ph)}), pg)

\* Anonymous memory, and the file from a page on.
Zeros(len) == [i \in 0..(len - 1) |-> 0]

FileFrom(fileLen, off, len) == [i \in 0..(len - 1) |-> FileByte(fileLen, off + i)]

\* mmap with MAP_FIXED: whole pages, of these bytes.
MapPages(mem, from, len, prot, bytes) ==
  [a \in DOMAIN mem |-> IF a \in from..(from + len - 1) THEN [prot |-> prot, byte |-> bytes[a - from]] ELSE mem[a]]

\* Mutant of ZeroEnd: the last page is zeroed up to the segment's end only.
ZeroEndExact(p, pg) == Min({p.vaddr + p.memsz, Up(p.vaddr + p.filesz, pg)})

\* How far the last page of the file is zeroed: past bss, which ld.so uses as heap.
ZeroEnd(p, pg) == Up(p.vaddr + p.filesz, pg)

MapLen(p, pg) == Up(p.vaddr + p.filesz, pg) - Down(p.vaddr, pg)

\* A PT_LOAD: the file's pages, the rest of the last one zeroed, then zero pages.
MapSegment(mem, p, bias, pg, len) ==
  LET start == Down(p.vaddr, pg)
      fileEnd == p.vaddr + p.filesz
      memEnd == p.vaddr + p.memsz
      off == Down(p.offset, pg)
      filed == MapPages(mem, bias + start, MapLen(p, pg), p.flags,
                        FileFrom(len, off, MapLen(p, pg)))
      zeroed == IF memEnd > fileEnd /\ "w" \in p.flags
                THEN [a \in DOMAIN mem |-> IF a \in (bias + fileEnd)..(bias + ZeroEnd(p, pg) - 1)
                                           THEN [filed[a] EXCEPT !.byte = 0] ELSE filed[a]]
                ELSE filed
  IN  IF memEnd > fileEnd
      THEN MapPages(zeroed, bias + Up(fileEnd, pg), Up(memEnd, pg) - Up(fileEnd, pg), p.flags,
                    Zeros(Up(memEnd, pg) - Up(fileEnd, pg)))
      ELSE zeroed

\* mprotect over the pages that an entry of the headers lies in.
Protect(mem, entry, size, pg, prot) ==
  [a \in DOMAIN mem |-> IF a \in Down(entry, pg)..(Up(entry + size, pg) - 1) THEN [mem[a] EXCEPT !.prot = prot] ELSE mem[a]]

----------------------------------------------------------------------------
(* What the kernel makes of the same headers *)

\* Byte and protection at an address of ld.so, or 0 and nothing between segments.
KernelByte(ph, pg, len, a) ==
  LET i == SelectInSeq(ph, LAMBDA p : p.type = "LOAD" /\ a \in Down(p.vaddr, pg)..(Up(p.vaddr + p.memsz, pg) - 1))
      p == ph[i]
  IN  IF i = 0 THEN [prot |-> {}, byte |-> 0]
      ELSE [prot |-> p.flags,
            byte |-> IF a < p.vaddr + p.filesz \/ (p.memsz = p.filesz /\ a < Up(p.vaddr + p.filesz, pg))
                     THEN FileByte(len, p.offset + a - p.vaddr) ELSE 0]
=============================================================================
