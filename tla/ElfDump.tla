------------------------------- MODULE ElfDump ------------------------------
(***************************************************************************)
(* Writing the code out as an ELF object file (elf.c, serialise), for a    *)
(* disassembler.  The functions are visited four times, always children    *)
(* first: for their names, their code, their symbols and their section     *)
(* headers, which find each other by counts of what has been written.  The *)
(* file is a sequence of units: a character, an instruction, a symbol and  *)
(* a header are one unit each.                                             *)
(***************************************************************************)
EXTENDS Integers, Sequences, SequencesExt

CONSTANTS
    JfCount,     \* JF_COUNT, the shared functions of every machine
    ArchCount,   \* those of this machine
    JitSize,     \* their size in units
    FputsResult  \* what fputs returns: the C library chooses a number >= 0

VARIABLES
    protos,     \* struct proto, by the way to it from the main one (Loader)
    elf,        \* the object file
    dumped,     \* what has been written: a stage of serialise
    strtabidx,  \* the places of names, of functions and shared functions
    secoff,     \* where the code of a function begins in the file
    mark        \* positions in the file that headers are made of

vars == <<protos, elf, dumped, strtabidx, secoff, mark>>

-----------------------------------------------------------------------------
\* The order of a recursion over children, children first; and the other one.
PostOrder(path) ==
    LET order[p \in DOMAIN protos] ==
            FlattenSeq([i \in 1..protos[p].nrprotos |-> order[Append(p, i)]]) \o <<p>>
    IN  order[path]

PreOrder(path) ==
    LET order[p \in DOMAIN protos] ==
            <<p>> \o FlattenSeq([i \in 1..protos[p].nrprotos |-> order[Append(p, i)]])
    IN  order[path]

All == PostOrder(<<>>)

Units(tag, s) == [i \in DOMAIN s |-> <<tag, s[i]>>]
Sum(s) == FoldLeft(LAMBDA n, m : n + m, 0, s)

-----------------------------------------------------------------------------
\* Text, as ASCII codes.
NulChar == 0
Dot == 46
Digit(n) == 48 + n
Decimal[n \in Nat] == IF n < 10 THEN <<Digit(n)>> ELSE Append(Decimal[n \div 10], Digit(n % 10))

Text == <<46, 116>>      \* ".text"
Strtab == <<46, 115>>    \* ".strtab"
Symtab == <<46, 121>>    \* ".symtab"
CharJ == 74
CharA == 65
CharL == 76

\* dump_label: the numbers on the way from the main function, which is 0.
Numbers(path) == <<0>> \o [i \in DOMAIN path |-> path[i] - 1]
Label(path) ==
    <<CharL>> \o Decimal[0] \o FlattenSeq([i \in DOMAIN path |-> <<Dot>> \o Decimal[path[i] - 1]])

\* What dump_label adds to the count of characters.
LabelCounted(path) ==
    1 + Sum([i \in DOMAIN Numbers(path) |-> Len(Decimal[Numbers(path)[i]])]) + Len(path) * FputsResult + 1

Jit == 0..(JfCount + ArchCount - 1)
JitName(j) == IF j < JfCount THEN <<CharJ>> \o Decimal[j] ELSE <<CharJ, CharA>> \o Decimal[j - JfCount]

-----------------------------------------------------------------------------
\* The machine code of the shared functions and of a function.
JitCode == [k \in 1..Sum([j \in 1..(JfCount + ArchCount) |-> JitSize]) |-> <<"jit", k>>]
JitAddr(j) == j * JitSize
MachineCode(path) == [k \in 0..Len(protos[path].code) |-> <<"code", path, k>>]
CodeUnits(path) == [k \in 1..(Len(protos[path].code) + 1) |-> MachineCode(path)[k - 1]]

\* dump_section, dump_symbol
Section(name, type, off, size, link, info) ==
    <<"section", [name |-> name, type |-> type, off |-> off, size |-> size, link |-> link, info |-> info]>>
Symbol(name, value, section) ==
    <<"symbol", [name |-> name, value |-> value, section |-> section]>>

StrtabIdx == 1
SymtabIdx == 2
FirstLuaSection == 4

Write(units) == elf' = elf \o units
Stage(from, to) == dumped = from /\ dumped' = to
Start == [stoff |-> 0, stend |-> 0, jfuncoff |-> 0, syoff |-> 0, syend |-> 0, sysz |-> 0,
          stridtext |-> 0, stridst |-> 0, stridsyt |-> 0]

Init ==
    /\ elf = <<>>
    /\ dumped = "nothing"
    /\ strtabidx = [jit |-> [j \in Jit |-> 0], lua |-> [path \in {} |-> 0]]
    /\ secoff = [path \in {} |-> 0]
    /\ mark = Start

-----------------------------------------------------------------------------
\* Names: those of sections, of shared functions, and of functions.
Named(names) == FlattenSeq([i \in DOMAIN names |-> Append(names[i], NulChar)])

DumpStrings ==
    /\ Stage("nothing", "strings")
    /\ LET jits == [i \in 1..(JfCount + ArchCount) |-> JitName(i - 1)]
           sections == <<<<>>, Text, Strtab, Symtab>>
           before(i) == Len(Named(SubSeq(sections, 1, i - 1)))
           jitAt(j) == Len(Named(sections \o SubSeq(jits, 1, j)))
           base == jitAt(JfCount + ArchCount)
           luaAt(i) == base + Sum([k \in 1..(i - 1) |-> LabelCounted(All[k])])
       IN  /\ Write(<<<<"hole">>>> \o Units("char", Named(sections \o jits \o [i \in DOMAIN All |-> Label(All[i])])))
           /\ strtabidx' = [jit |-> [j \in Jit |-> jitAt(j)],
                            lua |-> [path \in DOMAIN protos |->
                                        luaAt(CHOOSE i \in DOMAIN All : All[i] = path)]]
           /\ mark' = [mark EXCEPT !.stoff = 1, !.stend = Len(elf'),
                            !.stridtext = before(2), !.stridst = before(3), !.stridsyt = before(4)]
    /\ UNCHANGED <<protos, secoff>>

DumpCode ==
    /\ Stage("strings", "code")
    /\ LET start == Len(elf) + Len(JitCode)
           off(i) == start + Sum([k \in 1..(i - 1) |-> Len(CodeUnits(All[k]))])
       IN  /\ Write(JitCode \o FlattenSeq([i \in DOMAIN All |-> CodeUnits(All[i])]))
           /\ secoff' = [path \in DOMAIN protos |-> off(CHOOSE i \in DOMAIN All : All[i] = path)]
           /\ mark' = [mark EXCEPT !.jfuncoff = Len(elf)]
    /\ UNCHANGED <<protos, strtabidx>>

\* The null symbol is counted, and of the shared functions JF_COUNT.
DumpSymbols ==
    /\ Stage("code", "symbols")
    /\ Write(<<Symbol(0, 0, 0)>>
             \o [i \in 1..(JfCount + ArchCount) |-> Symbol(strtabidx.jit[i - 1], JitAddr(i - 1), SymtabIdx + 1)]
             \o [i \in DOMAIN All |-> Symbol(strtabidx.lua[All[i]], 0, FirstLuaSection + i - 1)])
    /\ mark' = [mark EXCEPT !.syoff = Len(elf), !.syend = Len(elf'), !.sysz = 1 + JfCount + Len(All)]
    /\ UNCHANGED <<protos, strtabidx, secoff>>

\* Mutant: parents first.
EntryOrderPre == PreOrder(<<>>)

\* dump_sectionentry_protos
EntryOrder == All

DumpSections ==
    /\ Stage("symbols", "sections")
    /\ Write(<<Section(0, "null", 0, 0, 0, 0),
               Section(mark.stridst, "strtab", mark.stoff, mark.stend - mark.stoff, 0, 0),
               Section(mark.stridsyt, "symtab", mark.syoff, mark.syend - mark.syoff, StrtabIdx, mark.sysz),
               Section(mark.stridtext, "progbits", mark.jfuncoff, Len(JitCode), SymtabIdx, 0)>>
             \o [i \in DOMAIN EntryOrder |->
                    Section(mark.stridtext, "progbits", secoff[EntryOrder[i]], Len(CodeUnits(EntryOrder[i])),
                            SymtabIdx, 0)])
    /\ UNCHANGED <<protos, strtabidx, secoff, mark>>

\* The header goes to the start of the file, which was skipped.
DumpHeader ==
    /\ Stage("sections", "all")
    /\ elf' = [elf EXCEPT ![1] = <<"header", [shnum |-> 4 + Len(All), shoff |-> mark.syend, shstrndx |-> StrtabIdx]>>]
    /\ UNCHANGED <<protos, strtabidx, secoff, mark>>

Next == DumpStrings \/ DumpCode \/ DumpSymbols \/ DumpSections \/ DumpHeader

-----------------------------------------------------------------------------
\* Reading an object file.
At(off) == elf[off + 1]
Header == At(0)[2]
SectionAt(k) == At(Header.shoff + k)[2]
SymbolAt(k) == At(SectionAt(SymtabIdx).off + k)[2]
Contents(s) == SubSeq(elf, s.off + 1, s.off + s.size)

\* A name in the string table.
HasName(off, name) ==
    SubSeq(elf, SectionAt(StrtabIdx).off + off + 1, SectionAt(StrtabIdx).off + off + Len(name) + 1)
        = Units("char", Append(name, NulChar))

(* A file that is complete has, by its headers, a section with the code of   *)
(* every function and a symbol for that section with the function's label,   *)
(* and a symbol for each shared function at its address (elf.c:121, 155,     *)
(* 165): four traversals and the counts between them agree.                  *)
ObjectFileDescribesCode ==
    dumped = "all" =>
        /\ Header.shoff + Header.shnum = Len(elf)
        /\ HasName(SectionAt(StrtabIdx).name, Strtab) /\ HasName(SectionAt(SymtabIdx).name, Symtab)
        /\ \A path \in DOMAIN protos :
            \E k \in 0..(SectionAt(SymtabIdx).size - 1) :
                LET s == SymbolAt(k)
                IN  /\ s.section \in FirstLuaSection..(Header.shnum - 1)
                    /\ HasName(s.name, Label(path))
                    /\ Contents(SectionAt(s.section)) = CodeUnits(path)
                    /\ HasName(SectionAt(s.section).name, Text)
        /\ \A j \in Jit :
            \E k \in 0..(SectionAt(SymtabIdx).size - 1) :
                LET s == SymbolAt(k)
                IN  /\ s.section = SymtabIdx + 1
                    /\ HasName(s.name, JitName(j))
                    /\ Contents(SectionAt(s.section))[s.value + 1] = JitCode[JitAddr(j) + 1]
=============================================================================
