------------------------------- MODULE Loader -------------------------------
(***************************************************************************)
(* Reading a file of bytecode (main.c).  A function is read by             *)
(* load_function, recursively: its code comes before its constants and the *)
(* functions inside it, but is compiled after them, so that the reader     *)
(* skips it, comes back for it and then goes on where it was.  A file is a *)
(* sequence of items; an item has no tag that says what it is.             *)
(***************************************************************************)
EXTENDS Integers, Sequences, SequencesExt

CONSTANTS
    Chunks,      \* the programs: functions from nodes, of which 1 is the main one
    Headers,     \* what a file may begin with
    GoodHeader,  \* a header that is accepted
    Opcodes,     \* the instructions that there is code for
    Closure,     \* OP_CLOSURE, which is one
    Buffer       \* the size of the buffer for strings that are not kept

VARIABLES
    chunk,    \* the program that is in the file
    file,     \* the items of the file
    pos,      \* the next one (ftell)
    active,   \* calls of load_function that have not returned
    protos,   \* struct proto, by the way to it from the main one
    outcome   \* "loading", "loaded", "rejected", "failed", "aborted" or "crashed"

vars == <<chunk, file, pos, active, protos, outcome>>

\* Types of constants as luac writes them.
NumberTag == 3
StringTag == 4

-----------------------------------------------------------------------------
\* The format: counts come before what they count, strings have their length.
Counted(s) == <<Len(s)>> \o s
Constant(c) == IF c.tag = StringTag THEN <<c.tag, Len(c.text)>> \o c.text ELSE <<c.tag, c.number>>
LocalVar(s) == Counted(s) \o <<0, 0>>

\* Programs are sequences of functions, each with those inside it further on.
\* A constant has the tag of its type and, unless it is a string, one word.
IsList(s) == s \in Seq(Range(s))
IsConstant(c) ==
    IF c.tag = StringTag
    THEN c = [tag |-> StringTag, text |-> c.text] /\ IsList(c.text)
    ELSE c = [tag |-> c.tag, number |-> c.number]
IsProgram(c) ==
    /\ IsList(c) /\ c # <<>>
    /\ \A n \in DOMAIN c :
        /\ IsList(c[n].code) /\ IsList(c[n].constants) /\ IsList(c[n].upvalues) /\ IsList(c[n].source)
        /\ IsList(c[n].lines) /\ IsList(c[n].locals) /\ IsList(c[n].names)
        /\ \A i \in DOMAIN c[n].constants : IsConstant(c[n].constants[i])
        /\ \A i \in DOMAIN c[n].locals : IsList(c[n].locals[i])
        /\ \A i \in DOMAIN c[n].names : IsList(c[n].names[i])
        /\ c[n].kids \in Seq((n + 1)..Len(c))

\* The items of a function, given those of the functions inside it.
FunctionItems(p, kids) ==
    <<0, 0, p.numparams, 0, p.maxstacksize>>
    \o Counted(p.code)
    \o <<Len(p.constants)>> \o FlattenSeq([i \in DOMAIN p.constants |-> Constant(p.constants[i])])
    \o <<Len(p.kids)>> \o FlattenSeq(kids)
    \o Counted(p.upvalues)
    \o Counted(p.source)
    \o Counted(p.lines)
    \o <<Len(p.locals)>> \o FlattenSeq([i \in DOMAIN p.locals |-> LocalVar(p.locals[i])])
    \o <<Len(p.names)>> \o FlattenSeq([i \in DOMAIN p.names |-> Counted(p.names[i])])

Dump(c) ==
    LET dump[n \in DOMAIN c] == FunctionItems(c[n], [i \in DOMAIN c[n].kids |-> dump[c[n].kids[i]]])
    IN  dump[1]

-----------------------------------------------------------------------------
\* The innermost call, and the items before it.
this == active[Len(active)]
proto == protos[this.path]
Item(k) == file[pos + k]
Items(k, n) == SubSeq(file, pos + k, pos + k + n - 1)

Loading(step) == outcome = "loading" /\ active # <<>> /\ this.step = step
Advance(k) == pos' = pos + k
Becomes(call) == active' = [active EXCEPT ![Len(active)] = call]
Go(step) == Becomes([this EXCEPT !.step = step, !.i = 0])
Turn == Becomes([this EXCEPT !.i = @ + 1])
Set(p) == protos' = [protos EXCEPT ![this.path] = p]
Stop(result) == outcome' = result /\ UNCHANGED <<pos, active, protos>>
Same == UNCHANGED <<chunk, file, outcome>>

Blank == [numparams |-> 0, maxstacksize |-> 0, sizecode |-> 0, code |-> <<>>, nrconstants |-> 0,
          constants |-> <<>>, nrprotos |-> 0, upvalues |-> <<>>]

\* load_function begins with nothing read.
LoadFunction(path) == [path |-> path, step |-> "members", i |-> 0, n |-> 0, seek |-> 0, end |-> 0]

ValidateHeader ==
    /\ outcome = "loading" /\ active = <<>>
    /\ IF file[1] = GoodHeader
       THEN /\ pos' = 2
            /\ active' = <<LoadFunction(<<>>)>>
            /\ protos' = [path \in {<<>>} |-> Blank]
            /\ UNCHANGED outcome
       ELSE Stop("rejected")
    /\ UNCHANGED <<chunk, file>>

\* The members of the function and the length of its code, which is skipped.
LoadMembers ==
    /\ Loading("members")
    /\ Set([proto EXCEPT !.numparams = Item(2), !.maxstacksize = Item(4), !.sizecode = Item(5)])
    /\ Advance(6 + Item(5))
    /\ Becomes([this EXCEPT !.step = "nrconstants", !.seek = pos + 6])
    /\ Same

CountConstants ==
    /\ Loading("nrconstants")
    /\ Set([proto EXCEPT !.nrconstants = Item(0)])
    /\ Advance(1)
    /\ Go("constants")
    /\ Same

Kept(c) == Set([proto EXCEPT !.constants = Append(@, c)])

\* Only numbers and strings are known.
LoadConstant ==
    /\ Loading("constants")
    /\ this.i < proto.nrconstants
    /\ \/ Item(0) = NumberTag /\ Kept([tag |-> NumberTag, number |-> Item(1)]) /\ Advance(2) /\ Turn /\ Same
       \/ /\ Item(0) = StringTag
          /\ Kept([tag |-> StringTag, text |-> Items(2, Item(1))])
          /\ Advance(2 + Item(1))
          /\ Turn
          /\ Same
       \/ Item(0) \notin {NumberTag, StringTag} /\ Stop("aborted") /\ UNCHANGED <<chunk, file>>

\* load_prototypes: the memory for them may not be there.
LoadPrototypes ==
    /\ Loading("constants")
    /\ this.i = proto.nrconstants
    /\ \/ /\ Set([proto EXCEPT !.nrprotos = Item(0)])
          /\ Advance(1)
          /\ Go("prototypes")
          /\ Same
       \/ Stop("failed") /\ UNCHANGED <<chunk, file>>

LoadChild ==
    /\ Loading("prototypes")
    /\ this.i < proto.nrprotos
    /\ LET path == Append(this.path, this.i + 1)
       IN  /\ active' = Append([active EXCEPT ![Len(active)].i = @ + 1], LoadFunction(path))
           /\ protos' = [q \in DOMAIN protos \cup {path} |-> IF q = path THEN Blank ELSE protos[q]]
    /\ UNCHANGED pos
    /\ Same

\* Back to the code.
Rewind ==
    /\ Loading("prototypes")
    /\ this.i = proto.nrprotos
    /\ pos' = this.seek
    /\ Becomes([this EXCEPT !.step = "code", !.i = 0, !.end = pos])
    /\ UNCHANGED protos
    /\ Same

\* A closure is made of a function that has been loaded.
JitInstruction ==
    /\ Loading("code")
    /\ this.i < proto.sizecode
    /\ IF Item(0)[1] \in Opcodes /\ (Item(0)[1] = Closure => Item(0)[2] < proto.nrprotos)
       THEN /\ Set([proto EXCEPT !.code = Append(@, Item(0))])
            /\ Advance(1)
            /\ Turn
            /\ Same
       ELSE Stop("aborted") /\ UNCHANGED <<chunk, file>>

\* Mutant: the reader stays behind the code.
AfterCodeHere == pos

\* Where load_code leaves the file.
AfterCode == this.end

CodeLoaded ==
    /\ Loading("code")
    /\ this.i = proto.sizecode
    /\ pos' = AfterCode
    /\ Go("upvalues")
    /\ UNCHANGED protos
    /\ Same

\* load_upvalues: that the memory is not there is not noticed.
LoadUpvalues ==
    /\ Loading("upvalues")
    /\ \/ /\ Set([proto EXCEPT !.upvalues = Items(1, Item(0))])
          /\ Advance(1 + Item(0))
          /\ Go("debug")
          /\ Same
       \/ Item(0) > 0 /\ Stop("crashed") /\ UNCHANGED <<chunk, file>>

\* load_static_string: what the buffer takes, and the rest that it does not.
Static(k) ==
    LET size == Item(k)
        read == IF size < Buffer THEN size ELSE Buffer
        skip == IF size - Buffer > 0 THEN size - Buffer ELSE 0
    IN  1 + read + skip

\* The name of the source, the lines, and the number of local variables.
IgnoreSource ==
    /\ Loading("debug")
    /\ LET lines == Static(0)
           locals == lines + 1 + Item(lines)
       IN  /\ Advance(locals + 1)
           /\ Becomes([this EXCEPT !.step = "locals", !.i = 0, !.n = Item(locals)])
    /\ UNCHANGED protos
    /\ Same

IgnoreLocal ==
    /\ Loading("locals")
    /\ this.i < this.n
    /\ Advance(Static(0) + 2)
    /\ Turn
    /\ UNCHANGED protos
    /\ Same

CountNames ==
    /\ Loading("locals")
    /\ this.i = this.n
    /\ Advance(1)
    /\ Becomes([this EXCEPT !.step = "names", !.i = 0, !.n = Item(0)])
    /\ UNCHANGED protos
    /\ Same

IgnoreName ==
    /\ Loading("names")
    /\ this.i < this.n
    /\ Advance(Static(0))
    /\ Turn
    /\ UNCHANGED protos
    /\ Same

FunctionLoaded ==
    /\ Loading("names")
    /\ this.i = this.n
    /\ active' = SubSeq(active, 1, Len(active) - 1)
    /\ outcome' = IF Len(active) = 1 THEN "loaded" ELSE outcome
    /\ UNCHANGED <<chunk, file, pos, protos>>

-----------------------------------------------------------------------------
Init ==
    /\ chunk \in Chunks
    /\ \E header \in Headers : file = <<header>> \o Dump(chunk)
    /\ pos = 1
    /\ active = <<>>
    /\ protos = <<>>
    /\ outcome = "loading"

Next ==
    \/ ValidateHeader \/ LoadMembers \/ CountConstants \/ LoadConstant \/ LoadPrototypes \/ LoadChild
    \/ Rewind \/ JitInstruction \/ CodeLoaded \/ LoadUpvalues
    \/ IgnoreSource \/ IgnoreLocal \/ CountNames \/ IgnoreName \/ FunctionLoaded

Spec == Init /\ [][Next]_vars

-----------------------------------------------------------------------------
\* The node of the program at the end of a way.
NodeAt(path) ==
    LET node[k \in 0..Len(path)] == IF k = 0 THEN 1 ELSE chunk[node[k - 1]].kids[path[k]]
    IN  node[Len(path)]

\* What is kept of a function is what the program has.
IsFunction(p, q) ==
    /\ p.numparams = q.numparams /\ p.maxstacksize = q.maxstacksize
    /\ p.code = q.code /\ p.constants = q.constants /\ p.upvalues = q.upvalues
    /\ p.nrprotos = Len(q.kids)

(* Reading stays within the file.  A file that is loaded has been read to    *)
(* its end, and every function got its own code, constants, upvalues and     *)
(* functions, however deep it lies and however long the names are that the   *)
(* reader skips (main.c:163, 225, 404).                                      *)
LoadedExactly ==
    /\ pos \in 1..(Len(file) + 1)
    /\ outcome = "loaded" =>
        /\ pos = Len(file) + 1
        /\ \A path \in DOMAIN protos :
            /\ IsFunction(protos[path], chunk[NodeAt(path)])
            /\ \A i \in DOMAIN chunk[NodeAt(path)].kids : Append(path, i) \in DOMAIN protos
=============================================================================
