----------------------------- MODULE MCSgxMesa -----------------------------
(* Small instances of the Mesa driver's modules for TLC, one at a time: the *)
(* buffers of SgxBuffers, its textures (together they are too many states), *)
(* textures of two contexts, of a draw in a batch at most, and the          *)
(* compiler's temporaries.  Contexts use all resources (Everything) or each *)
(* its own (ItsOwn).  Pieces of memory are interchangeable.                 *)
EXTENDS SgxBuffers, SgxRegs

CONSTANTS Machines, c1, c2, vb, tx, ty, b1, b2, b3

VARIABLE machine

TwoCtxs == {c1, c2}
OneBuf == {vb}
OneTex == {tx}
TwoTexs == {tx, ty}
NoTex == {}
Everything == [c \in Ctxs |-> Res]
ItsOwn == [c \in Ctxs |-> IF c = c1 THEN {vb, tx} ELSE {ty}]
ThreeBos == {b1, b2, b3}
SomeOrAll == {{1}, Parts}
BoSymmetry == Permutations(Bos)

(* A straight shader; an if; a loop; a loop in a loop; a phi's register.    *)
Plain == {"fmul", "word"}
Instr == Plain \cup {"fcsel", "tex", "ubo"}
Quit == <<{"if"}, {"break"}, {"end"}, {"again"}>>
Shapes ==
    {<<Instr, Instr, Instr, {"out"}>>,
     <<Plain, {"if"}, Instr, {"else"}, Instr, {"end"}, Plain, {"out"}>>,
     <<Plain, {"loop"}, Instr, Plain>> \o Quit \o <<{"out"}>>,
     <<Plain, {"loop"}, {"loop"}, Instr>> \o Quit \o <<Plain>> \o Quit \o <<{"out"}>>,
     <<{"decl"}, Plain, {"keep"}, {"loop"}, {"copy"}, Plain, {"keep"}>> \o Quit
         \o <<{"copy"}, {"out"}>>}

MCInit ==
    /\ machine \in Machines
    /\ BuffersInit /\ RegsInit
    /\ machine # "regs" => outline = CHOOSE o \in Outlines : TRUE

MCNext ==
    /\ \/ machine = "bufs" /\ BuffersStep(Bufs) /\ UNCHANGED regsVars
       \/ machine = "texs" /\ BuffersStep({tx}) /\ UNCHANGED regsVars
       \/ machine = "both" /\ BuffersStep(Texs) /\ UNCHANGED regsVars
             /\ \A c \in Ctxs : Len(batch'[c].draws) <= 1
       \/ machine = "regs" /\ RegsNext /\ UNCHANGED bufferVars
    /\ UNCHANGED machine

(* What the render showed is written by each step of the buffers, and read  *)
(* by none.                                                                 *)
View == <<data, copy, maps, pool, batch, want, marks, last, queue, regsVars, machine>>

MCSpec == MCInit /\ [][MCNext]_<<bufferVars, regsVars, machine>>
=============================================================================
