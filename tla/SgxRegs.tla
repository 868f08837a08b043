------------------------------ MODULE SgxRegs ------------------------------
(* The Mesa driver's compiler gives a shader's values their temporaries in  *)
(* the order NIR has them (sgx_compiler.c): one walk notes the last         *)
(* instruction that reads each value; a second makes the code, takes free   *)
(* temporaries for the values an instruction makes and gives each back      *)
(* after that last read.  Here: any small shader with ifs and loops, its    *)
(* translation, and a run of the code along any of its branches.            *)
(*                                                                          *)
(* A value is the number of its making, an instruction's index its place in *)
(* the shader; a temporary holds the value's name.                          *)
EXTENDS Integers, FiniteSets, SequencesExt

CONSTANTS
    MaxTemps,    \* MAX_TEMPS
    ColourLen,   \* the colour's components: 4 in the code
    TexelLen,    \* the words of a texel, or of a uniform buffer's load
    Outlines,    \* bound: the shaders' instructions, which may stand at each place
    MaxValues,   \* bound: the values a shader makes
    UboOffsets   \* uniform buffers are read at offsets the shader computes

ASSUME RegsAssumption ==
    /\ {MaxTemps, MaxValues} \subseteq Nat /\ {ColourLen, TexelLen} \subseteq Nat \ {0}
    /\ UboOffsets \in BOOLEAN

Temps == 0 .. MaxTemps - 1
NoTemp == -1
Values == 1 .. MaxValues
Word == 0        \* what a temporary made for one instruction holds
Web == -1        \* what the declared register (a phi web's) holds

VARIABLES
    phase,    \* the shader is written, translated, run, over -- or too big
    shader,   \* NIR: [op, reads, makes, of, sees], "of" the construct it closes or
              \* leaves, "sees" the values it might read
    outline,  \* of Outlines, this shader's
    open,     \* the ifs and loops being written
    seen,     \* the values an instruction written now may read
    lastUse,  \* the last instruction that reads a value (0: none)
    at,       \* the instruction being translated, or run
    temps,    \* the allocation: [used, loc, owned, out]
    code,     \* what each instruction became: moves [reads, writes]
    step,     \* the next of its moves
    regs      \* what the temporaries hold

writeVars == <<shader, outline, open, seen>>
codeVars == <<lastUse, temps, code>>
runVars == <<step, regs>>
regsVars == <<phase, at, writeVars, codeVars, runVars>>

(* One temporary's new content; what temporaries hold under newer contents. *)
Only(r, v) == [x \in {r} |-> v]
Over(f, g) == [x \in DOMAIN f \cup DOMAIN g |-> IF x \in DOMAIN f THEN f[x] ELSE g[x]]

NoTemps == [used |-> {}, loc |-> <<>>, owned |-> {}, out |-> NoTemp]

RegsInit ==
    /\ phase = "write" /\ shader = <<>> /\ outline \in Outlines /\ open = <<>> /\ seen = {}
    /\ lastUse = <<>> /\ at = 1 /\ temps = NoTemps /\ code = <<>>
    /\ step = 1 /\ regs = <<>>

-----------------------------------------------------------------------------
(* NIR out of SSA (external): any shader.  A value is read where it was     *)
(* made on every way there; phi webs are a declared register, stored before *)
(* it is loaded; the colour is stored at the end.                           *)

Makes(op) == CASE op \in {"fmul", "fcsel", "word", "copy"} -> 1
               [] op \in {"tex", "ubo"} -> TexelLen
               [] OTHER -> 0

Sources(op) ==   \* how many values it may read, with constants and inputs
    CASE op = "fmul" -> 0 .. 2
      [] op = "word" -> 0 .. 1
      [] op = "ubo" -> IF UboOffsets THEN 0 .. 1 ELSE {0}
      [] op \in {"fcsel", "tex", "keep", "if"} -> {1}
      [] op = "out" -> {ColourLen}
      [] OTHER -> {0}

Made == Max({0} \cup UNION {Range(shader[i].makes) : i \in DOMAIN shader})
Ended == shader # <<>> /\ Last(shader).op \in {"break", "out"}
Top == Last(open)

Written(op, reads, of) ==
    /\ phase = "write" /\ Len(shader) < Len(outline) /\ op \in outline[Len(shader) + 1]
    /\ Made + Makes(op) <= MaxValues
    /\ shader' = Append(shader, [op |-> op, reads |-> reads, of |-> of,
                                 makes |-> [k \in 1 .. Makes(op) |-> Made + k],
                                 sees |-> IF op \in {"else", "end"} THEN Top.seen ELSE seen])
    /\ UNCHANGED <<phase, at, outline, codeVars, runVars>>

WriteInstr(op) ==
    /\ ~Ended
    /\ op = "decl" => shader = <<>>
    /\ op = "keep" => shader # <<>> /\ shader[1].op = "decl"
    /\ op = "copy" => \E i \in DOMAIN shader : shader[i].op = "keep"
    /\ op = "out" => open = <<>>
    /\ \E n \in Sources(op) : \E reads \in [1 .. n -> seen] :
          /\ op = "fmul" /\ n = 2 => reads[1] < reads[2]
          /\ Written(op, reads, 0)
    /\ seen' = seen \cup (Made + 1 .. Made + Makes(op))
    /\ UNCHANGED open

WriteOpen(op) ==
    /\ ~Ended
    /\ \E n \in Sources(op) : \E reads \in [1 .. n -> seen] : Written(op, reads, 0)
    /\ open' = Append(open, [op |-> op, at |-> Len(shader) + 1, seen |-> seen, out |-> Values])
    /\ UNCHANGED seen

WriteElse ==
    /\ open # <<>> /\ Top.op = "if"
    /\ Written("else", <<>>, Top.at)
    /\ open' = Append(Front(open), [Top EXCEPT !.op = "else"])
    /\ seen' = Top.seen

WriteEnd ==
    /\ open # <<>> /\ Top.op \in {"if", "else"}
    /\ Written("end", <<>>, Top.at)
    /\ open' = Front(open)
    /\ seen' = Top.seen

WriteBreak ==
    /\ ~Ended
    /\ LET loops == {i \in DOMAIN open : open[i].op = "loop"}
       IN /\ loops # {}
          /\ Written("break", <<>>, open[Max(loops)].at)
          /\ open' = [open EXCEPT ![Max(loops)].out = @ \cap seen]
    /\ UNCHANGED seen

WriteAgain ==
    /\ open # <<>> /\ Top.op = "loop" /\ Top.out # Values
    /\ Written("again", <<>>, Top.at)
    /\ open' = Front(open)
    /\ seen' = Top.out

WriteNext ==
    \/ \E op \in {"fmul", "fcsel", "word", "tex", "ubo", "decl", "keep", "copy", "out"} :
          WriteInstr(op)
    \/ \E op \in {"if", "loop"} : WriteOpen(op)
    \/ WriteElse \/ WriteEnd \/ WriteBreak \/ WriteAgain

-----------------------------------------------------------------------------
(* The liveness: WALK_NUMBER and WALK_USES.                                 *)

(* What the walks are told an instruction reads: of a uniform buffer's      *)
(* load nothing, not even its offset.                                       *)
ForEachRead(i) == IF shader[i].op = "ubo" THEN {} ELSE Range(shader[i].reads)

DefAt(v) == CHOOSE i \in DOMAIN shader : v \in Range(shader[i].makes)
End(l) == CHOOSE j \in DOMAIN shader : shader[j].op = "again" /\ shader[j].of = l

(* The loops around an instruction that start after the value was made:     *)
(* every iteration reads it, so it lives to the end of the outermost.       *)
LoopsSince(v, i) == {l \in DefAt(v) + 1 .. i - 1 : shader[l].op = "loop" /\ i < End(l)}
NoteUseInner(v, i) == IF LoopsSince(v, i) = {} THEN i ELSE End(Max(LoopsSince(v, i)))   \* mutant
NoteUse(v, i) == IF LoopsSince(v, i) = {} THEN i ELSE End(Min(LoopsSince(v, i)))

LastUse(v) ==
    Max({0} \cup {NoteUse(v, i) : i \in {j \in DOMAIN shader : v \in ForEachRead(j)}})

Translate ==
    /\ phase = "write" /\ open = <<>> /\ shader # <<>> /\ Last(shader).op = "out"
    /\ phase' = "translate"
    /\ lastUse' = [v \in 1 .. Made |-> LastUse(v)]
    /\ UNCHANGED <<at, writeVars, temps, code, runVars>>

-----------------------------------------------------------------------------
(* The code: WALK_CODE.                                                     *)

Now == shader[at]
Loc(v) == temps.loc[v]
Odd(r) == r % 2 = 1

(* block(): the first n free temporaries in a row from a multiple of align. *)
Free(used, n, align) ==
    {r \in Temps : r % align = 0 /\ r + n <= MaxTemps /\ r .. r + n - 1 \cap used = {}}

(* n temporaries from a multiple of align, or none of them.                *)
Take(used, ask) ==
    LET free == Free(used, ask[1], ask[2])
        r == IF free = {} THEN NoTemp ELSE Min(free)
    IN [at |-> r, used |-> used \cup IF r = NoTemp THEN {} ELSE r .. r + ask[1] - 1]

Pair == <<ColourLen, 2>>
Even == <<1, 2>>
Single == <<1, 1>>
Texel == <<TexelLen, TexelLen>>
Row == <<TexelLen, 1>>

Move(reads, writes) == [reads |-> reads, writes |-> writes]
Is(v) == <<Loc(v), v>>
Sets(r, n) == [k \in r .. r + n - 1 |-> Now.makes[k - r + 1]]
Homes(r) == [v \in Range(Now.makes) |-> r + v - Now.makes[1]]

(* What was read for the last time gives its temporary back, but the        *)
(* colour's values stay until output() has moved them.                      *)
Colour == Last(shader).reads
Stays(v) == Now.op = "out" /\ v \in Range(Colour)
Release(t, who) ==
    LET dead == {v \in t.owned \cap who : lastUse[v] = at /\ ~Stays(v)}
    IN [t EXCEPT !.used = @ \ {t.loc[v] : v \in dead}, !.owned = @ \ dead]

(* An instruction becomes its moves: what it takes, one after the other,   *)
(* it has all or the shader is too big.  It gives its scratch back, then    *)
(* the values it makes that nobody reads, then what it read last.           *)
Emit(t, takes, scratch, home, moves) ==
    LET dead == {v \in DOMAIN home : lastUse[v] = 0}
        used == t.used \cup UNION {a.used : a \in takes}
    IN IF \E a \in takes : a.at = NoTemp
       THEN phase' = "too big" /\ UNCHANGED <<at, temps, code>>
       ELSE /\ temps' = Release([t EXCEPT !.used = used \ (scratch \cup {home[v] : v \in dead}),
                                          !.loc = Over(home, @),
                                          !.owned = @ \cup (DOMAIN home \ dead)],
                                ForEachRead(at))
            /\ code' = Append(code, moves)
            /\ at' = at + 1
            /\ UNCHANGED phase

Translating(op) ==
    /\ phase = "translate" /\ at <= Len(shader) /\ Now.op = op
    /\ UNCHANGED <<writeVars, lastUse, runVars>>

(* The colour's temporaries are taken at the first of its values that an    *)
(* instruction makes in its place; without room they come at the end.       *)
NoRoom == -2
ColourId(v) == IF shader[DefAt(v)].op = "fmul" /\ v \in Range(Colour)
               THEN Min({i \in DOMAIN Colour : Colour[i] = v}) ELSE 0
OutBase ==
    LET r == Take(temps.used, Pair).at
    IN IF temps.out # NoTemp THEN temps.out ELSE IF r = NoTemp THEN NoRoom ELSE r

FMulColour ==
    /\ Translating("fmul") /\ ColourId(Now.makes[1]) # 0 /\ OutBase >= 0
    /\ LET v == Now.makes[1]
           r == OutBase + ColourId(v) - 1
           t == [temps EXCEPT !.used = @ \cup (OutBase .. OutBase + ColourLen - 1),
                              !.loc = Over(Only(v, r), @), !.out = OutBase]
       IN Emit(t, {}, {}, <<>>,
               <<Move({Is(s) : s \in Range(Now.reads)}, Only(r, v))>>)

FMul ==
    /\ Translating("fmul") /\ (ColourId(Now.makes[1]) # 0 => OutBase = NoRoom)
    /\ LET a == Take(temps.used, Even)
           t == IF ColourId(Now.makes[1]) # 0 THEN [temps EXCEPT !.out = NoRoom] ELSE temps
       IN Emit(t, {a}, {}, Homes(a.at), <<Move({Is(s) : s \in Range(Now.reads)}, Sets(a.at, 1))>>)

(* A select: its test in an even temporary, and a constant in another.      *)
FCsel ==
    /\ Translating("fcsel")
    /\ LET s == Now.reads[1]
           a == Take(temps.used, Even)
           b == Take(a.used, Even)
           c == Take(b.used, Even)
       IN IF Odd(Loc(s))
          THEN Emit(temps, {a, b, c}, {a.at, b.at}, Homes(c.at),
                    <<Move({Is(s)}, Only(a.at, s)), Move({}, Only(b.at, Word)),
                      Move({<<a.at, s>>, <<b.at, Word>>}, Sets(c.at, 1))>>)
          ELSE Emit(temps, {a, b}, {a.at}, Homes(b.at),
                    <<Move({}, Only(a.at, Word)), Move({Is(s), <<a.at, Word>>}, Sets(b.at, 1))>>)

(* An integer instruction's word may be in an odd one (define_word).        *)
IntWord ==
    /\ Translating("word")
    /\ LET a == Take(temps.used, Single)
       IN Emit(temps, {a}, {}, Homes(a.at), <<Move({Is(s) : s \in Range(Now.reads)}, Sets(a.at, 1))>>)

(* A lookup: its coordinate moved, the raw texel, its words.                *)
Texture ==
    /\ Translating("tex")
    /\ LET s == Now.reads[1]
           c == Take(temps.used, Even)
           d == Take(c.used, Texel)
           raw == Take(d.used, Even)
       IN Emit(temps, {c, d, raw}, {c.at, raw.at}, Homes(d.at),
               <<Move({Is(s)}, Only(c.at, s)), Move({<<c.at, s>>}, Only(raw.at, Word)),
                 Move({<<raw.at, Word>>}, Sets(d.at, TexelLen))>>)

(* A uniform buffer's words, at a constant offset or at the program's.      *)
UboLoad ==
    /\ Translating("ubo")
    /\ LET r == Take(temps.used, Row)
           o == Take(r.used, Even)
       IN IF Now.reads = <<>>
          THEN Emit(temps, {r}, {}, Homes(r.at), <<Move({}, Sets(r.at, TexelLen))>>)
          ELSE Emit(temps, {r, o}, {o.at}, Homes(r.at),
                    <<Move({Is(Now.reads[1])}, Only(o.at, Word)),
                      Move({<<o.at, Word>>}, Sets(r.at, TexelLen))>>)

(* A phi web's register, the whole program long; stores to it, and loads,   *)
(* copies: "the register changes while the value may still be read".        *)
DeclReg ==
    /\ Translating("decl")
    /\ LET a == Take(temps.used, Even)
       IN Emit([temps EXCEPT !.loc = Over(Only(Web, a.at), @)], {a}, {}, <<>>,
               <<Move({}, Only(a.at, Web))>>)

StoreReg ==
    /\ Translating("keep")
    /\ Emit(temps, {}, {}, <<>>, <<Move({Is(Now.reads[1])}, Only(Loc(Web), Web))>>)

LoadReg ==
    /\ Translating("copy")
    /\ IF lastUse[Now.makes[1]] = 0
       THEN Emit(temps, {}, {}, <<>>, <<>>)
       ELSE LET a == Take(temps.used, Even)
            IN Emit(temps, {a}, {}, Homes(a.at), <<Move({Is(Web)}, Sets(a.at, 1))>>)

(* An if's test; the other marks make branches, which have no temporaries.  *)
Test ==
    /\ Translating("if")
    /\ Emit(temps, {}, {}, <<>>, <<Move({Is(Now.reads[1])}, <<>>)>>)

Branches ==
    /\ \E op \in {"else", "end", "loop", "break", "out"} : Translating(op)
    /\ Emit(temps, {}, {}, <<>>, <<>>)

LoopEndKeeps ==                                                    \* mutant
    Translating("again") /\ Emit(temps, {}, {}, <<>>, <<>>)

(* A loop's end gives back what was kept alive for the loop.                *)
LoopEnd ==
    /\ Translating("again")
    /\ temps' = Release(temps, temps.owned)
    /\ code' = Append(code, <<>>)
    /\ at' = at + 1
    /\ UNCHANGED phase

(* The colour's values that are not in their place are moved there.         *)
Output ==
    /\ phase = "translate" /\ at > Len(shader)
    /\ LET base == IF temps.out >= 0 THEN temps.out ELSE Take(temps.used, Pair).at
           InPlace(i) == ColourId(Colour[i]) = i /\ Loc(Colour[i]) = base + i - 1
       IN IF base = NoTemp
          THEN phase' = "too big" /\ UNCHANGED <<at, code, regs>>
          ELSE /\ phase' = "run" /\ at' = 1
               /\ code' = Append(code,
                      Append([i \in DOMAIN Colour |->
                                  IF InPlace(i) THEN Move({}, <<>>)
                                  ELSE Move({Is(Colour[i])}, Only(base + i - 1, Colour[i]))],
                             Move({<<base + i - 1, Colour[i]>> : i \in DOMAIN Colour}, <<>>)))
               /\ regs' = [r \in Temps |-> Word]
    /\ UNCHANGED <<writeVars, lastUse, temps, step>>

CodeNext ==
    \/ FMulColour \/ FMul \/ FCsel \/ IntWord \/ Texture \/ UboLoad
    \/ DeclReg \/ StoreReg \/ LoadReg \/ Test \/ Branches \/ LoopEnd \/ Output

-----------------------------------------------------------------------------
(* The code runs (external): every branch either way.                       *)

Follow(i) ==
    LET op == shader[i].op
        marks(l) == {j \in DOMAIN shader : shader[j].of = l}
    IN CASE op = "if" -> {i + 1, Min(marks(i)) + 1}
         [] op = "else" -> {Max(marks(shader[i].of))}
         [] op = "again" -> {shader[i].of}
         [] op = "break" -> {End(shader[i].of) + 1}
         [] OTHER -> {i + 1}

RunMove ==
    /\ phase = "run" /\ step <= Len(code[at])
    /\ regs' = Over(code[at][step].writes, regs)
    /\ step' = step + 1
    /\ UNCHANGED <<phase, at, writeVars, codeVars>>

RunOn ==
    /\ phase = "run" /\ step > Len(code[at])
    /\ IF at > Len(shader) THEN phase' = "over" /\ at' = at
       ELSE phase' = phase /\ at' \in Follow(at)
    /\ step' = 1
    /\ UNCHANGED <<regs, writeVars, codeVars>>

RegsNext == WriteNext \/ Translate \/ CodeNext \/ RunMove \/ RunOn

RegsSpec == RegsInit /\ [][RegsNext]_regsVars

-----------------------------------------------------------------------------
(* Whatever the shader and its branches, an instruction that reads a value  *)
(* finds it where the translation put it: no temporary is given to another  *)
(* value while its own is still read, in this iteration or a later one.     *)
ReadsItsValue ==
    phase = "run" /\ step <= Len(code[at]) =>
        \A read \in code[at][step].reads : regs[read[1]] = read[2]

(* Between two instructions the temporaries taken are those of the values   *)
(* that are still read, each one's own, the colour's and the declared       *)
(* register's: none is given back twice, none is forgotten.                 *)
NoTempLeft ==
    phase = "translate" =>
        LET held == {temps.loc[v] : v \in temps.owned}
            out == IF temps.out >= 0 THEN temps.out .. temps.out + ColourLen - 1 ELSE {}
            web == IF Web \in DOMAIN temps.loc THEN {Loc(Web)} ELSE {}
        IN /\ temps.used = held \cup out \cup web
           /\ Cardinality(temps.used) =
                  Cardinality(temps.owned) + Cardinality(out) + Cardinality(web)
           /\ \A v \in temps.owned : lastUse[v] >= at \/ at > Len(shader)
=============================================================================
