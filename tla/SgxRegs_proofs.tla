-------------------------- MODULE SgxRegs_proofs --------------------------
(***************************************************************************)
(* The compiler's allocation of temporaries is right for every shader,     *)
(* every number of temporaries and every length of the colour and of a     *)
(* texel: between two instructions none is lost or given back twice, and   *)
(* an instruction that reads a value finds it, whichever branches run.     *)
(*                                                                         *)
(* The invariant has four parts.  ShaderInv is what NIR promises of its    *)
(* shaders: values are made once, in order, and seen where every way there *)
(* has made them.  LastUses says what the liveness walk notes: a value     *)
(* that a loop's iterations read lives to the loop's end.  Allocated says  *)
(* that every value still to be read has a temporary of its own.  Coded    *)
(* says of the moves each instruction became that they read what it makes  *)
(* or what was wanted when it started, and disturb nothing that is wanted  *)
(* after it.  While the code runs, Kept and Ran tie the temporaries to     *)
(* both: what is wanted is there, and what this instruction's moves wrote. *)
(***************************************************************************)
EXTENDS SgxRegs, FiniteSetTheorems, SequenceTheorems, WellFoundedInduction, TLAPS

-----------------------------------------------------------------------------
(* The least and the greatest of some numbers, by well-founded descent.    *)
LEMMA LeastExists ==
    ASSUME NEW S \in SUBSET Nat, S # {}
    PROVE  \E x \in S : \A y \in S : x <= y
<1>1. PICK x \in S : \A y \in S : ~(<<y, x>> \in OpToRel(<, Nat))
  BY NatLessThanWellFounded, WFMin
<1>2. \A y \in S : ~(y < x)
  BY <1>1 DEF OpToRel
<1> QED BY <1>2

LEMMA MinOf ==
    ASSUME NEW S \in SUBSET Nat, S # {}
    PROVE  Min(S) \in S /\ \A x \in S : Min(S) <= x
BY LeastExists DEF Min

LEMMA MaxOf ==
    ASSUME NEW n \in Nat, NEW S \in SUBSET (0 .. n), S # {}
    PROVE  Max(S) \in S /\ \A x \in S : x <= Max(S)
<1> DEFINE D == {n - x : x \in S}
<1>1. D \in SUBSET Nat
  <2>1. \A x \in S : n - x \in Nat OBVIOUS
  <2> QED BY <2>1
<1>2. D # {} OBVIOUS
<1>3. PICK d \in D : \A y \in D : d <= y BY <1>1, <1>2, LeastExists
<1>4. PICK m \in S : d = n - m BY <1>3
<1>5. \A x \in S : m >= x
  <2> TAKE x \in S
  <2>1. d <= n - x BY <1>3
  <2> QED BY <2>1, <1>4
<1> QED BY <1>5 DEF Max

(* The stack of open constructs: its top and what is under it.             *)
LEMMA SeqEnds ==
    ASSUME NEW S, NEW s \in Seq(S), s # <<>>
    PROVE  /\ Len(s) \in Nat \ {0} /\ Last(s) = s[Len(s)] /\ Last(s) \in S
           /\ Front(s) \in Seq(S) /\ Len(Front(s)) = Len(s) - 1
           /\ \A i \in 1 .. Len(s) - 1 : Front(s)[i] = s[i]
<1>1. Len(s) \in Nat \ {0} /\ \A i \in 1 .. Len(s) : s[i] \in S
  OBVIOUS
<1>2. Last(s) = s[Len(s)] /\ Last(s) \in S
  BY <1>1 DEF Last
<1>3. /\ SubSeq(s, 1, Len(s) - 1) \in Seq(S)
      /\ Len(SubSeq(s, 1, Len(s) - 1)) = IF 1 <= Len(s) - 1 THEN Len(s) - 1 - 1 + 1 ELSE 0
      /\ \A i \in 1 .. Len(s) - 1 - 1 + 1 : SubSeq(s, 1, Len(s) - 1)[i] = s[1 + i - 1]
  BY <1>1, SubSeqProperties
<1>4. Front(s) = SubSeq(s, 1, Len(s) - 1)
  BY DEF Front
<1>5. Front(s) \in Seq(S) /\ Len(Front(s)) = Len(s) - 1
  <2>1. \A n \in Nat \ {0} : (IF 1 <= n - 1 THEN n - 1 - 1 + 1 ELSE 0) = n - 1
    OBVIOUS
  <2> QED BY <2>1, <1>1, <1>3, <1>4
<1>6. \A i \in 1 .. Len(s) - 1 : Front(s)[i] = s[i]
  BY <1>1, <1>3, <1>4
<1> QED BY <1>1, <1>2, <1>5, <1>6

(* ------------------------------------------------- the shader's shape --- *)
(* What closes or leaves an if or a loop; what an instruction is.          *)
Marks == {"else", "end", "again", "break"}
Ops == {"fmul", "fcsel", "word", "tex", "ubo", "decl", "keep", "copy", "out", "if", "loop"} \cup Marks
Instrs == [op : Ops, reads : Seq(Values), of : Nat, makes : Seq(Values), sees : SUBSET Values]
Opens == [op : {"if", "else", "loop"}, at : Nat, seen : SUBSET Values, out : SUBSET Values]

Prog == DOMAIN shader
Op(i) == shader[i].op
MakesOf(i) == Range(shader[i].makes)
MarksOf(l) == {j \in Prog : shader[j].of = l}
Sees(i) == IF i \in Prog THEN shader[i].sees ELSE seen

(* The shader, what may be read where it goes on, and the stack.           *)
ShaderType ==
    /\ shader \in Seq(Instrs) /\ seen \in SUBSET Values /\ open \in Seq(Opens)

(* Values are made in the program's order, an instruction's in a row.       *)
InOrder ==
    /\ \A i \in Prog : /\ shader[i].makes \in [1 .. Makes(Op(i)) -> Values]
                       /\ \A k \in 1 .. Makes(Op(i)) :
                              shader[i].makes[k] = shader[i].makes[1] + k - 1
    /\ \A i, j \in Prog : j < i => \A x \in MakesOf(j), y \in MakesOf(i) : x < y

(* What may be read has been made; what is read may be read.                *)
SeenMade ==
    /\ \A i \in Prog : /\ \E n \in Sources(Op(i)) : shader[i].reads \in [1 .. n -> shader[i].sees]
                       /\ \A v \in shader[i].sees : \E j \in 1 .. i - 1 : v \in MakesOf(j)
    /\ \A v \in seen : \E j \in Prog : v \in MakesOf(j)

(* A mark closes or leaves a construct before it, of its own kind.         *)
Paired ==
    /\ \A j \in Prog : /\ Op(j) \in Marks <=> shader[j].of # 0
                       /\ shader[j].of < j
                       /\ Op(j) \in {"else", "end"} => Op(shader[j].of) = "if"
                       /\ Op(j) \in {"again", "break"} => Op(shader[j].of) = "loop"

(* Of an if the last mark is its end, of a loop its back edge; and a loop  *)
(* that starts in a loop ends in it.                                       *)
ClosedBy(l, j) ==
    /\ j \in MarksOf(l)
    /\ Op(j) = IF Op(l) = "if" THEN "end" ELSE "again"
    /\ \A m \in MarksOf(l) \ {j} : m < j /\ Op(m) = IF Op(l) = "if" THEN "else" ELSE "break"

Closing ==
    /\ \A l \in Prog : Op(l) \in {"if", "loop"} =>
           \/ \E k \in DOMAIN open : open[k].at = l
           \/ \E j \in Prog : ClosedBy(l, j)
    /\ \A j \in Prog : Op(j) = "again" => \A l \in Prog : shader[j].of < l /\ l < j /\ Op(l) = "loop" =>
           \E m \in MarksOf(l) : Op(m) = "again" /\ m < j

(* The constructs that are open: each sees what it saw when it opened, and *)
(* out of a loop goes what every break of it has seen.                     *)
StackedAt(k, l) ==
    /\ open[k].at = l /\ Op(l) = IF open[k].op = "loop" THEN "loop" ELSE "if"
    /\ \A m \in MarksOf(l) : Op(m) = IF open[k].op = "loop" THEN "break" ELSE "else"
    /\ open[k].seen = shader[l].sees
    /\ open[k].seen \subseteq open[k].out /\ open[k].seen \subseteq seen
    /\ open[k].out = Values \/ \A v \in open[k].out : \E j \in Prog : v \in MakesOf(j)
    /\ open[k].op = "loop" => \A m \in MarksOf(l) : open[k].out \subseteq shader[m].sees

Stacked ==
    /\ \A k \in DOMAIN open : \E l \in Prog : StackedAt(k, l)
    /\ \A k, m \in DOMAIN open : k < m => open[k].at < open[m].at /\ open[k].seen \subseteq open[m].seen

(* What is seen has come every way there: from the instruction before, past*)
(* an if, back to a loop's start, out of a loop by its breaks.             *)
FlowsOn(i) ==
    Op(i) \notin {"else", "again", "break"} => Sees(i + 1) \subseteq shader[i].sees \cup MakesOf(i)

FlowsOff(i, l) ==
    shader[i].of = l =>
        /\ Op(i) \in {"else", "end"} => /\ shader[i].sees = shader[l].sees
                                        /\ Sees(i + 1) \subseteq shader[l].sees
        /\ Op(i) = "again" => /\ shader[l].sees \subseteq shader[i].sees
                              /\ \A b \in MarksOf(l) \ {i} : Sees(i + 1) \subseteq shader[b].sees

Flows == \A i \in Prog : FlowsOn(i) /\ \A l \in Prog : FlowsOff(i, l)

(* The declared register is the first instruction, the colour the last.    *)
Placed ==
    \A i \in Prog : /\ Op(i) = "decl" => i = 1
                    /\ Op(i) \in {"keep", "copy"} => Op(1) = "decl"
                    /\ Op(i) = "out" => i = Len(shader) /\ open = <<>>

ShaderInv == ShaderType /\ InOrder /\ SeenMade /\ Paired /\ Closing /\ Stacked /\ Flows /\ Placed

Phases ==
    /\ phase \in {"write", "translate", "run", "over", "too big"}
    /\ phase = "write" => at = 1 /\ temps = NoTemps /\ code = <<>> /\ step = 1
    /\ phase # "write" => /\ open = <<>> /\ shader # <<>> /\ Op(Len(shader)) = "out"
                          /\ lastUse = [v \in 1 .. Made |-> LastUse(v)]

(* ---------------------------------------------------- the last uses --- *)
(* What WALK_USES notes: a last use is no earlier than any read, is a read *)
(* or a loop's end, and what a loop's start sees and still needs there lives*)
(* to that loop's end.                                                     *)
LastUses ==
    phase # "write" =>
       /\ lastUse \in [1 .. Made -> 0 .. Len(shader)]
       /\ \A i \in Prog : \A v \in ForEachRead(i) : i <= lastUse[v]
       /\ \A v \in 1 .. Made : lastUse[v] # 0 => v \in ForEachRead(lastUse[v]) \/ Op(lastUse[v]) = "again"
       /\ \A i \in Prog : \A v \in MakesOf(i) : lastUse[v] # 0 => i < lastUse[v]
       /\ \A j \in Prog : Op(j) = "again" =>
             \A v \in shader[shader[j].of].sees : shader[j].of <= lastUse[v] => j <= lastUse[v]
       /\ \A v \in Range(Colour) : lastUse[v] = Len(shader)

(* --------------------------------------------------- the translation --- *)
(* A value made before an instruction, and one still to be read; the       *)
(* temporaries of the values, of the colour and of the declared register.  *)
MadeBefore(v, i) == \E j \in Prog : j < i /\ v \in MakesOf(j)
Live(v, i) == lastUse[v] >= i \/ (i > Len(shader) /\ v \in Range(Colour))
Held(t) == {t.loc[v] : v \in t.owned}
Outs(t) == IF t.out >= 0 THEN t.out .. t.out + ColourLen - 1 ELSE {}
Webs(t) == IF Web \in DOMAIN t.loc THEN {t.loc[Web]} ELSE {}
Fixed(t, v) == ColourId(v) # 0 /\ t.out >= 0 /\ t.loc[v] = t.out + ColourId(v) - 1

Locs == UNION {[S -> Temps] : S \in SUBSET (Values \cup {Web})}
TempsOf == [used : SUBSET Temps, loc : Locs, owned : SUBSET Values, out : Nat \cup {NoTemp, NoRoom}]

(* The temporaries taken are theirs and no other, and no two share one.    *)
Tidy(t) ==
    /\ t \in TempsOf
    /\ t.owned \subseteq DOMAIN t.loc
    /\ t.used = Held(t) \cup Outs(t) \cup Webs(t)
    /\ \A v, w \in t.owned : t.loc[v] = t.loc[w] => v = w
    /\ Held(t) \cap Outs(t) = {} /\ Webs(t) \cap (Held(t) \cup Outs(t)) = {}

(* Every value that was made and is still to be read has its temporary: its*)
(* own, or its place in the colour.                                        *)
Homed(t, i) ==
    /\ i \in 1 .. Len(shader) + 1
    /\ \A v \in t.owned : MadeBefore(v, i) /\ Live(v, i)
    /\ \A v \in DOMAIN t.loc \ {Web} : MadeBefore(v, i)
    /\ Web \in DOMAIN t.loc <=> i > 1 /\ Op(1) = "decl"
    /\ \A v \in Values : MadeBefore(v, i) /\ Live(v, i) =>
          v \in DOMAIN t.loc /\ (v \in t.owned \/ Fixed(t, v))

Allocated == phase = "translate" => Tidy(temps) /\ Homed(temps, at)

-----------------------------------------------------------------------------
(* An instruction is written: what it adds, and what it leaves alone.      *)
Grown(N, op, reads, of, sees) ==
    /\ N = Len(shader) + 1
    /\ Prog = 1 .. N - 1 /\ Prog' = 1 .. N /\ Len(shader') = N /\ N \in Nat \ {0}
    /\ \A i \in Prog : shader'[i] = shader[i]
    /\ shader'[N] = [op |-> op, reads |-> reads, of |-> of,
            makes |-> [k \in 1 .. Makes(op) |-> Made + k], sees |-> sees]
    /\ shader' \in Seq(Instrs)
    /\ Makes(op) \in Nat /\ Made \in Nat
    /\ \A i \in Prog : \A v \in MakesOf(i) : v <= Made

LEMMA MakesNat == ASSUME NEW op \in Ops PROVE Makes(op) \in Nat
BY RegsAssumption DEF Ops, Marks, Makes

LEMMA MadeOf ==
    ASSUME ShaderType
    PROVE  /\ Made \in 0 .. MaxValues
           /\ \A i \in Prog : \A v \in MakesOf(i) : v <= Made
<1> DEFINE S == {0} \cup UNION {Range(shader[i].makes) : i \in DOMAIN shader}
<1>1. \A i \in DOMAIN shader : shader[i].makes \in Seq(Values)
  <2>1. \A i \in DOMAIN shader : shader[i] \in Instrs BY DEF ShaderType
  <2> QED BY <2>1 DEF Instrs
<1>2. \A i \in DOMAIN shader : Range(shader[i].makes) \subseteq Values
  BY <1>1 DEF Range
<1>3. S \in SUBSET (0 .. MaxValues) /\ S # {} /\ MaxValues \in Nat
  BY <1>2, RegsAssumption DEF Values
<1>4. Max(S) \in S /\ \A x \in S : x <= Max(S)
  BY <1>3, MaxOf
<1>5. Made = Max(S) BY DEF Made
<1> QED BY <1>3, <1>4, <1>5 DEF Prog, MakesOf

LEMMA Grows ==
    ASSUME ShaderType, NEW op \in Ops, NEW reads \in Seq(Values), NEW of \in Nat,
           Written(op, reads, of), op \in {"else", "end"} => Top.seen \in SUBSET Values
    PROVE  Grown(Len(shader) + 1, op, reads, of, IF op \in {"else", "end"} THEN Top.seen ELSE seen)
<1> DEFINE sees == IF op \in {"else", "end"} THEN Top.seen ELSE seen
           makes == [k \in 1 .. Makes(op) |-> Made + k]
           new == [op |-> op, reads |-> reads, of |-> of, makes |-> makes, sees |-> sees]
<1>1. Makes(op) \in Nat /\ Made \in Nat /\ MaxValues \in Nat /\ Made + Makes(op) <= MaxValues
  BY MakesNat, MadeOf, RegsAssumption DEF Written
<1>2. makes \in Seq(Values)
  BY <1>1 DEF Values
<1>3. sees \in SUBSET Values
  BY DEF ShaderType
<1> HIDE DEF makes, sees
<1>4. new \in Instrs
  BY <1>2, <1>3 DEF Instrs
<1>5. shader' = Append(shader, new) /\ shader \in Seq(Instrs)
  BY DEF Written, ShaderType, makes, sees
<1> HIDE DEF new
<1>6. /\ shader' \in Seq(Instrs) /\ Len(shader') = Len(shader) + 1 /\ Len(shader) \in Nat
      /\ DOMAIN shader = 1 .. Len(shader) /\ DOMAIN shader' = 1 .. Len(shader) + 1
      /\ \A i \in DOMAIN shader : shader'[i] = shader[i]
      /\ shader'[Len(shader) + 1] = new
  BY <1>4, <1>5
<1> QED BY <1>1, <1>6, MadeOf DEF Grown, Prog, new, makes, sees

LEMMA NewMakes ==
    ASSUME NEW N, NEW op, NEW reads, NEW of, NEW sees, Grown(N, op, reads, of, sees)
    PROVE  /\ \A i \in Prog : MakesOf(i)' = MakesOf(i)
           /\ MakesOf(N)' = Made + 1 .. Made + Makes(op)
           /\ Op(N)' = op /\ \A i \in Prog : Op(i)' = Op(i)
           /\ \A l : MarksOf(l)' = MarksOf(l) \cup (IF l = of THEN {N} ELSE {})
<1> DEFINE makes == [k \in 1 .. Makes(op) |-> Made + k]
<1>1. Range(makes) = Made + 1 .. Made + Makes(op)
  <2>1. Made \in Nat /\ Makes(op) \in Nat BY DEF Grown
  <2>2. \A v \in Made + 1 .. Made + Makes(op) : v - Made \in 1 .. Makes(op) /\ makes[v - Made] = v
    BY <2>1
  <2>3. Range(makes) \subseteq Made + 1 .. Made + Makes(op)
    BY <2>1 DEF Range
  <2>4. Made + 1 .. Made + Makes(op) \subseteq Range(makes)
    BY <2>2 DEF Range
  <2> QED BY <2>3, <2>4
<1>2. shader'[N].makes = makes /\ shader'[N].op = op
  BY DEF Grown
<1>3. MakesOf(N)' = Range(makes)
  BY <1>2 DEF MakesOf
<1>4. Op(N)' = op
  BY <1>2 DEF Op
<1>5. \A i \in Prog : MakesOf(i)' = MakesOf(i) /\ Op(i)' = Op(i)
  BY DEF Grown, MakesOf, Op
<1>6. ASSUME NEW l PROVE MarksOf(l)' = MarksOf(l) \cup (IF l = of THEN {N} ELSE {})
  <2>1. Prog' = Prog \cup {N} /\ N \notin Prog /\ shader'[N].of = of
    BY DEF Grown
  <2>2. \A j \in Prog : shader'[j].of = shader[j].of
    BY DEF Grown
  <2> QED BY <2>1, <2>2 DEF MarksOf
<1> QED BY <1>1, <1>3, <1>4, <1>5, <1>6

LEMMA InOrderGrows ==
    ASSUME NEW N, NEW op, NEW reads, NEW of, NEW sees, Grown(N, op, reads, of, sees), InOrder
    PROVE  InOrder'
<1>0. Op(N)' = op /\ \A i \in Prog : Op(i)' = Op(i)
  BY NewMakes
<1>1. N \in Nat /\ Prog' = Prog \cup {N} /\ Prog = 1 .. N - 1 /\ Made \in Nat /\ Makes(op) \in Nat
  BY DEF Grown
<1>2. ASSUME NEW i \in Prog'
      PROVE  /\ shader'[i].makes \in [1 .. Makes(Op(i)') -> Values]
             /\ \A k \in 1 .. Makes(Op(i)') : shader'[i].makes[k] = shader'[i].makes[1] + k - 1
  <2>1. CASE i \in Prog
    <3>1. Op(i)' = Op(i) /\ shader'[i].makes = shader[i].makes
      BY <2>1, <1>0 DEF Grown
    <3> QED BY <2>1, <3>1 DEF InOrder
  <2>2. CASE i = N
    <3>1. Op(i)' = op /\ shader'[i].makes = [k \in 1 .. Makes(op) |-> Made + k]
      BY <2>2, <1>0 DEF Grown
    <3>2. shader'[i] \in Instrs
      BY <1>1, <2>2 DEF Grown
    <3>3. shader'[i].makes \in Seq(Values) BY <3>2 DEF Instrs
    <3>4. shader'[i].makes \in [1 .. Makes(op) -> Values]
      <4> DEFINE m == shader'[i].makes
      <4>1. m \in Seq(Values) /\ DOMAIN m = 1 .. Makes(op)
        BY <3>3, <3>1
      <4>2. \A k \in 1 .. Makes(op) : m[k] \in Values
        <5>1. Len(m) = Makes(op) BY <4>1, <1>1
        <5> QED BY <5>1, <4>1, ElementOfSeq
      <4> QED BY <4>2, <3>1
    <3> QED BY <3>1, <3>4, <1>1
  <2> QED BY <1>1, <2>1, <2>2
<1>3. ASSUME NEW i \in Prog', NEW j \in Prog', j < i, NEW x \in MakesOf(j)', NEW y \in MakesOf(i)'
      PROVE  x < y
  <2>1. j \in Prog /\ MakesOf(j)' = MakesOf(j) BY <1>1, <1>3, NewMakes
  <2>2. CASE i \in Prog BY <2>1, <2>2, <1>3, NewMakes DEF InOrder
  <2>3. CASE i = N
    <3>1. y \in Made + 1 .. Made + Makes(op) BY <2>3, NewMakes
    <3>2. x <= Made BY <2>1 DEF Grown
    <3>3. x \in Values
      <4>1. shader[j].makes \in [1 .. Makes(Op(j)) -> Values] /\ x \in Range(shader[j].makes)
        BY <2>1, <1>3 DEF InOrder, MakesOf
      <4> QED BY <4>1 DEF Range
    <3> QED BY <3>1, <3>2, <3>3, <1>1 DEF Values
  <2> QED BY <1>1, <2>2, <2>3
<1> QED BY <1>2, <1>3 DEF InOrder

LEMMA SeenMadeGrows ==
    ASSUME NEW N, NEW op, NEW reads, NEW of, NEW sees, Grown(N, op, reads, of, sees), SeenMade,
           sees \subseteq seen, \E n \in Sources(op) : reads \in [1 .. n -> sees],
           \A v \in seen' : v \in seen \/ (\E j \in Prog : v \in MakesOf(j))
                              \/ v \in Made + 1 .. Made + Makes(op)
    PROVE  SeenMade'
<1>0. /\ \A i \in Prog : MakesOf(i)' = MakesOf(i) /\ Op(i)' = Op(i)
      /\ MakesOf(N)' = Made + 1 .. Made + Makes(op) /\ Op(N)' = op
  BY NewMakes
<1>1. /\ Prog = 1 .. N - 1 /\ Prog' = 1 .. N /\ N \in Nat \ {0}
      /\ shader'[N].reads = reads /\ shader'[N].sees = sees
  BY DEF Grown
<1>2. ASSUME NEW i \in Prog'
      PROVE  /\ \E n \in Sources(Op(i)') : shader'[i].reads \in [1 .. n -> shader'[i].sees]
             /\ \A v \in shader'[i].sees : \E j \in 1 .. i - 1 : v \in MakesOf(j)'
  <2>1. CASE i \in Prog
    <3>1. shader'[i] = shader[i] BY <2>1 DEF Grown
    <3>2. \A j \in 1 .. i - 1 : j \in Prog BY <2>1, <1>1
    <3> QED BY <2>1, <3>1, <3>2, <1>0 DEF SeenMade
  <2>2. CASE i = N
    <3>1. \A v \in sees : \E j \in Prog : v \in MakesOf(j) BY DEF SeenMade
    <3> QED BY <2>2, <3>1, <1>0, <1>1
  <2> QED BY <1>1, <2>1, <2>2
<1>3. ASSUME NEW v \in seen' PROVE \E j \in Prog' : v \in MakesOf(j)'
  <2>1. v \in seen => \E j \in Prog : v \in MakesOf(j) BY DEF SeenMade
  <2>2. N \in Prog' /\ \A j \in Prog : j \in Prog' BY <1>1
  <2> QED BY <2>1, <2>2, <1>0
<1> QED BY <1>2, <1>3 DEF SeenMade

LEMMA PairedGrows ==
    ASSUME NEW N, NEW op, NEW reads, NEW of \in Nat, NEW sees, Grown(N, op, reads, of, sees),
           Paired, op \in Marks <=> of # 0, of < N,
           op \in {"else", "end"} => Op(of) = "if", op \in {"again", "break"} => Op(of) = "loop"
    PROVE  Paired'
<1>0. Op(N)' = op /\ \A i \in Prog : Op(i)' = Op(i)
  BY NewMakes
<1>1. Prog = 1 .. N - 1 /\ Prog' = 1 .. N /\ N \in Nat \ {0} /\ shader'[N].of = of
  BY DEF Grown
<1>2. ASSUME NEW j \in Prog'
      PROVE  /\ Op(j)' \in Marks <=> shader'[j].of # 0
             /\ shader'[j].of < j
             /\ Op(j)' \in {"else", "end"} => shader'[shader'[j].of].op = "if"
             /\ Op(j)' \in {"again", "break"} => shader'[shader'[j].of].op = "loop"
  <2>1. CASE j \in Prog
    <3>1. shader'[j] = shader[j] /\ Op(j)' = Op(j) BY <2>1, <1>0 DEF Grown
    <3>2. shader'[j].of \in Nat
      <4>1. shader'[j] \in Instrs BY <1>1, <2>1 DEF Grown
      <4> QED BY <4>1 DEF Instrs
    <3>3. shader[j].of # 0 => shader[j].of \in Prog
      BY <2>1, <3>1, <3>2, <1>1 DEF Paired
    <3>4. shader[j].of # 0 => shader'[shader[j].of].op = Op(shader[j].of)
      <4>1. ASSUME NEW m \in Prog PROVE shader'[m].op = shader[m].op BY DEF Grown
      <4> QED BY <3>1, <3>3, <4>1 DEF Op
    <3>5. /\ Op(j) \in Marks <=> shader[j].of # 0
          /\ shader[j].of < j
          /\ Op(j) \in {"else", "end"} => Op(shader[j].of) = "if"
          /\ Op(j) \in {"again", "break"} => Op(shader[j].of) = "loop"
      BY <2>1 DEF Paired
    <3> QED BY <3>1, <3>4, <3>5 DEF Marks
  <2>2. CASE j = N
    <3>1. of # 0 => of \in Prog BY <1>1
    <3>2. of # 0 => shader'[of].op = Op(of)
      BY <3>1 DEF Op, Grown
    <3> QED BY <2>2, <3>2, <1>0, <1>1 DEF Marks
  <2> QED BY <1>1, <2>1, <2>2
<1> QED BY <1>2 DEF Paired, Op

LEMMA PlacedGrows ==
    ASSUME NEW N, NEW op, NEW reads, NEW of, NEW sees, Grown(N, op, reads, of, sees), Placed,
           op = "decl" => N = 1, op \in {"keep", "copy"} => N > 1 /\ Op(1) = "decl",
           op = "out" => open' = <<>>, \A i \in Prog : Op(i) # "out"
    PROVE  Placed'
<1>0. Op(N)' = op /\ \A i \in Prog : Op(i)' = Op(i)
  BY NewMakes
<1>1. Prog = 1 .. N - 1 /\ Prog' = 1 .. N /\ N \in Nat \ {0} /\ Len(shader') = N
  BY DEF Grown
<1>2. N > 1 => Op(1)' = Op(1) BY <1>0, <1>1
<1>3. ASSUME NEW i \in Prog'
      PROVE  /\ Op(i)' = "decl" => i = 1
             /\ Op(i)' \in {"keep", "copy"} => Op(1)' = "decl"
             /\ Op(i)' = "out" => i = Len(shader') /\ open' = <<>>
  <2>1. CASE i \in Prog
    <3>1. N > 1 BY <2>1, <1>1
    <3> QED BY <2>1, <3>1, <1>0, <1>2 DEF Placed
  <2>2. CASE i = N BY <2>2, <1>0, <1>1, <1>2
  <2> QED BY <1>1, <2>1, <2>2
<1> QED BY <1>3 DEF Placed

LEMMA ClosingGrows ==
    ASSUME NEW N, NEW op, NEW reads, NEW of, NEW sees, Grown(N, op, reads, of, sees),
           Closing, Stacked,
           of = 0 \/ \E k \in DOMAIN open : open[k].at = of,
           \A k \in DOMAIN open : \/ \E m \in DOMAIN open' : open'[m].at = open[k].at
                                  \/ open[k].at = of /\ op = IF Op(of) = "if" THEN "end" ELSE "again",
           op \in {"if", "loop"} => \E m \in DOMAIN open' : open'[m].at = N,
           op = "again" => \A k \in DOMAIN open : open[k].at <= of
    PROVE  Closing'
<1>0. /\ Op(N)' = op /\ \A i \in Prog : Op(i)' = Op(i)
      /\ \A l : MarksOf(l)' = MarksOf(l) \cup (IF l = of THEN {N} ELSE {})
  BY NewMakes
<1>1. Prog = 1 .. N - 1 /\ Prog' = 1 .. N /\ N \in Nat \ {0} /\ shader'[N].of = of
  BY DEF Grown
<1>2. \A l \in Prog : MarksOf(l) \subseteq Prog /\ N \notin MarksOf(l)
  BY <1>1 DEF MarksOf
<1>3. ASSUME NEW l \in Prog, NEW j \in Prog, ClosedBy(l, j), Op(l) \in {"if", "loop"}
      PROVE  l # of /\ ClosedBy(l, j)'
  <2>1. ASSUME l = of PROVE FALSE
    <3>1. \A i \in Prog : i # 0 BY <1>1
    <3>2. PICK k \in DOMAIN open : open[k].at = l BY <2>1, <3>1
    <3>3. StackedAt(k, l) BY <3>2 DEF Stacked, StackedAt
    <3>4. Op(j) \in {"break", "else"} BY <3>3, <1>3 DEF StackedAt, ClosedBy
    <3> QED BY <3>4, <1>3 DEF ClosedBy
  <2>2. MarksOf(l)' = MarksOf(l) BY <1>0, <2>1
  <2>3. Op(l)' = Op(l) /\ Op(j)' = Op(j) /\ \A m \in MarksOf(l) : Op(m)' = Op(m) BY <1>0, <1>2
  <2> QED BY <2>1, <2>2, <2>3, <1>3 DEF ClosedBy
<1>4. ASSUME NEW l \in Prog', Op(l)' \in {"if", "loop"}
      PROVE  \/ \E k \in DOMAIN open' : open'[k].at = l
             \/ \E j \in Prog' : ClosedBy(l, j)'
  <2>1. CASE l = N BY <2>1, <1>4, <1>0
  <2>2. CASE l \in Prog
    <3>1. Op(l) \in {"if", "loop"} BY <2>2, <1>4, <1>0
    <3>2. CASE \E j \in Prog : ClosedBy(l, j)
      BY <3>1, <3>2, <1>3, <1>1, <2>2
    <3>3. CASE \E k \in DOMAIN open : open[k].at = l
      <4>1. PICK k \in DOMAIN open : open[k].at = l BY <3>3
      <4>2. CASE l = of /\ op = IF Op(of) = "if" THEN "end" ELSE "again"
        <5>1. MarksOf(l)' = MarksOf(l) \cup {N} BY <4>2, <1>0
        <5>2. \A m \in MarksOf(l) : m < N /\ Op(m)' = Op(m) BY <1>0, <1>1, <1>2, <2>2
        <5>3. \A m \in MarksOf(l) : Op(m) = IF Op(l) = "if" THEN "else" ELSE "break"
          <6>1. StackedAt(k, l) BY <4>1 DEF Stacked, StackedAt
          <6> QED BY <6>1, <3>1 DEF StackedAt
        <5>4. Op(l)' = Op(l) BY <2>2, <1>0
        <5>5. ClosedBy(l, N)'
          BY <5>1, <5>2, <5>3, <5>4, <4>2, <1>0 DEF ClosedBy
        <5> QED BY <5>5, <1>1
      <4> QED BY <4>1, <4>2
    <3> QED BY <3>1, <3>2, <3>3, <2>2 DEF Closing
  <2> QED BY <1>1, <2>1, <2>2
<1>5. ASSUME NEW j \in Prog', Op(j)' = "again",
             NEW l \in Prog', shader'[j].of < l, l < j, Op(l)' = "loop"
      PROVE  \E m \in MarksOf(l)' : Op(m)' = "again" /\ m < j
  <2>0. l \in Prog /\ Op(l) = "loop" BY <1>5, <1>1, <1>0
  <2>1. CASE j \in Prog
    <3>1. shader'[j].of = shader[j].of BY <2>1 DEF Grown
    <3>2. PICK m \in MarksOf(l) : Op(m) = "again" /\ m < j
      BY <2>0, <2>1, <3>1, <1>5, <1>0 DEF Closing
    <3> QED BY <3>2, <2>0, <1>0, <1>2
  <2>2. CASE j = N
    <3>1. op = "again" /\ of < l BY <2>2, <1>5, <1>0, <1>1
    <3>2. \A k \in DOMAIN open : open[k].at # l
      <4> SUFFICES ASSUME NEW k \in DOMAIN open, open[k].at = l PROVE FALSE OBVIOUS
      <4>1. l <= of BY <3>1
      <4>2. l \in Nat BY <2>0, <1>1
      <4>3. of \in Nat
        <5>1. shader'[N] \in Instrs BY <1>1 DEF Grown
        <5> QED BY <5>1, <1>1 DEF Instrs
      <4> QED BY <4>1, <4>2, <4>3, <3>1
    <3>3. PICK m \in Prog : ClosedBy(l, m) BY <3>2, <2>0 DEF Closing
    <3>4. m \in MarksOf(l) /\ Op(m) = "again" BY <3>3, <2>0 DEF ClosedBy
    <3>5. m < N BY <1>1
    <3> QED BY <3>4, <3>5, <2>2, <1>0
  <2> QED BY <1>1, <2>1, <2>2
<1>6. \A l \in Prog' : Op(l)' \in {"if", "loop"} =>
          (\E k \in DOMAIN open' : open'[k].at = l) \/ (\E j \in Prog' : ClosedBy(l, j)')
  BY <1>4
<1>7. \A j \in Prog' : Op(j)' = "again" =>
          \A l \in Prog' : shader'[j].of < l /\ l < j /\ Op(l)' = "loop" =>
              \E m \in MarksOf(l)' : Op(m)' = "again" /\ m < j
  BY <1>5
<1> QED BY <1>6, <1>7 DEF Closing

(* An entry of the stack that stays.                                        *)
Stays1(k, op, of, sees) ==
    /\ k \in DOMAIN open
    /\ open'[k].at = open[k].at /\ open'[k].seen = open[k].seen
    /\ open'[k].op = "loop" <=> open[k].op = "loop"
    /\ open[k].seen \subseteq seen'
    /\ open'[k].out = open[k].out \/ open'[k].out = open[k].out \cap seen
    /\ open[k].at = of => op = IF open[k].op = "loop" THEN "break" ELSE "else"
    /\ open[k].at = of /\ op = "break" => open'[k].out \subseteq sees

Opened(N, k) ==
    /\ k = Len(open) + 1 /\ seen' = seen
    /\ open'[k].at = N /\ open'[k].seen = seen /\ open'[k].out = Values

LEMMA StackedGrows ==
    ASSUME NEW N, NEW op, NEW reads, NEW of, NEW sees, Grown(N, op, reads, of, sees),
           ShaderType, SeenMade, Paired, Stacked, of < N, open' \in Seq(Opens),
           \A k \in DOMAIN open' : \/ Stays1(k, op, of, sees)
                                   \/ /\ Opened(N, k) /\ of = 0 /\ sees = seen
                                      /\ op = IF open'[k].op = "loop" THEN "loop" ELSE "if"
    PROVE  Stacked'
<1>0. /\ Op(N)' = op /\ \A i \in Prog : Op(i)' = Op(i) /\ MakesOf(i)' = MakesOf(i)
      /\ \A l : MarksOf(l)' = MarksOf(l) \cup (IF l = of THEN {N} ELSE {})
  BY NewMakes
<1>1. /\ Prog = 1 .. N - 1 /\ Prog' = 1 .. N /\ N \in Nat \ {0}
      /\ shader'[N].of = of /\ shader'[N].sees = sees
      /\ \A i \in Prog : shader'[i] = shader[i]
  BY DEF Grown
<1>2. DOMAIN open = 1 .. Len(open) /\ Len(open) \in Nat BY DEF ShaderType
<1>3. ASSUME NEW k \in DOMAIN open', Stays1(k, op, of, sees)
      PROVE  \E l \in Prog' : StackedAt(k, l)'
  <2>0. k \in DOMAIN open BY <1>3 DEF Stays1
  <2>1. PICK l \in Prog : StackedAt(k, l) BY <2>0 DEF Stacked
  <2>2. l \in Prog' /\ Op(l)' = Op(l) /\ shader'[l] = shader[l] BY <1>0, <1>1, <2>1
  <2>3. open'[k].at = l /\ Op(l)' = IF open'[k].op = "loop" THEN "loop" ELSE "if"
    BY <2>1, <2>2, <1>3 DEF StackedAt, Stays1
  <2>4. ASSUME NEW m \in MarksOf(l)'
        PROVE  /\ Op(m)' = IF open'[k].op = "loop" THEN "break" ELSE "else"
               /\ open'[k].op = "loop" => open'[k].out \subseteq shader'[m].sees
    <3>1. CASE m \in MarksOf(l)
      <4>1. m \in Prog BY <3>1 DEF MarksOf
      <4>2. Op(m)' = Op(m) /\ shader'[m] = shader[m] BY <4>1, <1>0, <1>1
      <4> QED BY <3>1, <4>2, <1>3, <2>1 DEF StackedAt, Stays1
    <3>2. CASE m = N /\ l = of
      BY <3>2, <1>0, <1>1, <1>3, <2>1 DEF StackedAt, Stays1
    <3> QED BY <3>1, <3>2, <2>4, <1>0
  <2>5. /\ open'[k].seen = shader'[l].sees
        /\ open'[k].seen \subseteq open'[k].out /\ open'[k].seen \subseteq seen'
    BY <2>1, <2>2, <1>3 DEF StackedAt, Stays1
  <2>6. open'[k].out = Values \/ \A v \in open'[k].out : \E j \in Prog' : v \in MakesOf(j)'
    <3>1. \/ open'[k].out = Values
          \/ \A v \in open'[k].out : (\E j \in Prog : v \in MakesOf(j)) \/ v \in seen
      BY <2>1, <1>3 DEF StackedAt, Stays1
    <3>2. \A v \in seen : \E j \in Prog : v \in MakesOf(j) BY DEF SeenMade
    <3>3. \A j \in Prog : j \in Prog' /\ MakesOf(j)' = MakesOf(j) BY <1>0, <1>1
    <3> QED BY <3>1, <3>2, <3>3
  <2>7. StackedAt(k, l)' BY <2>3, <2>4, <2>5, <2>6 DEF StackedAt
  <2> QED BY <2>2, <2>7
<1>4. ASSUME NEW k \in DOMAIN open', Opened(N, k), of = 0, sees = seen,
             op = IF open'[k].op = "loop" THEN "loop" ELSE "if"
      PROVE  \E l \in Prog' : StackedAt(k, l)'
  <2>1. MarksOf(N)' = {}
    <3>1. \A j \in Prog : shader[j].of < j
      BY DEF Paired
    <3>2. MarksOf(N) = {} BY <3>1, <1>1 DEF MarksOf
    <3> QED BY <3>2, <1>0, <1>1, <1>4
  <2>2. seen \subseteq Values BY DEF ShaderType
  <2>3. StackedAt(k, N)'
    BY <2>1, <2>2, <1>0, <1>1, <1>4 DEF StackedAt, Opened
  <2> QED BY <2>3, <1>1
<1>5. ASSUME NEW k \in DOMAIN open', NEW m \in DOMAIN open', k < m
      PROVE  open'[k].at < open'[m].at /\ open'[k].seen \subseteq open'[m].seen
  <2>0. k \in Nat /\ m \in Nat OBVIOUS
  <2>1. CASE Stays1(k, op, of, sees) /\ Stays1(m, op, of, sees)
    BY <2>1, <1>5 DEF Stays1, Stacked
  <2>2. CASE Stays1(k, op, of, sees) /\ Opened(N, m)
    <3>1. k \in DOMAIN open /\ open'[k].at = open[k].at /\ open'[k].seen = open[k].seen
      BY <2>2 DEF Stays1
    <3>2. PICK l \in Prog : StackedAt(k, l) BY <3>1 DEF Stacked
    <3> QED BY <3>1, <3>2, <2>2, <1>1 DEF Opened, StackedAt
  <2>3. CASE Opened(N, k)
    <3>1. k = Len(open) + 1 BY <2>3 DEF Opened
    <3>2. m \in DOMAIN open \/ m = Len(open) + 1 BY DEF Stays1, Opened
    <3> QED BY <3>1, <3>2, <1>2, <1>5
  <2> QED BY <2>1, <2>2, <2>3
<1>6. \A k \in DOMAIN open' : \E l \in Prog' : StackedAt(k, l)'
  BY <1>3, <1>4
<1> QED BY <1>5, <1>6 DEF Stacked

LEMMA FlowsGrows ==
    ASSUME NEW N, NEW op, NEW reads, NEW of, NEW sees, Grown(N, op, reads, of, sees),
           Flows, Stacked, Paired, of \in Nat, of < N, sees \subseteq seen,
           of = 0 \/ (\E k \in DOMAIN open : open[k].at = of),
           op \notin {"else", "again", "break"} => seen' \subseteq sees \cup (Made + 1 .. Made + Makes(op)),
           op \in {"else", "end"} => sees = shader[of].sees /\ seen' \subseteq shader[of].sees,
           op = "again" => /\ shader[of].sees \subseteq sees
                           /\ \A b \in MarksOf(of) : seen' \subseteq shader[b].sees
    PROVE  Flows'
<1>0. /\ Op(N)' = op /\ \A i \in Prog : Op(i)' = Op(i) /\ MakesOf(i)' = MakesOf(i)
      /\ MakesOf(N)' = Made + 1 .. Made + Makes(op)
      /\ \A l : MarksOf(l)' = MarksOf(l) \cup (IF l = of THEN {N} ELSE {})
  BY NewMakes
<1>1. /\ Prog = 1 .. N - 1 /\ Prog' = 1 .. N /\ N \in Nat \ {0}
      /\ shader'[N].of = of /\ shader'[N].sees = sees
      /\ \A i \in Prog : shader'[i] = shader[i]
  BY DEF Grown
<1>2. \A i \in Prog : Sees(i + 1)' \subseteq Sees(i + 1)
  <2> TAKE i \in Prog
  <2>1. CASE i + 1 \in Prog BY <2>1, <1>1 DEF Sees
  <2>2. CASE i + 1 = N BY <2>2, <1>1 DEF Sees
  <2> QED BY <2>1, <2>2, <1>1
<1>3. Sees(N + 1)' = seen' BY <1>1 DEF Sees
<1>4. ASSUME NEW i \in Prog' PROVE FlowsOn(i)'
  <2>1. CASE i \in Prog
    <3>1. FlowsOn(i) BY <2>1 DEF Flows
    <3> QED BY <3>1, <2>1, <1>0, <1>1, <1>2 DEF FlowsOn
  <2>2. CASE i = N BY <2>2, <1>0, <1>1, <1>3 DEF FlowsOn
  <2> QED BY <2>1, <2>2, <1>1
<1>5. ASSUME NEW i \in Prog', NEW l \in Prog' PROVE FlowsOff(i, l)'
  <2>1. CASE i \in Prog /\ l \in Prog
    <3>0. FlowsOff(i, l) BY <2>1 DEF Flows
    <3>1. shader'[i] = shader[i] /\ shader'[l] = shader[l] /\ Op(i)' = Op(i) /\ Sees(i + 1)' \subseteq Sees(i + 1)
      BY <2>1, <1>0, <1>1, <1>2
    <3>2. shader[i].of = l /\ Op(i) = "again" => MarksOf(l)' = MarksOf(l)
      <4> SUFFICES ASSUME shader[i].of = l, Op(i) = "again", l = of PROVE FALSE BY <1>0
      <4>1. PICK k \in DOMAIN open : open[k].at = l BY <2>1, <1>1
      <4>2. StackedAt(k, l) BY <4>1 DEF Stacked, StackedAt
      <4>3. i \in MarksOf(l) BY <2>1 DEF MarksOf
      <4> QED BY <4>2, <4>3 DEF StackedAt
    <3>3. \A b \in MarksOf(l) : b \in Prog /\ shader'[b] = shader[b] BY <1>1 DEF MarksOf
    <3> QED BY <3>0, <3>1, <3>2, <3>3 DEF FlowsOff
  <2>2. CASE i = N /\ l \in Prog
    <3>1. shader'[l] = shader[l] BY <2>2, <1>1
    <3>2. \A b \in MarksOf(l) : b \in Prog /\ shader'[b] = shader[b] BY <1>1 DEF MarksOf
    <3> QED BY <2>2, <3>1, <3>2, <1>0, <1>1, <1>3 DEF FlowsOff
  <2>3. CASE l = N
    <3>1. shader'[i].of # N
      <4>1. CASE i \in Prog BY <4>1, <1>1 DEF Paired
      <4>2. CASE i = N BY <4>2, <1>1
      <4> QED BY <4>1, <4>2, <1>1
    <3> QED BY <2>3, <3>1 DEF FlowsOff
  <2> QED BY <2>1, <2>2, <2>3, <1>1
<1> QED BY <1>4, <1>5 DEF Flows

LEMMA SourcesNat == ASSUME NEW op \in Ops PROVE Sources(op) \subseteq Nat
BY RegsAssumption DEF Ops, Marks, Sources

Plain == {"fmul", "fcsel", "word", "tex", "ubo", "decl", "keep", "copy", "out"}

LEMMA Unended ==
    ASSUME ShaderInv, ~Ended \/ open # <<>>
    PROVE  \A i \in Prog : Op(i) # "out"
<1> SUFFICES ASSUME NEW i \in Prog, Op(i) = "out" PROVE FALSE OBVIOUS
<1>1. i = Len(shader) /\ open = <<>> BY DEF ShaderInv, Placed
<1>2. shader \in Seq(Instrs) /\ shader # <<>>
  BY DEF ShaderInv, ShaderType, Prog
<1>3. Last(shader) = shader[Len(shader)] BY <1>2, SeqEnds
<1> QED BY <1>1, <1>2, <1>3 DEF Ended, Op

LEMMA InstrWritten ==
    ASSUME ShaderInv, NEW op \in Plain, WriteInstr(op)
    PROVE  ShaderInv'
<1>0. /\ ShaderType /\ InOrder /\ SeenMade /\ Paired /\ Closing /\ Stacked /\ Flows /\ Placed
      /\ op \in Ops
  BY DEF ShaderInv, Plain, Ops
<1>1a. PICK n \in Sources(op) : \E reads \in [1 .. n -> seen] : Written(op, reads, 0)
  BY DEF WriteInstr
<1>1. PICK reads \in [1 .. n -> seen] : Written(op, reads, 0)
  BY <1>1a
<1>2. reads \in Seq(Values)
  <2>1. n \in Nat /\ seen \subseteq Values BY <1>0, SourcesNat DEF ShaderType
  <2> QED BY <2>1
<1>3. Grown(Len(shader) + 1, op, reads, 0, seen)
  <2>1. op \notin {"else", "end"} BY DEF Plain
  <2>2. (IF op \in {"else", "end"} THEN Top.seen ELSE seen) = seen BY <2>1
  <2>3. Grown(Len(shader) + 1, op, reads, 0, IF op \in {"else", "end"} THEN Top.seen ELSE seen)
    BY <1>0, <1>1, <1>2, <2>1, Grows
  <2> QED BY <2>2, <2>3
<1>4. PICK N : N = Len(shader) + 1 OBVIOUS
<1>5. PICK s : s = seen OBVIOUS
<1>6. Grown(N, op, reads, 0, s) BY <1>3, <1>4, <1>5
<1>7. /\ open' = open /\ seen' = seen \cup (Made + 1 .. Made + Makes(op)) /\ N \in Nat \ {0}
      /\ Made \in 0 .. MaxValues /\ Makes(op) \in Nat /\ Made + Makes(op) <= MaxValues
  BY <1>0, <1>1, <1>6, MadeOf DEF WriteInstr, Grown, Written
<1>8. ShaderType'
  <2>1. shader' \in Seq(Instrs) BY <1>6 DEF Grown
  <2>3. MaxValues \in Nat BY RegsAssumption
  <2>4. Made + 1 .. Made + Makes(op) \subseteq Values BY <1>7, <2>3 DEF Values
  <2>2. seen' \in SUBSET Values BY <1>0, <1>7, <2>4 DEF ShaderType
  <2> QED BY <2>1, <2>2, <1>0, <1>7 DEF ShaderType
<1>9. InOrder' BY <1>0, <1>6, InOrderGrows
<1>10. SeenMade'
  BY <1>0, <1>1, <1>5, <1>6, <1>7, SeenMadeGrows
<1>11. Paired'
  <2>1. op \notin Marks BY DEF Plain, Marks
  <2> QED BY <1>0, <1>6, <1>7, <2>1, PairedGrows DEF Marks
<1>12. Closing'
  <2>1. op \notin {"if", "loop", "again"} BY DEF Plain
  <2> QED BY <1>0, <1>6, <1>7, <2>1, ClosingGrows
<1>13. Stacked'
  <2>1. \A k \in DOMAIN open : Stays1(k, op, 0, s)
    <3> TAKE k \in DOMAIN open
    <3>1. PICK l \in Prog : StackedAt(k, l) BY <1>0 DEF Stacked
    <3>2. l # 0 BY <1>6 DEF Grown
    <3> QED BY <3>1, <3>2, <1>7 DEF Stays1, StackedAt
  <2>2. 0 < N /\ open' \in Seq(Opens) BY <1>0, <1>7 DEF ShaderType
  <2> QED BY <1>0, <1>6, <1>7, <2>1, <2>2, StackedGrows
<1>14. Flows'
  <2>1. op \notin {"else", "again", "break", "end"} BY DEF Plain
  <2> QED BY <1>0, <1>5, <1>6, <1>7, <2>1, FlowsGrows
<1>15. Placed'
  <2>1. \A i \in Prog : Op(i) # "out" BY Unended DEF WriteInstr
  <2>2. op = "decl" => N = 1
    BY <1>4 DEF WriteInstr
  <2>3. op = "keep" => N > 1 /\ Op(1) = "decl"
    <3>1. shader # <<>> => Len(shader) # 0 BY <1>0, EmptySeq DEF ShaderType
    <3> QED BY <3>1, <1>4, <1>7 DEF WriteInstr, Op
  <2>4. op = "copy" => N > 1 /\ Op(1) = "decl"
    <3> SUFFICES ASSUME op = "copy" PROVE N > 1 /\ Op(1) = "decl" OBVIOUS
    <3>1. PICK i \in Prog : Op(i) = "keep" BY DEF WriteInstr, Prog, Op
    <3>2. i \in 1 .. N - 1 BY <1>6 DEF Grown
    <3> QED BY <3>1, <3>2, <1>0, <1>7 DEF Placed
  <2>5. op = "out" => open' = <<>> BY <1>7 DEF WriteInstr
  <2> QED BY <1>0, <1>6, <2>1, <2>2, <2>3, <2>4, <2>5, PlacedGrows
<1> QED BY <1>8, <1>9, <1>10, <1>11, <1>12, <1>13, <1>14, <1>15 DEF ShaderInv

LEMMA NoMakes ==
    ASSUME NEW op \in {"if", "loop"} \cup Marks
    PROVE  Makes(op) = 0
BY DEF Makes, Marks

LEMMA OpenWritten ==
    ASSUME ShaderInv, NEW op \in {"if", "loop"}, WriteOpen(op)
    PROVE  ShaderInv'
<1>0. /\ ShaderType /\ InOrder /\ SeenMade /\ Paired /\ Closing /\ Stacked /\ Flows /\ Placed
      /\ op \in Ops /\ op \notin Marks
  BY DEF ShaderInv, Ops, Marks
<1>1a. PICK n \in Sources(op) : \E reads \in [1 .. n -> seen] : Written(op, reads, 0)
  BY DEF WriteOpen
<1>1. PICK reads \in [1 .. n -> seen] : Written(op, reads, 0)
  BY <1>1a
<1>2. reads \in Seq(Values)
  <2>1. n \in Nat /\ seen \subseteq Values BY <1>0, SourcesNat DEF ShaderType
  <2> QED BY <2>1
<1>3. Grown(Len(shader) + 1, op, reads, 0, seen)
  <2>1. op \notin {"else", "end"} OBVIOUS
  <2>2. (IF op \in {"else", "end"} THEN Top.seen ELSE seen) = seen BY <2>1
  <2>3. Grown(Len(shader) + 1, op, reads, 0, IF op \in {"else", "end"} THEN Top.seen ELSE seen)
    BY <1>0, <1>1, <1>2, <2>1, Grows
  <2> QED BY <2>2, <2>3
<1>4. PICK N : N = Len(shader) + 1 OBVIOUS
<1>5. PICK s : s = seen OBVIOUS
<1>6. Grown(N, op, reads, 0, s) BY <1>3, <1>4, <1>5
<1>7. /\ open' = Append(open, [op |-> op, at |-> N, seen |-> seen, out |-> Values])
      /\ seen' = seen /\ N \in Nat \ {0} /\ Made + 1 .. Made + Makes(op) = {}
  <2>1. Makes(op) = 0 /\ Made \in Nat BY NoMakes, <1>6 DEF Grown
  <2>2. Made + 1 .. Made + 0 = {} BY <2>1
  <2> QED BY <1>4, <1>6, <2>1, <2>2 DEF WriteOpen, Grown
<1>8. /\ open' \in Seq(Opens) /\ Len(open) \in Nat /\ DOMAIN open = 1 .. Len(open)
      /\ DOMAIN open' = 1 .. Len(open) + 1 /\ \A k \in DOMAIN open : open'[k] = open[k]
      /\ open'[Len(open) + 1] = [op |-> op, at |-> N, seen |-> seen, out |-> Values]
  <2>1. open \in Seq(Opens) /\ seen \in SUBSET Values BY <1>0 DEF ShaderType
  <2>2. [op |-> op, at |-> N, seen |-> seen, out |-> Values] \in Opens
    BY <2>1, <1>7 DEF Opens
  <2> QED BY <2>1, <2>2, <1>7
<1>9. ShaderType' /\ InOrder'
  <2>1. shader' \in Seq(Instrs) BY <1>6 DEF Grown
  <2> QED BY <2>1, <1>0, <1>6, <1>7, <1>8, InOrderGrows DEF ShaderType
<1>10. SeenMade'
  BY <1>0, <1>1, <1>5, <1>6, <1>7, SeenMadeGrows
<1>11. Paired'
  BY <1>0, <1>6, <1>7, PairedGrows DEF Marks
<1>12. Closing'
  <2>1. Len(open) + 1 \in DOMAIN open' BY <1>8
  <2>2. \A k \in DOMAIN open : \E m \in DOMAIN open' : open'[m].at = open[k].at BY <1>8
  <2>3. op # "again" /\ \E m \in DOMAIN open' : open'[m].at = N BY <1>8, <2>1
  <2> QED BY <1>0, <1>6, <2>2, <2>3, ClosingGrows
<1>13. Stacked'
  <2>1. \A k \in DOMAIN open : Stays1(k, op, 0, s)
    <3> TAKE k \in DOMAIN open
    <3>1. PICK l \in Prog : StackedAt(k, l) BY <1>0 DEF Stacked
    <3>2. l # 0 BY <1>6 DEF Grown
    <3>3. open'[k] = open[k] BY <1>8
    <3> QED BY <3>1, <3>2, <3>3, <1>7 DEF Stays1, StackedAt
  <2>2. Opened(N, Len(open) + 1) /\ op = IF open'[Len(open) + 1].op = "loop" THEN "loop" ELSE "if"
    BY <1>7, <1>8 DEF Opened
  <2>3. \A k \in DOMAIN open' : k \in DOMAIN open \/ k = Len(open) + 1 BY <1>8
  <2>4. 0 < N BY <1>7
  <2> QED BY <1>0, <1>5, <1>6, <1>8, <2>1, <2>2, <2>3, <2>4, StackedGrows
<1>14. Flows'
  <2>1. op \notin {"else", "again", "break", "end"} OBVIOUS
  <2> QED BY <1>0, <1>5, <1>6, <1>7, <2>1, FlowsGrows
<1>15. Placed'
  <2>1. \A i \in Prog : Op(i) # "out" BY Unended DEF WriteOpen
  <2> QED BY <1>0, <1>6, <2>1, PlacedGrows
<1> QED BY <1>9, <1>10, <1>11, <1>12, <1>13, <1>14, <1>15 DEF ShaderInv

(* The top of the stack.                                                    *)
LEMMA TopOf ==
    ASSUME ShaderInv, open # <<>>
    PROVE  /\ Len(open) \in Nat \ {0} /\ DOMAIN open = 1 .. Len(open)
           /\ Top = open[Len(open)] /\ Top \in Opens /\ Top.seen \in SUBSET Values
           /\ Top.at \in Prog /\ Top.at \in Nat \ {0} /\ StackedAt(Len(open), Top.at)
           /\ \A k \in DOMAIN open : k # Len(open) => open[k].at < Top.at /\ open[k].seen \subseteq Top.seen
           /\ \A k \in DOMAIN open : open[k].at \in Nat
           /\ Front(open) \in Seq(Opens) /\ Len(Front(open)) = Len(open) - 1
           /\ \A k \in 1 .. Len(open) - 1 : Front(open)[k] = open[k]
<1>1. open \in Seq(Opens) BY DEF ShaderInv, ShaderType
<1>2. /\ Len(open) \in Nat \ {0} /\ Top = open[Len(open)] /\ Top \in Opens
      /\ Front(open) \in Seq(Opens) /\ Len(Front(open)) = Len(open) - 1
      /\ \A k \in 1 .. Len(open) - 1 : Front(open)[k] = open[k]
  BY <1>1, SeqEnds DEF Top
<1>3. DOMAIN open = 1 .. Len(open) BY <1>1
<1>4. \A k \in DOMAIN open : open[k] \in Opens BY <1>1
<1>5. Top.seen \in SUBSET Values /\ \A k \in DOMAIN open : open[k].at \in Nat
  BY <1>2, <1>4 DEF Opens
<1>6. PICK l \in Prog : StackedAt(Len(open), l) BY <1>2, <1>3 DEF ShaderInv, Stacked
<1>7. l = Top.at BY <1>6, <1>2 DEF StackedAt
<1>8. l \in Nat \ {0} BY <1>6 DEF Prog, ShaderInv, ShaderType
<1>9. \A k \in DOMAIN open : k # Len(open) => open[k].at < Top.at /\ open[k].seen \subseteq Top.seen
  <2> SUFFICES ASSUME NEW k \in DOMAIN open, k # Len(open)
               PROVE  open[k].at < Top.at /\ open[k].seen \subseteq Top.seen
    OBVIOUS
  <2>1. k < Len(open) /\ Len(open) \in DOMAIN open BY <1>2, <1>3
  <2> QED BY <2>1, <1>2 DEF ShaderInv, Stacked
<1> QED BY <1>2, <1>3, <1>5, <1>6, <1>7, <1>8, <1>9

LEMMA EmptyReads == <<>> \in Seq(Values) /\ \A S : <<>> \in [1 .. 0 -> S]
OBVIOUS

LEMMA MarkWritten ==
    ASSUME ShaderInv, NEW op \in Marks, NEW N, NEW of, NEW s, N = Len(shader) + 1,
           of \in Prog, s = IF op \in {"else", "end"} THEN Top.seen ELSE seen,
           Written(op, <<>>, of), open # <<>>,
           op \in {"else", "end"} => Op(of) = "if", op \in {"again", "break"} => Op(of) = "loop",
           seen' \in SUBSET Values,
           \A v \in seen' : v \in seen \/ (\E j \in Prog : v \in MakesOf(j)),
           \E k \in DOMAIN open : open[k].at = of
    PROVE  /\ Grown(N, op, <<>>, of, s) /\ shader' \in Seq(Instrs) /\ InOrder' /\ SeenMade' /\ Paired'
           /\ Placed' /\ of \in Nat \ {0} /\ of < N /\ N \in Nat \ {0} /\ s \subseteq seen
           /\ Made + 1 .. Made + Makes(op) = {}
<1>0. /\ ShaderType /\ InOrder /\ SeenMade /\ Paired /\ Closing /\ Stacked /\ Flows /\ Placed
      /\ op \in Ops
  BY DEF ShaderInv, Ops
<1>1. of \in Nat \ {0} /\ of < N /\ N \in Nat \ {0}
  <2>1. DOMAIN shader = 1 .. Len(shader) /\ Len(shader) \in Nat BY <1>0 DEF ShaderType
  <2> QED BY <2>1 DEF Prog
<1>2. Top.seen \in SUBSET Values /\ Top.seen \subseteq seen
  BY TopOf DEF StackedAt
<1>3. Grown(N, op, <<>>, of, s)
  <2>1. Grown(Len(shader) + 1, op, <<>>, of, IF op \in {"else", "end"} THEN Top.seen ELSE seen)
    BY <1>0, <1>1, <1>2, EmptyReads, Grows
  <2> QED BY <2>1
<1>4. Made + 1 .. Made + Makes(op) = {}
  <2>1. Makes(op) = 0 /\ Made \in Nat BY NoMakes, <1>3 DEF Grown
  <2>2. Made + 1 .. Made + 0 = {} BY <2>1
  <2> QED BY <2>1, <2>2
<1>5. s \subseteq seen BY <1>2
<1>6. Sources(op) = {0} BY DEF Sources, Marks
<1>7. SeenMade'
  <2>1. \E n \in Sources(op) : <<>> \in [1 .. n -> s] BY <1>6, EmptyReads
  <2> QED BY <2>1, <1>0, <1>3, <1>5, SeenMadeGrows
<1>8. Paired' BY <1>0, <1>1, <1>3, PairedGrows
<1>9. Placed'
  <2>1. \A i \in Prog : Op(i) # "out" BY Unended
  <2>2. op \notin {"decl", "keep", "copy", "out"} BY DEF Marks
  <2> QED BY <1>0, <1>3, <2>1, <2>2, PlacedGrows
<1> QED BY <1>0, <1>1, <1>3, <1>4, <1>5, <1>7, <1>8, <1>9, InOrderGrows DEF Grown

LEMMA ElseWritten == ASSUME ShaderInv, WriteElse PROVE ShaderInv'
<1>1. /\ open # <<>> /\ Top.op = "if" /\ Written("else", <<>>, Top.at)
      /\ open' = Append(Front(open), [Top EXCEPT !.op = "else"]) /\ seen' = Top.seen
  BY DEF WriteElse
<1>2. PICK N, of, s : N = Len(shader) + 1 /\ of = Top.at /\ s = Top.seen OBVIOUS
<1>3. PICK n : n = Len(open) OBVIOUS
<1>t. /\ n \in Nat \ {0} /\ DOMAIN open = 1 .. n /\ Top = open[n] /\ Top \in Opens
      /\ s \in SUBSET Values /\ of \in Prog /\ StackedAt(n, of)
      /\ \A k \in DOMAIN open : k # n => open[k].at < of /\ open[k].seen \subseteq s
      /\ \A k \in DOMAIN open : open[k].at \in Nat
      /\ Front(open) \in Seq(Opens) /\ Len(Front(open)) = n - 1
      /\ \A k \in 1 .. n - 1 : Front(open)[k] = open[k]
  BY <1>1, <1>2, <1>3, TopOf
<1>4. Op(of) = "if" /\ shader[of].sees = s /\ s \subseteq seen
  BY <1>t, <1>1, <1>2 DEF StackedAt
<1>m. /\ Grown(N, "else", <<>>, of, s) /\ shader' \in Seq(Instrs) /\ InOrder' /\ SeenMade' /\ Paired'
      /\ Placed' /\ of \in Nat \ {0} /\ of < N /\ N \in Nat \ {0} /\ s \subseteq seen
  BY <1>1, <1>2, <1>3, <1>t, <1>4, MarkWritten DEF Marks
<1>5. /\ open' \in Seq(Opens) /\ DOMAIN open' = 1 .. n
      /\ \A k \in 1 .. n - 1 : open'[k] = open[k]
      /\ open'[n] = [open[n] EXCEPT !.op = "else"]
  <2>1. [Top EXCEPT !.op = "else"] \in Opens BY <1>t DEF Opens
  <2> QED BY <2>1, <1>t, <1>1
<1>6. /\ open'[n].at = open[n].at /\ open'[n].seen = open[n].seen /\ open'[n].out = open[n].out
      /\ open'[n].op = "else" /\ open[n].op = "if" /\ open[n].at = of /\ open[n].seen = s
  BY <1>1, <1>2, <1>t, <1>5 DEF Opens
<1>7. \A k \in DOMAIN open' : Stays1(k, "else", of, s)
  <2> TAKE k \in DOMAIN open'
  <2>1. CASE k = n BY <2>1, <1>1, <1>2, <1>t, <1>6 DEF Stays1
  <2>2. CASE k # n
    <3>1. k \in DOMAIN open /\ open'[k] = open[k] BY <2>2, <1>t, <1>5
    <3>2. open[k].at # of /\ open[k].seen \subseteq s BY <3>1, <2>2, <1>t, <1>m
    <3> QED BY <3>1, <3>2, <1>1, <1>2 DEF Stays1
  <2> QED BY <2>1, <2>2
<1>8. \A k \in DOMAIN open : \E m \in DOMAIN open' : open'[m].at = open[k].at
  <2> TAKE k \in DOMAIN open
  <2>1. k = n \/ k \in 1 .. n - 1 BY <1>t
  <2>2. k \in DOMAIN open' BY <1>t, <1>5
  <2>3. open'[k].at = open[k].at BY <2>1, <1>5, <1>6
  <2> QED BY <2>2, <2>3
<1>9. n \in DOMAIN open /\ open[n].at = of BY <1>t, <1>6
<1>10. /\ ShaderType /\ InOrder /\ SeenMade /\ Paired /\ Closing /\ Stacked /\ Flows /\ Placed
  BY DEF ShaderInv
<1>11. ShaderType' BY <1>m, <1>5, <1>1, <1>2, <1>t DEF ShaderType
<1>12. Closing' BY <1>10, <1>m, <1>8, <1>9, ClosingGrows
<1>13. Stacked' BY <1>10, <1>m, <1>5, <1>7, StackedGrows
<1>14. Flows' BY <1>10, <1>m, <1>9, <1>4, <1>1, <1>2, FlowsGrows
<1> QED BY <1>m, <1>11, <1>12, <1>13, <1>14 DEF ShaderInv

LEMMA EndWritten == ASSUME ShaderInv, WriteEnd PROVE ShaderInv'
<1>1. /\ open # <<>> /\ Top.op \in {"if", "else"} /\ Written("end", <<>>, Top.at)
      /\ open' = Front(open) /\ seen' = Top.seen
  BY DEF WriteEnd
<1>2. PICK N, of, s : N = Len(shader) + 1 /\ of = Top.at /\ s = Top.seen OBVIOUS
<1>3. PICK n : n = Len(open) OBVIOUS
<1>t. /\ n \in Nat \ {0} /\ DOMAIN open = 1 .. n /\ Top = open[n] /\ Top \in Opens
      /\ s \in SUBSET Values /\ of \in Prog /\ StackedAt(n, of)
      /\ \A k \in DOMAIN open : k # n => open[k].at < of /\ open[k].seen \subseteq s
      /\ \A k \in DOMAIN open : open[k].at \in Nat
      /\ Front(open) \in Seq(Opens) /\ Len(Front(open)) = n - 1
      /\ \A k \in 1 .. n - 1 : Front(open)[k] = open[k]
  BY <1>1, <1>2, <1>3, TopOf
<1>4. Op(of) = "if" /\ shader[of].sees = s /\ s \subseteq seen
  BY <1>t, <1>1, <1>2 DEF StackedAt
<1>m. /\ Grown(N, "end", <<>>, of, s) /\ shader' \in Seq(Instrs) /\ InOrder' /\ SeenMade' /\ Paired'
      /\ Placed' /\ of \in Nat \ {0} /\ of < N /\ N \in Nat \ {0} /\ s \subseteq seen
  BY <1>1, <1>2, <1>3, <1>t, <1>4, MarkWritten DEF Marks
<1>5. /\ open' \in Seq(Opens) /\ DOMAIN open' = 1 .. n - 1
      /\ \A k \in 1 .. n - 1 : open'[k] = open[k]
  BY <1>t, <1>1
<1>7. \A k \in DOMAIN open' : Stays1(k, "end", of, s)
  <2> TAKE k \in DOMAIN open'
  <2>1. k \in DOMAIN open /\ open'[k] = open[k] /\ k # n BY <1>t, <1>5
  <2>2. open[k].at # of /\ open[k].seen \subseteq s BY <2>1, <1>t, <1>m
  <2> QED BY <2>1, <2>2, <1>1, <1>2 DEF Stays1
<1>8. n \in DOMAIN open /\ open[n].at = of BY <1>t, <1>2
<1>9. \A k \in DOMAIN open : (\E m \in DOMAIN open' : open'[m].at = open[k].at) \/ open[k].at = of
  BY <1>t, <1>5, <1>8
<1>10. /\ ShaderType /\ InOrder /\ SeenMade /\ Paired /\ Closing /\ Stacked /\ Flows /\ Placed
  BY DEF ShaderInv
<1>11. ShaderType' BY <1>m, <1>5, <1>1, <1>2, <1>t DEF ShaderType
<1>12. Closing' BY <1>10, <1>m, <1>4, <1>8, <1>9, ClosingGrows
<1>13. Stacked' BY <1>10, <1>m, <1>5, <1>7, StackedGrows
<1>14. Flows' BY <1>10, <1>m, <1>8, <1>4, <1>1, <1>2, FlowsGrows
<1> QED BY <1>m, <1>11, <1>12, <1>13, <1>14 DEF ShaderInv

LEMMA AgainWritten == ASSUME ShaderInv, WriteAgain PROVE ShaderInv'
<1>1. /\ open # <<>> /\ Top.op = "loop" /\ Top.out # Values /\ Written("again", <<>>, Top.at)
      /\ open' = Front(open) /\ seen' = Top.out
  BY DEF WriteAgain
<1>2. PICK N, of, s : N = Len(shader) + 1 /\ of = Top.at /\ s = seen OBVIOUS
<1>3. PICK n : n = Len(open) OBVIOUS
<1>t. /\ n \in Nat \ {0} /\ DOMAIN open = 1 .. n /\ Top = open[n] /\ Top \in Opens
      /\ of \in Prog /\ StackedAt(n, of)
      /\ \A k \in DOMAIN open : k # n => open[k].at < of /\ open[k].seen \subseteq Top.seen
      /\ \A k \in DOMAIN open : open[k].at \in Nat
      /\ Front(open) \in Seq(Opens) /\ Len(Front(open)) = n - 1
      /\ \A k \in 1 .. n - 1 : Front(open)[k] = open[k]
  BY <1>1, <1>2, <1>3, TopOf
<1>4. /\ Op(of) = "loop" /\ shader[of].sees = Top.seen /\ Top.seen \subseteq s /\ Top.seen \subseteq Top.out
      /\ \A v \in Top.out : \E j \in Prog : v \in MakesOf(j)
      /\ \A b \in MarksOf(of) : Top.out \subseteq shader[b].sees
      /\ Top.out \in SUBSET Values
  <2>1. Top.out \in SUBSET Values BY <1>t DEF Opens
  <2> QED BY <2>1, <1>t, <1>1, <1>2 DEF StackedAt
<1>m. /\ Grown(N, "again", <<>>, of, s) /\ shader' \in Seq(Instrs) /\ InOrder' /\ SeenMade' /\ Paired'
      /\ Placed' /\ of \in Nat \ {0} /\ of < N /\ N \in Nat \ {0} /\ s \subseteq seen
  BY <1>1, <1>2, <1>3, <1>t, <1>4, MarkWritten DEF Marks
<1>5. /\ open' \in Seq(Opens) /\ DOMAIN open' = 1 .. n - 1
      /\ \A k \in 1 .. n - 1 : open'[k] = open[k]
  BY <1>t, <1>1
<1>7. \A k \in DOMAIN open' : Stays1(k, "again", of, s)
  <2> TAKE k \in DOMAIN open'
  <2>1. k \in DOMAIN open /\ open'[k] = open[k] /\ k # n BY <1>t, <1>5
  <2>2. open[k].at # of /\ open[k].seen \subseteq Top.out BY <2>1, <1>t, <1>m, <1>4
  <2> QED BY <2>1, <2>2, <1>1, <1>2 DEF Stays1
<1>8. n \in DOMAIN open /\ open[n].at = of BY <1>t, <1>2
<1>9. /\ \A k \in DOMAIN open : (\E m \in DOMAIN open' : open'[m].at = open[k].at) \/ open[k].at = of
      /\ \A k \in DOMAIN open : open[k].at <= of
  <2>1. \A k \in DOMAIN open : k = n \/ k \in 1 .. n - 1 BY <1>t
  <2>2. \A k \in 1 .. n - 1 : open'[k].at = open[k].at /\ k \in DOMAIN open' BY <1>5
  <2>3. \A k \in DOMAIN open : open[k].at <= of
    <3> TAKE k \in DOMAIN open
    <3>1. CASE k = n BY <3>1, <1>8, <1>m
    <3>2. CASE k # n BY <3>2, <1>t, <1>m
    <3> QED BY <3>1, <3>2
  <2> QED BY <2>1, <2>2, <2>3, <1>8
<1>10. /\ ShaderType /\ InOrder /\ SeenMade /\ Paired /\ Closing /\ Stacked /\ Flows /\ Placed
  BY DEF ShaderInv
<1>11. ShaderType' BY <1>m, <1>5, <1>1, <1>4 DEF ShaderType
<1>12. Closing' BY <1>10, <1>m, <1>4, <1>8, <1>9, ClosingGrows
<1>13. Stacked' BY <1>10, <1>m, <1>5, <1>7, StackedGrows
<1>14. Flows' BY <1>10, <1>m, <1>8, <1>4, <1>1, <1>2, FlowsGrows
<1> QED BY <1>m, <1>11, <1>12, <1>13, <1>14 DEF ShaderInv

LEMMA BreakWritten == ASSUME ShaderInv, WriteBreak PROVE ShaderInv'
<1> DEFINE loops == {i \in DOMAIN open : open[i].op = "loop"}
<1>1. /\ ~Ended /\ loops # {} /\ Written("break", <<>>, open[Max(loops)].at)
      /\ open' = [open EXCEPT ![Max(loops)].out = @ \cap seen] /\ seen' = seen
  BY DEF WriteBreak
<1>10. /\ ShaderType /\ InOrder /\ SeenMade /\ Paired /\ Closing /\ Stacked /\ Flows /\ Placed
  BY DEF ShaderInv
<1>o. /\ open \in Seq(Opens) /\ DOMAIN open = 1 .. Len(open) /\ Len(open) \in Nat
      /\ \A k \in DOMAIN open : open[k] \in Opens
  BY <1>10 DEF ShaderType
<1>x. Max(loops) \in loops
  <2>1. loops \in SUBSET (0 .. Len(open)) BY <1>o
  <2> QED BY <2>1, <1>1, <1>o, MaxOf
<1>2. PICK n : n = Max(loops) OBVIOUS
<1> HIDE DEF loops
<1>3. PICK N, of, s : N = Len(shader) + 1 /\ of = open[n].at /\ s = seen OBVIOUS
<1>t. n \in DOMAIN open /\ open[n].op = "loop" /\ open # <<>>
  BY <1>2, <1>x DEF loops
<1>4. of \in Prog /\ StackedAt(n, of) /\ Op(of) = "loop"
  <2>1. PICK l \in Prog : StackedAt(n, l) BY <1>t, <1>10 DEF Stacked
  <2> QED BY <2>1, <1>3, <1>t DEF StackedAt
<1>m. /\ Grown(N, "break", <<>>, of, s) /\ shader' \in Seq(Instrs) /\ InOrder' /\ SeenMade' /\ Paired'
      /\ Placed' /\ of \in Nat \ {0} /\ of < N /\ N \in Nat \ {0} /\ s \subseteq seen
  <2>1. seen' \in SUBSET Values BY <1>1, <1>10 DEF ShaderType
  <2> QED BY <2>1, <1>1, <1>2, <1>3, <1>t, <1>4, MarkWritten DEF Marks
<1>5. /\ open' \in Seq(Opens) /\ DOMAIN open' = DOMAIN open
      /\ \A k \in DOMAIN open : k # n => open'[k] = open[k]
      /\ open'[n].at = open[n].at /\ open'[n].seen = open[n].seen /\ open'[n].op = open[n].op
      /\ open'[n].out = open[n].out \cap seen
  <2>1. open' = [open EXCEPT ![n] = [open[n] EXCEPT !.out = open[n].out \cap seen]]
    BY <1>1, <1>2
  <2>2. [open[n] EXCEPT !.out = open[n].out \cap seen] \in Opens
    BY <1>o, <1>t DEF Opens
  <2>3. open[n] \in Opens BY <1>o, <1>t
  <2>4. open' \in Seq(Opens) BY <2>1, <2>2, <1>o, <1>t
  <2> QED BY <2>1, <2>3, <2>4, <1>o, <1>t DEF Opens
<1>7. \A k \in DOMAIN open' : Stays1(k, "break", of, s)
  <2> TAKE k \in DOMAIN open'
  <2>0. k \in DOMAIN open /\ open[k].seen \subseteq seen
    BY <1>5, <1>10 DEF Stacked, StackedAt
  <2>1. CASE k = n
    BY <2>0, <2>1, <1>1, <1>3, <1>t, <1>5 DEF Stays1
  <2>2. CASE k # n
    <3>1. open'[k] = open[k] BY <2>0, <2>2, <1>5
    <3>2. k \in Nat /\ n \in Nat /\ open[k].at \in Nat BY <2>0, <1>t, <1>o DEF Opens
    <3>3. open[k].at # of
      <4>1. k < n \/ n < k BY <3>2, <2>2
      <4>2. open[k].at < open[n].at \/ open[n].at < open[k].at BY <4>1, <2>0, <1>t, <1>10 DEF Stacked
      <4> QED BY <4>2, <1>3, <1>m, <3>2
    <3> QED BY <2>0, <3>1, <3>3, <1>1 DEF Stays1
  <2> QED BY <2>1, <2>2
<1>8. \A k \in DOMAIN open : \E m \in DOMAIN open' : open'[m].at = open[k].at
  BY <1>5
<1>9. n \in DOMAIN open /\ open[n].at = of BY <1>t, <1>3
<1>11. ShaderType' BY <1>m, <1>5, <1>1, <1>10 DEF ShaderType
<1>12. Closing' BY <1>10, <1>m, <1>8, <1>9, ClosingGrows
<1>13. Stacked' BY <1>10, <1>m, <1>5, <1>7, StackedGrows
<1>14. Flows' BY <1>10, <1>m, <1>9, <1>4, <1>1, <1>3, FlowsGrows
<1> QED BY <1>m, <1>11, <1>12, <1>13, <1>14 DEF ShaderInv

Later ==
    /\ phase \in {"translate", "run", "over", "too big"}
    /\ phase' \in {"translate", "run", "over", "too big"}
    /\ UNCHANGED <<writeVars, lastUse>>

LEMMA EmitPhase ==
    ASSUME NEW t, NEW takes, NEW scratch, NEW home, NEW moves, phase = "translate",
           Emit(t, takes, scratch, home, moves)
    PROVE  phase' \in {"translate", "too big"}
BY DEF Emit

(* The shader and its last uses change no more once it is translated.      *)
LEMMA LaterSteps ==
    ASSUME CodeNext \/ RunMove \/ RunOn
    PROVE  Later
<1>1. CASE FMulColour BY <1>1, EmitPhase DEF FMulColour, Translating, Later
<1>2. CASE FMul BY <1>2, EmitPhase DEF FMul, Translating, Later
<1>3. CASE FCsel BY <1>3, EmitPhase DEF FCsel, Translating, Later
<1>4. CASE IntWord BY <1>4, EmitPhase DEF IntWord, Translating, Later
<1>5. CASE Texture BY <1>5, EmitPhase DEF Texture, Translating, Later
<1>6. CASE UboLoad BY <1>6, EmitPhase DEF UboLoad, Translating, Later
<1>7. CASE DeclReg BY <1>7, EmitPhase DEF DeclReg, Translating, Later
<1>8. CASE StoreReg BY <1>8, EmitPhase DEF StoreReg, Translating, Later
<1>9. CASE LoadReg BY <1>9, EmitPhase DEF LoadReg, Translating, Later
<1>10. CASE Test BY <1>10, EmitPhase DEF Test, Translating, Later
<1>11. CASE Branches BY <1>11, EmitPhase DEF Branches, Translating, Later
<1>12. CASE LoopEnd BY <1>12 DEF LoopEnd, Translating, Later
<1>13. CASE Output BY <1>13 DEF Output, Later
<1>14. CASE RunMove BY <1>14 DEF RunMove, Later, codeVars
<1>15. CASE RunOn BY <1>15 DEF RunOn, Later, codeVars
<1> QED BY <1>1, <1>2, <1>3, <1>4, <1>5, <1>6, <1>7, <1>8, <1>9, <1>10, <1>11, <1>12, <1>13,
           <1>14, <1>15 DEF CodeNext

LEMMA SameShader ==
    ASSUME UNCHANGED <<shader, seen, open>>, ShaderInv
    PROVE  ShaderInv' /\ Made' = Made /\ \A v : LastUse(v)' = LastUse(v)
<1>1. ShaderType' /\ InOrder' /\ SeenMade' /\ Paired' /\ Placed'
  BY DEF ShaderInv, ShaderType, InOrder, SeenMade, Paired, Placed, Prog, Op, MakesOf
<1>2. Closing'
  BY DEF ShaderInv, Closing, ClosedBy, MarksOf, Prog, Op
<1>3. Stacked'
  BY DEF ShaderInv, Stacked, StackedAt, MarksOf, MakesOf, Prog, Op
<1>4. Flows'
  BY DEF ShaderInv, Flows, FlowsOn, FlowsOff, Sees, MarksOf, MakesOf, Prog, Op
<1>5. Made' = Made BY DEF Made
<1>6. ASSUME NEW v PROVE LastUse(v)' = LastUse(v)
  <2>1. ASSUME NEW i PROVE NoteUse(v, i)' = NoteUse(v, i)
    BY DEF NoteUse, LoopsSince, DefAt, End
  <2>2. \A i : ForEachRead(i)' = ForEachRead(i) BY DEF ForEachRead
  <2> DEFINE S == {NoteUse(v, i) : i \in {j \in DOMAIN shader : v \in ForEachRead(j)}}
  <2>3. S' = S BY <2>1, <2>2
  <2> QED BY <2>3 DEF LastUse
<1> QED BY <1>1, <1>2, <1>3, <1>4, <1>5, <1>6 DEF ShaderInv

LEMMA WriteSteps ==
    ASSUME WriteNext, ShaderInv, Phases
    PROVE  ShaderInv' /\ Phases'
<1>1. ShaderInv' /\ phase = "write" /\ phase' = "write" /\ UNCHANGED <<at, codeVars, runVars>>
  <2>1. CASE \E op \in Plain : WriteInstr(op)
    BY <2>1, InstrWritten DEF WriteInstr, Written
  <2>2. CASE \E op \in {"if", "loop"} : WriteOpen(op)
    BY <2>2, OpenWritten DEF WriteOpen, Written
  <2>3. CASE WriteElse BY <2>3, ElseWritten DEF WriteElse, Written
  <2>4. CASE WriteEnd BY <2>4, EndWritten DEF WriteEnd, Written
  <2>5. CASE WriteBreak BY <2>5, BreakWritten DEF WriteBreak, Written
  <2>6. CASE WriteAgain BY <2>6, AgainWritten DEF WriteAgain, Written
  <2> QED BY <2>1, <2>2, <2>3, <2>4, <2>5, <2>6 DEF WriteNext, Plain
<1> QED BY <1>1 DEF Phases, codeVars, runVars, NoTemps

LEMMA TranslateStep ==
    ASSUME Translate, ShaderInv, Phases
    PROVE  ShaderInv' /\ Phases' /\ UNCHANGED shader
<1>1. UNCHANGED <<shader, seen, open>> BY DEF Translate, writeVars
<1>2. ShaderInv' /\ Made' = Made /\ \A v : LastUse(v)' = LastUse(v) BY <1>1, SameShader
<1>3. lastUse' = [v \in 1 .. Made |-> LastUse(v)] BY DEF Translate
<1>4. lastUse' = [v \in 1 .. Made' |-> LastUse(v)'] BY <1>2, <1>3
<1>5. open' = <<>> /\ shader' # <<>> /\ phase' = "translate" BY <1>1 DEF Translate
<1>6. shader[Len(shader)].op = "out"
  <2>1. shader \in Seq(Instrs) /\ shader # <<>> /\ Last(shader).op = "out"
    BY DEF ShaderInv, ShaderType, Translate
  <2> QED BY <2>1, SeqEnds
<1>7. Op(Len(shader))' = "out" BY <1>1, <1>6 DEF Op
<1> QED BY <1>1, <1>2, <1>4, <1>5, <1>7 DEF Phases

LEMMA LaterStep ==
    ASSUME Later, ShaderInv, Phases
    PROVE  ShaderInv' /\ Phases'
<1>1. UNCHANGED <<shader, seen, open>> /\ lastUse' = lastUse BY DEF Later, writeVars
<1>2. ShaderInv' /\ Made' = Made /\ \A v : LastUse(v)' = LastUse(v) BY <1>1, SameShader
<1>3. lastUse' = [v \in 1 .. Made' |-> LastUse(v)']
  BY <1>1, <1>2 DEF Later, Phases
<1>4. Op(Len(shader))' = Op(Len(shader)) BY <1>1 DEF Op
<1> QED BY <1>1, <1>2, <1>3, <1>4 DEF Phases, Later

LEMMA ShaderInit == ASSUME RegsInit PROVE ShaderInv /\ Phases
<1>1. shader = <<>> /\ open = <<>> /\ seen = {} /\ Prog = {} BY DEF RegsInit, Prog
<1>2. ShaderType BY <1>1 DEF ShaderType
<1>3. InOrder /\ SeenMade /\ Paired /\ Closing /\ Placed /\ Flows
  BY <1>1 DEF InOrder, SeenMade, Paired, Closing, Placed, Flows
<1>4. DOMAIN open = {} BY <1>1
<1>5. Stacked BY <1>4 DEF Stacked
<1> QED BY <1>2, <1>3, <1>5 DEF ShaderInv, Phases, RegsInit

LEMMA ShaderStep ==
    ASSUME ShaderInv, Phases, [RegsNext]_regsVars
    PROVE  ShaderInv' /\ Phases'
<1>1. CASE WriteNext BY <1>1, WriteSteps
<1>2. CASE Translate BY <1>2, TranslateStep
<1>3. CASE CodeNext \/ RunMove \/ RunOn BY <1>3, LaterSteps, LaterStep
<1>4. CASE UNCHANGED regsVars
  <2>1. UNCHANGED <<shader, seen, open>> BY <1>4 DEF regsVars, writeVars
  <2>2. ShaderInv' /\ Made' = Made /\ \A v : LastUse(v)' = LastUse(v) BY <2>1, SameShader
  <2>3. [v \in 1 .. Made' |-> LastUse(v)'] = [v \in 1 .. Made |-> LastUse(v)] BY <2>2
  <2>4. Op(Len(shader))' = Op(Len(shader)) BY <2>1 DEF Op
  <2> QED BY <1>4, <2>1, <2>2, <2>3, <2>4 DEF Phases, regsVars, writeVars, codeVars, runVars
<1> QED BY <1>1, <1>2, <1>3, <1>4 DEF RegsNext

-----------------------------------------------------------------------------
(* Where a value is made, where a loop ends, and which reads are noted.    *)
LEMMA ProgOf ==
    ASSUME ShaderInv
    PROVE  /\ Prog = 1 .. Len(shader) /\ Len(shader) \in Nat
           /\ \A i \in Prog : shader[i] \in Instrs /\ Op(i) \in Ops /\ shader[i].of \in Nat
           /\ \A i \in Prog : shader[i].sees \in SUBSET Values
<1>1. shader \in Seq(Instrs) BY DEF ShaderInv, ShaderType
<1>2. Prog = 1 .. Len(shader) /\ Len(shader) \in Nat /\ \A i \in Prog : shader[i] \in Instrs
  BY <1>1 DEF Prog
<1> QED BY <1>2 DEF Instrs, Op

LEMMA MadeIn ==
    ASSUME ShaderInv, NEW i \in Prog
    PROVE  MakesOf(i) \subseteq Values /\ MakesOf(i) \subseteq 1 .. Made
<1>1. shader[i].makes \in [1 .. Makes(Op(i)) -> Values] BY DEF ShaderInv, InOrder
<1>2. MakesOf(i) \subseteq Values BY <1>1 DEF MakesOf, Range
<1>3. Made \in Nat /\ \A v \in MakesOf(i) : v <= Made BY MadeOf DEF ShaderInv
<1>4. \A v \in Values : v \in Nat /\ 1 <= v BY RegsAssumption DEF Values
<1> QED BY <1>2, <1>3, <1>4

LEMMA DefOf ==
    ASSUME ShaderInv, NEW i \in Prog, NEW v \in MakesOf(i)
    PROVE  DefAt(v) = i
<1>1. \A j \in DOMAIN shader : v \in Range(shader[j].makes) => j = i
  <2> SUFFICES ASSUME NEW j \in Prog, v \in MakesOf(j), j # i PROVE FALSE
    BY DEF Prog, MakesOf
  <2>1. j < i \/ i < j BY ProgOf
  <2>2. v < v BY <2>1 DEF ShaderInv, InOrder
  <2>3. v \in Nat BY MadeIn, RegsAssumption DEF Values
  <2> QED BY <2>2, <2>3
<1>2. i \in DOMAIN shader /\ v \in Range(shader[i].makes) BY DEF Prog, MakesOf
<1> QED BY <1>1, <1>2 DEF DefAt

LEMMA EndOf ==
    ASSUME ShaderInv, open = <<>>
    PROVE  /\ \A l \in Prog : Op(l) = "loop" =>
                  End(l) \in Prog /\ Op(End(l)) = "again" /\ shader[End(l)].of = l /\ l < End(l)
           /\ \A j \in Prog : Op(j) = "again" =>
                  shader[j].of \in Prog /\ Op(shader[j].of) = "loop" /\ End(shader[j].of) = j
<1>1. ASSUME NEW l \in Prog, Op(l) = "loop"
      PROVE  \E j \in Prog : /\ Op(j) = "again" /\ shader[j].of = l /\ l < j
                             /\ \A m \in Prog : Op(m) = "again" /\ shader[m].of = l => m = j
  <2>1. DOMAIN open = {} BY <1>1
  <2>2. PICK j \in Prog : ClosedBy(l, j)
    BY <2>1, <1>1 DEF ShaderInv, Closing
  <2>3. Op(j) = "again" /\ shader[j].of = l BY <2>2, <1>1 DEF ClosedBy, MarksOf
  <2>4. \A m \in Prog : Op(m) = "again" /\ shader[m].of = l => m = j
    BY <2>2, <1>1 DEF ClosedBy, MarksOf
  <2>5. l < j BY <2>3 DEF ShaderInv, Paired
  <2> QED BY <2>3, <2>4, <2>5
<1>2. ASSUME NEW l \in Prog, Op(l) = "loop"
      PROVE  /\ End(l) \in Prog /\ Op(End(l)) = "again" /\ shader[End(l)].of = l /\ l < End(l)
             /\ \A m \in Prog : Op(m) = "again" /\ shader[m].of = l => m = End(l)
  BY <1>1, <1>2 DEF End, Prog, Op
<1>3. ASSUME NEW j \in Prog, Op(j) = "again"
      PROVE  shader[j].of \in Prog /\ Op(shader[j].of) = "loop"
  <2>1. shader[j].of # 0 /\ shader[j].of < j /\ Op(shader[j].of) = "loop"
    BY <1>3 DEF ShaderInv, Paired, Marks
  <2> QED BY <2>1, ProgOf
<1>4. \A j \in Prog : Op(j) = "again" =>
          shader[j].of \in Prog /\ Op(shader[j].of) = "loop" /\ End(shader[j].of) = j
  BY <1>2, <1>3
<1> QED BY <1>2, <1>4

LEMMA ReadOf ==
    ASSUME ShaderInv, NEW i \in Prog, NEW v \in Range(shader[i].reads)
    PROVE  v \in shader[i].sees /\ v \in Values
<1>1. PICK n \in Sources(Op(i)) : shader[i].reads \in [1 .. n -> shader[i].sees]
  BY DEF ShaderInv, SeenMade
<1>2. v \in shader[i].sees BY <1>1 DEF Range
<1> QED BY <1>2, ProgOf

LEMMA SeenOf ==
    ASSUME ShaderInv, NEW i \in Prog, NEW v \in shader[i].sees
    PROVE  /\ DefAt(v) \in Prog /\ DefAt(v) < i /\ v \in MakesOf(DefAt(v)) /\ v \in 1 .. Made
<1>1. PICK j \in 1 .. i - 1 : v \in MakesOf(j) BY DEF ShaderInv, SeenMade
<1>2. j \in Prog /\ j < i BY ProgOf
<1>3. DefAt(v) = j BY <1>1, <1>2, DefOf
<1> QED BY <1>1, <1>2, <1>3, MadeIn

LEMMA NoteUseOf ==
    ASSUME ShaderInv, open = <<>>, NEW i \in Prog, NEW v \in ForEachRead(i)
    PROVE  /\ NoteUse(v, i) \in Prog /\ i <= NoteUse(v, i)
           /\ NoteUse(v, i) = i \/ Op(NoteUse(v, i)) = "again"
           /\ \A l \in LoopsSince(v, i) : /\ l \in Prog /\ Op(l) = "loop" /\ DefAt(v) < l
                                          /\ l < i /\ i < End(l)
           /\ LoopsSince(v, i) # {} =>
                  /\ Min(LoopsSince(v, i)) \in LoopsSince(v, i)
                  /\ \A l \in LoopsSince(v, i) : Min(LoopsSince(v, i)) <= l
                  /\ NoteUse(v, i) = End(Min(LoopsSince(v, i)))
           /\ DefAt(v) \in Prog /\ DefAt(v) < i /\ v \in MakesOf(DefAt(v))
<1>1. v \in Range(shader[i].reads) BY DEF ForEachRead
<1>2. DefAt(v) \in Prog /\ DefAt(v) < i /\ v \in MakesOf(DefAt(v)) BY <1>1, ReadOf, SeenOf
<1>3. Prog = 1 .. Len(shader) /\ Len(shader) \in Nat BY ProgOf
<1>4. \A l \in LoopsSince(v, i) : /\ l \in Prog /\ Op(l) = "loop" /\ DefAt(v) < l
                                  /\ l < i /\ i < End(l)
  BY <1>2, <1>3 DEF LoopsSince, Op
<1>5. ASSUME LoopsSince(v, i) # {}
      PROVE  /\ Min(LoopsSince(v, i)) \in LoopsSince(v, i)
             /\ \A l \in LoopsSince(v, i) : Min(LoopsSince(v, i)) <= l
  <2>1. LoopsSince(v, i) \in SUBSET Nat BY <1>3, <1>4
  <2> QED BY <1>5, <2>1, MinOf
<1>6. CASE LoopsSince(v, i) = {}
  <2>1. NoteUse(v, i) = i BY <1>6 DEF NoteUse
  <2> QED BY <1>2, <1>3, <1>4, <1>6, <2>1
<1>7. CASE LoopsSince(v, i) # {}
  <2> DEFINE l == Min(LoopsSince(v, i))
  <2>1. NoteUse(v, i) = End(l) BY <1>7 DEF NoteUse
  <2>2. l \in Prog /\ Op(l) = "loop" /\ i < End(l) BY <1>4, <1>5, <1>7
  <2>3. End(l) \in Prog /\ Op(End(l)) = "again" BY <2>2, EndOf
  <2> HIDE DEF l
  <2>4. i <= End(l) BY <2>2, <2>3, <1>3
  <2> QED BY <1>2, <1>4, <1>5, <1>7, <2>1, <2>3, <2>4 DEF l
<1> QED BY <1>6, <1>7

LEMMA LastUseOf ==
    ASSUME ShaderInv, open = <<>>, NEW v
    PROVE  /\ LastUse(v) \in 0 .. Len(shader)
           /\ \A i \in Prog : v \in ForEachRead(i) => NoteUse(v, i) <= LastUse(v)
           /\ LastUse(v) # 0 => \E i \in Prog : v \in ForEachRead(i) /\ LastUse(v) = NoteUse(v, i)
<1> DEFINE S == {0} \cup {NoteUse(v, i) : i \in {j \in DOMAIN shader : v \in ForEachRead(j)}}
<1>1. Prog = 1 .. Len(shader) /\ Len(shader) \in Nat BY ProgOf
<1>2. \A i \in Prog : v \in ForEachRead(i) => NoteUse(v, i) \in Prog BY NoteUseOf
<1>3. S \in SUBSET (0 .. Len(shader)) BY <1>1, <1>2 DEF Prog
<1>4. Max(S) \in S /\ \A x \in S : x <= Max(S) BY <1>1, <1>3, MaxOf
<1>5. LastUse(v) = Max(S) BY DEF LastUse
<1>6. \A i \in Prog : v \in ForEachRead(i) => NoteUse(v, i) \in S BY DEF Prog
<1> QED BY <1>3, <1>4, <1>5, <1>6 DEF Prog

(* The walk over the uses notes enough.  The case that needs the outermost *)
(* loop: a value made before several loops that nest.                      *)
LEMMA LastUsesHold ==
    ASSUME ShaderInv, Phases
    PROVE  LastUses
<1> SUFFICES ASSUME phase # "write"
             PROVE  /\ lastUse \in [1 .. Made -> 0 .. Len(shader)]
                    /\ \A i \in Prog : \A v \in ForEachRead(i) : i <= lastUse[v]
                    /\ \A v \in 1 .. Made : lastUse[v] # 0 =>
                           v \in ForEachRead(lastUse[v]) \/ Op(lastUse[v]) = "again"
                    /\ \A i \in Prog : \A v \in MakesOf(i) : lastUse[v] # 0 => i < lastUse[v]
                    /\ \A j \in Prog : Op(j) = "again" =>
                          \A v \in shader[shader[j].of].sees :
                              shader[j].of <= lastUse[v] => j <= lastUse[v]
                    /\ \A v \in Range(Colour) : lastUse[v] = Len(shader)
  BY DEF LastUses
<1>0. /\ open = <<>> /\ shader # <<>> /\ Op(Len(shader)) = "out"
      /\ lastUse = [v \in 1 .. Made |-> LastUse(v)]
      /\ Prog = 1 .. Len(shader) /\ Len(shader) \in Nat
  BY ProgOf DEF Phases
<1>1. \A v \in 1 .. Made : lastUse[v] = LastUse(v) BY <1>0
<1>2. lastUse \in [1 .. Made -> 0 .. Len(shader)] BY <1>0, LastUseOf
<1>3. ASSUME NEW i \in Prog, NEW v \in ForEachRead(i) PROVE v \in 1 .. Made /\ i <= lastUse[v]
  <2>1. v \in 1 .. Made BY ReadOf, SeenOf DEF ForEachRead
  <2>2. NoteUse(v, i) \in Prog /\ i <= NoteUse(v, i) BY <1>0, NoteUseOf
  <2>3. NoteUse(v, i) <= LastUse(v) /\ LastUse(v) \in 0 .. Len(shader) BY <1>0, LastUseOf
  <2> QED BY <2>1, <2>2, <2>3, <1>0, <1>1
<1>4. ASSUME NEW v \in 1 .. Made, lastUse[v] # 0
      PROVE  \E i \in Prog : v \in ForEachRead(i) /\ lastUse[v] = NoteUse(v, i)
  BY <1>0, <1>1, <1>4, LastUseOf
<1>5. ASSUME NEW v \in 1 .. Made, lastUse[v] # 0
      PROVE  v \in ForEachRead(lastUse[v]) \/ Op(lastUse[v]) = "again"
  <2>1. PICK i \in Prog : v \in ForEachRead(i) /\ lastUse[v] = NoteUse(v, i) BY <1>4, <1>5
  <2> QED BY <2>1, <1>0, NoteUseOf
<1>6. ASSUME NEW i \in Prog, NEW v \in MakesOf(i), lastUse[v] # 0 PROVE i < lastUse[v]
  <2>1. v \in 1 .. Made BY MadeIn
  <2>2. PICK j \in Prog : v \in ForEachRead(j) /\ lastUse[v] = NoteUse(v, j) BY <1>4, <1>6, <2>1
  <2>3. DefAt(v) = i BY DefOf
  <2>4. i < j /\ j <= lastUse[v] /\ lastUse[v] \in Prog BY <1>0, <2>2, <2>3, NoteUseOf
  <2> QED BY <2>4, <1>0
<1>7. ASSUME NEW j \in Prog, Op(j) = "again", NEW v \in shader[shader[j].of].sees,
             shader[j].of <= lastUse[v]
      PROVE  j <= lastUse[v]
  <2> DEFINE l == shader[j].of
  <2>1. l \in Prog /\ Op(l) = "loop" /\ End(l) = j /\ l < j BY <1>0, <1>7, EndOf
  <2> HIDE DEF l
  <2>2. DefAt(v) < l /\ DefAt(v) \in Prog /\ v \in 1 .. Made BY <2>1, SeenOf DEF l
  <2>3. lastUse[v] # 0 BY <1>7, <2>1, <1>0 DEF l
  <2>4. PICK i \in Prog : v \in ForEachRead(i) /\ lastUse[v] = NoteUse(v, i) BY <1>4, <2>2, <2>3
  <2>5. lastUse[v] \in Prog /\ i <= lastUse[v] BY <2>4, <1>0, NoteUseOf
  <2>6. CASE i >= j BY <2>5, <2>6, <1>0
  <2>7. ASSUME NEW m \in Prog, Op(m) = "loop", m < l, l < End(m) PROVE j < End(m)
    <3>1. End(m) \in Prog /\ Op(End(m)) = "again" /\ shader[End(m)].of = m BY <2>7, <1>0, EndOf
    <3>2. PICK e \in MarksOf(l) : Op(e) = "again" /\ e < End(m)
      BY <3>1, <2>1, <2>7 DEF ShaderInv, Closing
    <3>3. e \in Prog /\ shader[e].of = l BY <3>2 DEF MarksOf
    <3>4. e = j BY <3>2, <3>3, <2>1, <1>0, EndOf
    <3> QED BY <3>2, <3>4
  <2>8. CASE i < l
    <3>1. NoteUse(v, i) # i BY <2>8, <2>4, <1>7, <2>1, <1>0 DEF l
    <3>2. LoopsSince(v, i) # {} BY <3>1 DEF NoteUse
    <3> DEFINE m == Min(LoopsSince(v, i))
    <3>3. m \in Prog /\ Op(m) = "loop" /\ m < i /\ lastUse[v] = End(m)
      BY <3>2, <2>4, <1>0, NoteUseOf
    <3> HIDE DEF m
    <3>4. End(m) \in Prog /\ shader[End(m)].of = m BY <3>3, <1>0, EndOf
    <3>5. l <= End(m) BY <3>3, <1>7 DEF l
    <3>6. l # End(m)
      <4>1. Op(End(m)) = "again" BY <3>3, <1>0, EndOf
      <4> QED BY <4>1, <2>1
    <3>7. m < l /\ l < End(m) BY <3>3, <3>4, <3>5, <3>6, <2>8, <2>1, <1>0
    <3>8. j < End(m) BY <2>7, <3>3, <3>7
    <3> QED BY <3>3, <3>4, <3>8, <1>0
  <2>9. CASE l < i /\ i < j
    <3>1. l \in LoopsSince(v, i)
      BY <2>9, <2>1, <2>2, <1>0 DEF LoopsSince, Op
    <3> DEFINE m == Min(LoopsSince(v, i))
    <3>2. m \in Prog /\ Op(m) = "loop" /\ i < End(m) /\ lastUse[v] = End(m) /\ m <= l
      BY <3>1, <2>4, <1>0, NoteUseOf
    <3> HIDE DEF m
    <3>3. CASE m = l BY <3>3, <3>2, <2>1, <1>0
    <3>4. CASE m < l
      <4>1. End(m) \in Prog BY <3>2, <1>0, EndOf
      <4>2. l < End(m) BY <4>1, <3>2, <2>9, <2>1, <1>0
      <4>3. j < End(m) BY <2>7, <3>2, <3>4, <4>2
      <4> QED BY <4>1, <4>3, <3>2, <1>0
    <3> QED BY <3>2, <3>3, <3>4, <2>1, <1>0
  <2>10. CASE i = l
    <3>1. v \in Range(shader[l].reads) BY <2>4, <2>10 DEF ForEachRead
    <3>2. PICK n \in Sources(Op(l)) : shader[l].reads \in [1 .. n -> shader[l].sees]
      BY <2>1 DEF ShaderInv, SeenMade
    <3>3. n = 0 BY <3>2, <2>1 DEF Sources
    <3> QED BY <3>1, <3>2, <3>3 DEF Range
  <2> QED BY <2>6, <2>8, <2>9, <2>10, <2>1, <1>0
<1>8. ASSUME NEW v \in Range(Colour) PROVE lastUse[v] = Len(shader)
  <2>1. Colour = shader[Len(shader)].reads
    <3>1. Last(shader) = shader[Len(shader)] BY <1>0, SeqEnds DEF ShaderInv, ShaderType
    <3> QED BY <3>1 DEF Colour
  <2>2. Len(shader) \in Prog BY <1>0, EmptySeq DEF ShaderInv, ShaderType
  <2>3. v \in ForEachRead(Len(shader)) BY <1>0, <2>1 DEF ForEachRead, Op
  <2>4. v \in 1 .. Made /\ Len(shader) <= lastUse[v] BY <2>2, <2>3, <1>3
  <2> QED BY <2>4, <1>2, <1>0
<1> QED BY <1>2, <1>3, <1>5, <1>6, <1>7, <1>8

-----------------------------------------------------------------------------
(* Tables: one entry, and newer entries over older ones.                   *)
LEMMA OnlyOf ==
    ASSUME NEW r, NEW v
    PROVE  DOMAIN Only(r, v) = {r} /\ Only(r, v)[r] = v
BY DEF Only

LEMMA OverOf ==
    ASSUME NEW f, NEW g
    PROVE  /\ DOMAIN Over(f, g) = DOMAIN f \cup DOMAIN g
           /\ \A x \in DOMAIN f : Over(f, g)[x] = f[x]
           /\ \A x \in DOMAIN g \ DOMAIN f : Over(f, g)[x] = g[x]
BY DEF Over

LEMMA LocsOf ==
    ASSUME NEW f \in Locs
    PROVE  DOMAIN f \subseteq Values \cup {Web} /\ \A x \in DOMAIN f : f[x] \in Temps
BY DEF Locs

LEMMA OverLocs ==
    ASSUME NEW f, NEW g \in Locs, DOMAIN f \subseteq Values \cup {Web}, \A x \in DOMAIN f : f[x] \in Temps
    PROVE  Over(f, g) \in Locs
<1> DEFINE S == DOMAIN f \cup DOMAIN g
<1>1. S \in SUBSET (Values \cup {Web}) BY LocsOf
<1>2. \A x \in S : (IF x \in DOMAIN f THEN f[x] ELSE g[x]) \in Temps BY LocsOf
<1>3. Over(f, g) \in [S -> Temps] BY <1>2 DEF Over
<1> HIDE DEF S
<1> QED BY <1>1, <1>3 DEF Locs

LEMMA TempsFields ==
    ASSUME NEW t \in TempsOf
    PROVE  /\ t.used \in SUBSET Temps /\ t.loc \in Locs /\ t.owned \in SUBSET Values
           /\ t.out \in Nat \cup {NoTemp, NoRoom} /\ t.out \in Int
           /\ \A x \in t.owned : x # Web
           /\ t = [used |-> t.used, loc |-> t.loc, owned |-> t.owned, out |-> t.out]
BY RegsAssumption DEF TempsOf, NoTemp, NoRoom, Values, Web

(* Giving back what was read for the last time keeps the rest apart.       *)
LEMMA ReleaseTidy ==
    ASSUME NEW t, Tidy(t), NEW who
    PROVE  /\ Tidy(Release(t, who))
           /\ Release(t, who).loc = t.loc /\ Release(t, who).out = t.out
           /\ \A v : v \in Release(t, who).owned <=>
                  v \in t.owned /\ ~(v \in who /\ lastUse[v] = at /\ ~Stays(v))
<1> DEFINE dead == {v \in t.owned \cap who : lastUse[v] = at /\ ~Stays(v)}
           gone == {t.loc[v] : v \in dead}
           new == [used |-> t.used \ gone, loc |-> t.loc, owned |-> t.owned \ dead, out |-> t.out]
<1>1. /\ t \in TempsOf /\ t.owned \subseteq DOMAIN t.loc
      /\ t.used = Held(t) \cup Outs(t) \cup Webs(t)
      /\ \A v, w \in t.owned : t.loc[v] = t.loc[w] => v = w
      /\ Held(t) \cap Outs(t) = {} /\ Webs(t) \cap (Held(t) \cup Outs(t)) = {}
  BY DEF Tidy
<1>2. Release(t, who) = new
  <2>1. Release(t, who) = [t EXCEPT !.used = @ \ gone, !.owned = @ \ dead]
    BY DEF Release
  <2>2. t = [used |-> t.used, loc |-> t.loc, owned |-> t.owned, out |-> t.out]
    BY <1>1, TempsFields
  <2> QED BY <2>1, <2>2
<1>3. new \in TempsOf BY <1>1 DEF TempsOf
<1>4. Outs(new) = Outs(t) /\ Webs(new) = Webs(t) BY DEF Outs, Webs
<1>5. Held(new) = Held(t) \ gone
  <2>1. Held(new) = {t.loc[v] : v \in t.owned \ dead} BY DEF Held
  <2>2. dead \subseteq t.owned OBVIOUS
  <2> HIDE DEF dead
  <2>3. {t.loc[v] : v \in t.owned \ dead} = {t.loc[v] : v \in t.owned} \ gone
    BY <1>1, <2>2
  <2> QED BY <2>1, <2>3 DEF Held
<1>6. gone \subseteq Held(t) BY DEF Held
<1>7. new.used = Held(new) \cup Outs(new) \cup Webs(new) BY <1>1, <1>4, <1>5, <1>6
<1>8. Tidy(new)
  <2>1. \A v, w \in new.owned : new.loc[v] = new.loc[w] => v = w BY <1>1
  <2>2. Held(new) \cap Outs(new) = {} /\ Webs(new) \cap (Held(new) \cup Outs(new)) = {}
    BY <1>1, <1>4, <1>5
  <2>3. new.owned \subseteq DOMAIN new.loc BY <1>1
  <2> HIDE DEF new
  <2> QED BY <1>3, <1>7, <2>1, <2>2, <2>3 DEF Tidy
<1> QED BY <1>2, <1>8

(* What an instruction takes and gives back, whichever it is: from t, its   *)
(* temporaries before but for the colour's and the declared register's.     *)
Takes(t, takes, scratch, home) ==
    /\ t \in TempsOf /\ Tidy(t)
    /\ DOMAIN home \subseteq MakesOf(at) /\ \A v \in DOMAIN home : home[v] \in Temps
    /\ \A v, w \in DOMAIN home : home[v] = home[w] => v = w
    /\ DOMAIN home \cap DOMAIN t.loc = {}
    /\ t.used \cup UNION {a.used : a \in takes} = t.used \cup scratch \cup {home[v] : v \in DOMAIN home}
    /\ scratch \cap t.used = {}
    /\ {home[v] : v \in DOMAIN home} \cap (t.used \cup scratch) = {}

Dead(home) == {v \in DOMAIN home : lastUse[v] = 0}
Given(t, home) ==
    [used |-> t.used \cup {home[v] : v \in DOMAIN home \ Dead(home)}, loc |-> Over(home, t.loc),
     owned |-> t.owned \cup (DOMAIN home \ Dead(home)), out |-> t.out]

LEMMA GivenTidy ==
    ASSUME ShaderInv, at \in Prog, NEW t, NEW takes, NEW scratch, NEW home,
           Takes(t, takes, scratch, home)
    PROVE  Tidy(Given(t, home))
<1> DEFINE live == DOMAIN home \ Dead(home)
           homes == {home[v] : v \in live}
           new == Given(t, home)
<1>1. /\ t \in TempsOf /\ t.owned \subseteq DOMAIN t.loc
      /\ t.used = Held(t) \cup Outs(t) \cup Webs(t)
      /\ \A v, w \in t.owned : t.loc[v] = t.loc[w] => v = w
      /\ Held(t) \cap Outs(t) = {} /\ Webs(t) \cap (Held(t) \cup Outs(t)) = {}
  BY DEF Tidy, Takes
<1>2. /\ DOMAIN home \subseteq Values /\ live \subseteq DOMAIN home
      /\ \A v \in DOMAIN home : home[v] \in Temps /\ home[v] \notin t.used
      /\ \A v, w \in DOMAIN home : home[v] = home[w] => v = w
      /\ DOMAIN home \cap DOMAIN t.loc = {} /\ \A v \in DOMAIN home : v # Web
  <2>1. MakesOf(at) \subseteq Values BY MadeIn
  <2>2. \A v \in Values : v # Web BY RegsAssumption DEF Values, Web
  <2> QED BY <2>1, <2>2 DEF Takes, Dead
<1> HIDE DEF live
<1>3. /\ new.used = t.used \cup homes /\ new.loc = Over(home, t.loc)
      /\ new.owned = t.owned \cup live /\ new.out = t.out
  BY DEF Given, live
<1>4. /\ DOMAIN new.loc = DOMAIN home \cup DOMAIN t.loc
      /\ \A v \in DOMAIN home : new.loc[v] = home[v]
      /\ \A v \in DOMAIN t.loc : new.loc[v] = t.loc[v]
  <2> DEFINE l == t.loc
             o == Over(home, l)
  <2>1. /\ DOMAIN o = DOMAIN home \cup DOMAIN l
        /\ \A x \in DOMAIN home : o[x] = home[x]
        /\ \A x \in DOMAIN l \ DOMAIN home : o[x] = l[x]
    BY OverOf
  <2>2. new.loc = o /\ DOMAIN home \cap DOMAIN l = {} BY <1>2, <1>3
  <2> HIDE DEF o
  <2> QED BY <2>1, <2>2
<1>5. new \in TempsOf
  <2>1. new.loc \in Locs BY <1>1, <1>2, <1>3, TempsFields, OverLocs
  <2>2. t.used \cup homes \in SUBSET Temps /\ t.owned \cup live \in SUBSET Values
        /\ t.out \in Nat \cup {NoTemp, NoRoom}
    BY <1>1, <1>2, TempsFields
  <2>3. new = [used |-> t.used \cup homes, loc |-> Over(home, t.loc), owned |-> t.owned \cup live, out |-> t.out]
    BY DEF Given, live
  <2> HIDE DEF new, homes
  <2>4. Over(home, t.loc) \in Locs BY <2>1, <1>3
  <2> QED BY <2>2, <2>3, <2>4 DEF TempsOf
<1> HIDE DEF new
<1>6. new.owned \subseteq DOMAIN new.loc BY <1>1, <1>2, <1>3, <1>4
<1>7. Held(new) = Held(t) \cup homes
  <2>1. \A v \in t.owned : new.loc[v] = t.loc[v] BY <1>1, <1>4
  <2>2. \A v \in live : new.loc[v] = home[v] BY <1>2, <1>4
  <2>3. {new.loc[v] : v \in t.owned \cup live} = {t.loc[v] : v \in t.owned} \cup homes
    BY <2>1, <2>2
  <2> QED BY <2>3, <1>3 DEF Held
<1>8. Outs(new) = Outs(t) BY <1>3 DEF Outs
<1>9. Webs(new) = Webs(t)
  <2>1. Web \in DOMAIN new.loc <=> Web \in DOMAIN t.loc BY <1>2, <1>4
  <2>2. Web \in DOMAIN t.loc => new.loc[Web] = t.loc[Web] BY <1>4
  <2> QED BY <2>1, <2>2 DEF Webs
<1>10. homes \cap t.used = {} BY <1>2
<1> HIDE DEF homes
<1>11. new.used = Held(new) \cup Outs(new) \cup Webs(new)
  BY <1>1, <1>3, <1>7, <1>8, <1>9
<1>12. Held(new) \cap Outs(new) = {} /\ Webs(new) \cap (Held(new) \cup Outs(new)) = {}
  BY <1>1, <1>7, <1>8, <1>9, <1>10
<1>13. \A v, w \in new.owned : new.loc[v] = new.loc[w] => v = w
  <2> SUFFICES ASSUME NEW v \in new.owned, NEW w \in new.owned, new.loc[v] = new.loc[w] PROVE v = w
    OBVIOUS
  <2>0. /\ \A x \in t.owned : new.loc[x] = t.loc[x] /\ t.loc[x] \in t.used
        /\ \A x \in live : new.loc[x] = home[x] /\ home[x] \notin t.used
    BY <1>1, <1>2, <1>4 DEF Held
  <2>1. CASE v \in t.owned /\ w \in t.owned BY <2>0, <2>1, <1>1
  <2>2. CASE v \in live /\ w \in live BY <2>0, <2>2, <1>2
  <2>3. CASE v \in t.owned /\ w \in live BY <2>0, <2>3
  <2>4. CASE v \in live /\ w \in t.owned BY <2>0, <2>4
  <2> QED BY <2>1, <2>2, <2>3, <2>4, <1>3
<1>14. Tidy(new) BY <1>5, <1>6, <1>11, <1>12, <1>13 DEF Tidy
<1> QED BY <1>14 DEF new

LEMMA EmitGives ==
    ASSUME ShaderInv, at \in Prog, NEW t, NEW takes, NEW scratch, NEW home, NEW moves,
           Takes(t, takes, scratch, home), Emit(t, takes, scratch, home, moves),
           \A a \in takes : a.at # NoTemp
    PROVE  /\ temps' = Release(Given(t, home), ForEachRead(at))
           /\ code' = Append(code, moves) /\ at' = at + 1 /\ phase' = phase
<1> DEFINE dead == {v \in DOMAIN home : lastUse[v] = 0}
           used == t.used \cup UNION {a.used : a \in takes}
           mid == [t EXCEPT !.used = used \ (scratch \cup {home[v] : v \in dead}),
                            !.loc = Over(home, @), !.owned = @ \cup (DOMAIN home \ dead)]
<1>1. /\ temps' = Release(mid, ForEachRead(at))
      /\ code' = Append(code, moves) /\ at' = at + 1 /\ phase' = phase
  BY DEF Emit
<1>2. t = [used |-> t.used, loc |-> t.loc, owned |-> t.owned, out |-> t.out]
  BY TempsFields DEF Takes
<1>3. used \ (scratch \cup {home[v] : v \in dead}) = t.used \cup {home[v] : v \in DOMAIN home \ dead}
  <2>1. used = t.used \cup scratch \cup {home[v] : v \in DOMAIN home} BY DEF Takes
  <2>2. /\ scratch \cap t.used = {} /\ {home[v] : v \in DOMAIN home} \cap (t.used \cup scratch) = {}
        /\ \A v, w \in DOMAIN home : home[v] = home[w] => v = w
    BY DEF Takes
  <2>3. dead \subseteq DOMAIN home OBVIOUS
  <2> HIDE DEF used, dead
  <2>4. {home[v] : v \in DOMAIN home} \ {home[v] : v \in dead} = {home[v] : v \in DOMAIN home \ dead}
    BY <2>2, <2>3
  <2> QED BY <2>1, <2>2, <2>3, <2>4
<1>4. dead = Dead(home) BY DEF Dead
<1> HIDE DEF used, dead
<1>5. mid = [used |-> used \ (scratch \cup {home[v] : v \in dead}), loc |-> Over(home, t.loc),
             owned |-> t.owned \cup (DOMAIN home \ dead), out |-> t.out]
  <2> DEFINE u == used \ (scratch \cup {home[v] : v \in dead})
             l == Over(home, t.loc)
             o == t.owned \cup (DOMAIN home \ dead)
  <2>1. mid = [t EXCEPT !.used = u, !.loc = l, !.owned = o] OBVIOUS
  <2> HIDE DEF u, l, o, mid
  <2>2. mid = [used |-> u, loc |-> l, owned |-> o, out |-> t.out] BY <1>2, <2>1
  <2> QED BY <2>2 DEF u, l, o
<1>6. mid = Given(t, home) BY <1>3, <1>4, <1>5 DEF Given
<1> QED BY <1>1, <1>6

Agrees(f, g) == DOMAIN f \subseteq DOMAIN g /\ \A x \in DOMAIN f : g[x] = f[x]

LEMMA SameHomed ==
    ASSUME UNCHANGED <<shader, lastUse>>, NEW t, NEW i
    PROVE  Homed(t, i)' <=> Homed(t, i)
<1>1. \A v, j : MadeBefore(v, j)' = MadeBefore(v, j) BY DEF MadeBefore, Prog, MakesOf
<1>2. \A v, j : Live(v, j)' = Live(v, j) BY DEF Live, Colour
<1>3. \A v : Fixed(t, v)' = Fixed(t, v) BY DEF Fixed, ColourId, DefAt, Colour
<1> QED BY <1>1, <1>2, <1>3 DEF Homed, Op

LEMMA ColourOf ==
    ASSUME ShaderInv, phase # "write", Phases
    PROVE  /\ Colour = shader[Len(shader)].reads /\ Len(shader) \in Prog /\ Op(Len(shader)) = "out"
           /\ Colour \in [1 .. ColourLen -> Values] /\ DOMAIN Colour = 1 .. ColourLen
           /\ Range(Colour) \subseteq shader[Len(shader)].sees
           /\ \A v \in Range(Colour) : lastUse[v] = Len(shader)
           /\ \A v : ColourId(v) # 0 => /\ ColourId(v) \in 1 .. ColourLen /\ Colour[ColourId(v)] = v
                                        /\ shader[DefAt(v)].op = "fmul" /\ v \in Range(Colour)
           /\ \A v : ColourId(v) \in 0 .. ColourLen
<1>1. shader # <<>> /\ Op(Len(shader)) = "out" BY DEF Phases
<1>2. Last(shader) = shader[Len(shader)] BY <1>1, SeqEnds DEF ShaderInv, ShaderType
<1>3. Colour = shader[Len(shader)].reads BY <1>2 DEF Colour
<1>4. Len(shader) \in Prog BY <1>1, ProgOf, EmptySeq DEF ShaderInv, ShaderType
<1>5. \E n \in Sources("out") : Colour \in [1 .. n -> shader[Len(shader)].sees]
  BY <1>1, <1>3, <1>4 DEF ShaderInv, SeenMade
<1>6. Colour \in [1 .. ColourLen -> shader[Len(shader)].sees] BY <1>5 DEF Sources
<1>7. shader[Len(shader)].sees \subseteq Values BY <1>4, ProgOf
<1>8. ColourLen \in Nat \ {0} BY RegsAssumption
<1>9. /\ Colour \in [1 .. ColourLen -> Values] /\ DOMAIN Colour = 1 .. ColourLen
      /\ Range(Colour) \subseteq shader[Len(shader)].sees
  BY <1>6, <1>7 DEF Range
<1>10. \A v \in Range(Colour) : lastUse[v] = Len(shader) BY LastUsesHold DEF LastUses
<1>11. ASSUME NEW v
       PROVE  /\ ColourId(v) # 0 => /\ ColourId(v) \in 1 .. ColourLen /\ Colour[ColourId(v)] = v
                                    /\ shader[DefAt(v)].op = "fmul" /\ v \in Range(Colour)
              /\ ColourId(v) \in 0 .. ColourLen
  <2>1. CASE shader[DefAt(v)].op = "fmul" /\ v \in Range(Colour)
    <3> DEFINE S == {i \in DOMAIN Colour : Colour[i] = v}
    <3>1. S \in SUBSET Nat /\ S # {} BY <2>1, <1>9 DEF Range
    <3>2. Min(S) \in S BY <3>1, MinOf
    <3>3. ColourId(v) = Min(S) BY <2>1 DEF ColourId
    <3> QED BY <3>2, <3>3, <2>1, <1>9, <1>8
  <2>2. CASE ~(shader[DefAt(v)].op = "fmul" /\ v \in Range(Colour))
    <3>1. ColourId(v) = 0 BY <2>2 DEF ColourId
    <3> QED BY <3>1, <1>8
  <2> QED BY <2>1, <2>2
<1> QED BY <1>1, <1>3, <1>4, <1>9, <1>10, <1>11

Widens(t, home) ==
    /\ t.owned = temps.owned /\ (temps.out >= 0 => t.out = temps.out)
    /\ Agrees(temps.loc, t.loc)
    /\ DOMAIN t.loc \subseteq DOMAIN temps.loc \cup MakesOf(at) \cup {Web}
    /\ Web \in DOMAIN t.loc <=> Op(1) = "decl"
    /\ \A v \in MakesOf(at) : lastUse[v] # 0 =>
           v \in DOMAIN home \/ (v \in DOMAIN t.loc /\ Fixed(t, v))

LEMMA BeforeNext ==
    ASSUME ShaderInv, at \in Prog
    PROVE  \A v : MadeBefore(v, at + 1) <=> MadeBefore(v, at) \/ v \in MakesOf(at)
<1>1. \A j \in Prog : j < at + 1 <=> j < at \/ j = at BY ProgOf
<1> QED BY <1>1 DEF MadeBefore

(* After an instruction, what is still to be read has its temporary: what  *)
(* was kept, and what the instruction made.                                *)
LEMMA HomedNext ==
    ASSUME ShaderInv, Phases, phase = "translate", Tidy(temps), Homed(temps, at), at \in Prog,
           Op(at) # "again", NEW t, NEW takes, NEW scratch, NEW home,
           Takes(t, takes, scratch, home), Widens(t, home)
    PROVE  /\ Tidy(Release(Given(t, home), ForEachRead(at)))
           /\ Homed(Release(Given(t, home), ForEachRead(at)), at + 1)
           /\ Agrees(t.loc, Release(Given(t, home), ForEachRead(at)).loc)
           /\ Agrees(temps.loc, Release(Given(t, home), ForEachRead(at)).loc)
           /\ Release(Given(t, home), ForEachRead(at)).loc = Over(home, t.loc)
<1> DEFINE g == Given(t, home)
           r == Release(g, ForEachRead(at))
<1>1. Tidy(g) BY GivenTidy
<1>2. /\ Tidy(r) /\ r.loc = g.loc /\ r.out = g.out
      /\ \A v : v \in r.owned <=> v \in g.owned /\ ~(v \in ForEachRead(at) /\ lastUse[v] = at /\ ~Stays(v))
  BY <1>1, ReleaseTidy
<1>3. /\ g.loc = Over(home, t.loc) /\ g.out = t.out /\ g.owned = t.owned \cup (DOMAIN home \ Dead(home))
  BY DEF Given
<1> HIDE DEF g, r
<1>4. /\ DOMAIN r.loc = DOMAIN home \cup DOMAIN t.loc
      /\ \A v \in DOMAIN home : r.loc[v] = home[v]
      /\ \A v \in DOMAIN t.loc : r.loc[v] = t.loc[v]
  <2> DEFINE l == t.loc
             o == Over(home, l)
  <2>1. /\ DOMAIN o = DOMAIN home \cup DOMAIN l
        /\ \A x \in DOMAIN home : o[x] = home[x]
        /\ \A x \in DOMAIN l \ DOMAIN home : o[x] = l[x]
    BY OverOf
  <2>2. r.loc = o /\ DOMAIN home \cap DOMAIN l = {} BY <1>2, <1>3 DEF Takes
  <2> HIDE DEF o
  <2> QED BY <2>1, <2>2
<1>5. Agrees(t.loc, r.loc) BY <1>4 DEF Agrees
<1>6. Agrees(temps.loc, r.loc) BY <1>5 DEF Agrees, Widens
<1>7. /\ Prog = 1 .. Len(shader) /\ Len(shader) \in Nat BY ProgOf
<1>8. lastUse \in [1 .. Made -> 0 .. Len(shader)]
  BY LastUsesHold DEF LastUses
<1>b. \A v : MadeBefore(v, at + 1) <=> MadeBefore(v, at) \/ v \in MakesOf(at) BY BeforeNext
<1>m. \A v : MadeBefore(v, at + 1) => v \in 1 .. Made /\ lastUse[v] \in 0 .. Len(shader)
  <2>1. \A v : MadeBefore(v, at + 1) => v \in 1 .. Made BY MadeIn DEF MadeBefore
  <2> QED BY <2>1, <1>8
<1>9. \A v \in MakesOf(at) : lastUse[v] # 0 => at < lastUse[v] BY LastUsesHold DEF LastUses
<1>c. \A v \in Range(Colour) : lastUse[v] = Len(shader) BY ColourOf
<1>10. \A v \in DOMAIN home : v \in MakesOf(at) BY DEF Takes
<1>11. ASSUME NEW v \in r.owned PROVE MadeBefore(v, at + 1) /\ Live(v, at + 1)
  <2>1. CASE v \in DOMAIN home \ Dead(home)
    <3>1. v \in MakesOf(at) /\ lastUse[v] # 0 BY <2>1, <1>10 DEF Dead
    <3>2. lastUse[v] \in 0 .. Len(shader) BY <3>1, <1>b, <1>m
    <3> QED BY <3>1, <3>2, <1>9, <1>b, <1>7 DEF Live
  <2>2. CASE v \in temps.owned
    <3>1. MadeBefore(v, at) /\ Live(v, at) BY <2>2 DEF Homed
    <3>2. MadeBefore(v, at + 1) /\ v \in 1 .. Made /\ lastUse[v] \in 0 .. Len(shader) BY <3>1, <1>b, <1>m
    <3>3. lastUse[v] >= at BY <3>1, <1>7 DEF Live
    <3>4. CASE lastUse[v] = at
      <4>1. lastUse[v] # 0 BY <3>4, <1>7
      <4>2. v \in ForEachRead(at) BY <4>1, <3>4, <3>2, LastUsesHold DEF LastUses
      <4>3. Stays(v) BY <4>2, <3>4, <1>2
      <4>4. v \in Range(Colour) /\ Op(at) = "out" BY <4>3 DEF Stays, Now, Op
      <4>5. at = Len(shader) BY <4>4 DEF ShaderInv, Placed
      <4> QED BY <4>4, <4>5, <3>2, <1>7 DEF Live
    <3>5. CASE lastUse[v] # at BY <3>2, <3>3, <3>5, <1>7 DEF Live
    <3> QED BY <3>4, <3>5
  <2> QED BY <2>1, <2>2, <1>2, <1>3 DEF Widens
<1>12. ASSUME NEW v \in DOMAIN r.loc \ {Web} PROVE MadeBefore(v, at + 1)
  <2>1. v \in DOMAIN temps.loc \/ v \in MakesOf(at) BY <1>4, <1>10 DEF Widens
  <2> QED BY <2>1, <1>b DEF Homed
<1>13. Web \in DOMAIN r.loc <=> at + 1 > 1 /\ Op(1) = "decl"
  <2>1. Web \notin MakesOf(at)
    <3>1. \A v \in Values : v # Web BY RegsAssumption DEF Values, Web
    <3> QED BY <3>1, MadeIn
  <2>2. at + 1 > 1 BY <1>7
  <2> QED BY <2>1, <2>2, <1>4, <1>10 DEF Widens
<1>14. ASSUME NEW v \in Values, MadeBefore(v, at + 1), Live(v, at + 1)
       PROVE  v \in DOMAIN r.loc /\ (v \in r.owned \/ Fixed(r, v))
  <2>0. v \in 1 .. Made /\ lastUse[v] \in 0 .. Len(shader) BY <1>14, <1>m
  <2>1. lastUse[v] >= at + 1 \/ (at = Len(shader) /\ v \in Range(Colour) /\ lastUse[v] = at)
    BY <1>14, <1>7, <1>c, <2>0 DEF Live
  <2>2. ~(v \in ForEachRead(at) /\ lastUse[v] = at /\ ~Stays(v))
    <3>1. CASE lastUse[v] >= at + 1 BY <3>1, <2>0, <1>7
    <3>2. CASE at = Len(shader) /\ v \in Range(Colour)
      <4>1. Op(at) = "out" BY <3>2, ColourOf
      <4> QED BY <4>1, <3>2 DEF Stays, Now, Op
    <3> QED BY <2>1, <3>1, <3>2
  <2>3. CASE v \in MakesOf(at)
    <3>1. lastUse[v] # 0 BY <2>0, <2>1, <1>7
    <3>2. CASE v \in DOMAIN home
      <4>1. v \in DOMAIN home \ Dead(home) BY <3>1, <3>2 DEF Dead
      <4> QED BY <4>1, <2>2, <1>2, <1>3, <1>4
    <3>3. CASE v \in DOMAIN t.loc /\ Fixed(t, v)
      <4>1. r.loc[v] = t.loc[v] /\ r.out = t.out /\ v \in DOMAIN r.loc BY <3>3, <1>2, <1>3, <1>4
      <4> QED BY <4>1, <3>3 DEF Fixed
    <3> QED BY <3>1, <3>2, <3>3, <2>3 DEF Widens
  <2>4. CASE MadeBefore(v, at)
    <3>1. Live(v, at) BY <2>0, <2>1, <1>7 DEF Live
    <3>2. v \in DOMAIN temps.loc /\ (v \in temps.owned \/ Fixed(temps, v))
      BY <3>1, <2>4 DEF Homed
    <3>3. v \in DOMAIN r.loc /\ r.loc[v] = temps.loc[v] BY <3>2, <1>6 DEF Agrees
    <3>4. CASE v \in temps.owned BY <3>3, <3>4, <2>2, <1>2, <1>3 DEF Widens
    <3>5. CASE Fixed(temps, v)
      <4>1. temps.out >= 0 BY <3>5 DEF Fixed
      <4>2. r.out = temps.out BY <4>1, <1>2, <1>3 DEF Widens
      <4> QED BY <4>2, <3>3, <3>5 DEF Fixed
    <3> QED BY <3>2, <3>4, <3>5
  <2> QED BY <2>3, <2>4, <1>14, <1>b
<1>15. at + 1 \in 1 .. Len(shader) + 1 BY <1>7
<1>16. Homed(r, at + 1) BY <1>11, <1>12, <1>13, <1>14, <1>15 DEF Homed
<1> QED BY <1>2, <1>3, <1>5, <1>6, <1>16 DEF r, g

-----------------------------------------------------------------------------
Takeable(used, n, a) ==
    /\ a.at \in Temps /\ a.at \in Nat /\ a.at .. a.at + n - 1 \subseteq Temps
    /\ (a.at .. a.at + n - 1) \cap used = {}
    /\ a.used = used \cup (a.at .. a.at + n - 1) /\ a.used \in SUBSET Temps

(* What block() finds is free, in a row and in range.                      *)
LEMMA TakeOf ==
    ASSUME NEW used \in SUBSET Temps, NEW ask, ask[1] \in Nat \ {0}, Take(used, ask).at # NoTemp
    PROVE  Takeable(used, ask[1], Take(used, ask))
<1> DEFINE free == Free(used, ask[1], ask[2])
           r == IF free = {} THEN NoTemp ELSE Min(free)
           a == Take(used, ask)
           n == ask[1]
<1>1. a = [at |-> r, used |-> used \cup IF r = NoTemp THEN {} ELSE r .. r + n - 1]
  BY DEF Take
<1> HIDE DEF a
<1>2. a.at = r /\ a.used = used \cup IF r = NoTemp THEN {} ELSE r .. r + n - 1 BY <1>1
<1>3. free # {} BY <1>2 DEF a
<1>4. MaxTemps \in Nat BY RegsAssumption
<1>5. free \in SUBSET Nat /\ free \subseteq Temps BY <1>4 DEF Free, Temps
<1>6. Min(free) \in free BY <1>3, <1>5, MinOf
<1>7. r \in free BY <1>3, <1>6
<1> HIDE DEF r
<1>n. n \in Nat \ {0} OBVIOUS
<1>8. r \in Temps /\ r \in Nat /\ r + n <= MaxTemps /\ (r .. r + n - 1) \cap used = {}
  BY <1>5, <1>7 DEF Free
<1> HIDE DEF n
<1>9. r .. r + n - 1 \subseteq Temps BY <1>4, <1>8, <1>n DEF Temps
<1>10. r # NoTemp BY <1>8 DEF NoTemp
<1>11. Takeable(used, n, a) BY <1>2, <1>8, <1>9, <1>10 DEF Takeable
<1> QED BY <1>11 DEF a, n

LEMMA TakeEven ==
    ASSUME NEW used \in SUBSET Temps, NEW a, a = Take(used, Even) \/ a = Take(used, Single), a.at # NoTemp
    PROVE  /\ a.at \in Temps /\ a.at \in Nat /\ a.at \notin used
           /\ a.used = used \cup {a.at} /\ a.used \in SUBSET Temps
<1>1. Even[1] = 1 /\ Single[1] = 1 BY DEF Even, Single
<1>2. Take(used, Even).at # NoTemp => Takeable(used, Even[1], Take(used, Even)) BY <1>1, TakeOf
<1>3. Take(used, Single).at # NoTemp => Takeable(used, Single[1], Take(used, Single)) BY <1>1, TakeOf
<1>4. Takeable(used, 1, a) BY <1>1, <1>2, <1>3
<1>5. a.at \in Nat BY <1>4 DEF Takeable
<1>6. a.at .. a.at + 1 - 1 = {a.at} BY <1>5
<1> QED BY <1>4, <1>6 DEF Takeable

LEMMA TakeTexel ==
    ASSUME NEW used \in SUBSET Temps, NEW a, a = Take(used, Texel) \/ a = Take(used, Row), a.at # NoTemp
    PROVE  Takeable(used, TexelLen, a)
<1>1. TexelLen \in Nat \ {0} /\ Texel[1] = TexelLen /\ Row[1] = TexelLen
  BY RegsAssumption DEF Texel, Row
<1>2. Take(used, Texel).at # NoTemp => Takeable(used, Texel[1], Take(used, Texel)) BY <1>1, TakeOf
<1>3. Take(used, Row).at # NoTemp => Takeable(used, Row[1], Take(used, Row)) BY <1>1, TakeOf
<1> QED BY <1>1, <1>2, <1>3

LEMMA UsedOf ==
    /\ UNION {a.used : a \in {}} = {}
    /\ \A x : UNION {a.used : a \in {x}} = x.used
    /\ \A x, y : UNION {a.used : a \in {x, y}} = x.used \cup y.used
    /\ \A x, y, z : UNION {a.used : a \in {x, y, z}} = x.used \cup y.used \cup z.used
OBVIOUS

LEMMA HomesOf ==
    ASSUME ShaderInv, at \in Prog, NEW n \in Nat \ {0}, Makes(Op(at)) = n, NEW r \in Nat
    PROVE  /\ DOMAIN Homes(r) = MakesOf(at)
           /\ \A v, w \in DOMAIN Homes(r) : Homes(r)[v] = Homes(r)[w] => v = w
           /\ {Homes(r)[v] : v \in DOMAIN Homes(r)} = r .. r + n - 1
           /\ DOMAIN Sets(r, n) = r .. r + n - 1
           /\ \A v \in MakesOf(at) : Homes(r)[v] \in r .. r + n - 1 /\ Sets(r, n)[Homes(r)[v]] = v
<1> DEFINE m == shader[at].makes
           h == Homes(r)
<1>1. m \in [1 .. n -> Values] /\ \A k \in 1 .. n : m[k] = m[1] + k - 1
  BY DEF ShaderInv, InOrder
<1>2. MakesOf(at) = Range(m) /\ Now.makes = m BY DEF MakesOf, Now
<1>3. h = [v \in Range(m) |-> r + v - m[1]] BY <1>2 DEF Homes
<1>s. Sets(r, n) = [k \in r .. r + n - 1 |-> m[k - r + 1]] BY <1>2 DEF Sets
<1> HIDE DEF m
<1>4. \A v \in Range(m) : \E k \in 1 .. n : v = m[k] /\ v = m[1] + k - 1
  BY <1>1 DEF Range
<1>5. m[1] \in Nat
  <2>1. 1 \in 1 .. n OBVIOUS
  <2>2. m[1] \in Values BY <1>1, <2>1
  <2> QED BY <2>2, RegsAssumption DEF Values
<1>6. ASSUME NEW v \in Range(m)
      PROVE  h[v] \in r .. r + n - 1 /\ m[h[v] - r + 1] = v /\ h[v] = r + v - m[1] /\ v \in Nat
  <2>1. PICK k \in 1 .. n : v = m[k] /\ v = m[1] + k - 1 BY <1>4
  <2>2. h[v] = r + v - m[1] BY <1>3
  <2>3. h[v] = r + k - 1 BY <2>1, <2>2, <1>5
  <2>4. h[v] - r + 1 = k /\ h[v] \in r .. r + n - 1 BY <2>3
  <2>5. v \in Nat BY <2>1, <1>5
  <2> QED BY <2>1, <2>2, <2>4, <2>5
<1>7. DOMAIN h = Range(m) BY <1>3
<1> HIDE DEF h
<1>8. ASSUME NEW x \in r .. r + n - 1 PROVE \E v \in Range(m) : h[v] = x
  <2> DEFINE k == x - r + 1
  <2>1. k \in 1 .. n OBVIOUS
  <2>2. m[k] \in Range(m) /\ m[k] = m[1] + k - 1 BY <2>1, <1>1 DEF Range
  <2>3. h[m[k]] = r + m[k] - m[1] BY <2>2, <1>6
  <2>4. h[m[k]] = x BY <2>2, <2>3, <1>5
  <2> QED BY <2>2, <2>4
<1>9. {h[v] : v \in Range(m)} = r .. r + n - 1 BY <1>6, <1>8
<1>10. \A v, w \in Range(m) : h[v] = h[w] => v = w
  <2> SUFFICES ASSUME NEW v \in Range(m), NEW w \in Range(m), h[v] = h[w] PROVE v = w OBVIOUS
  <2>1. h[v] = r + v - m[1] /\ h[w] = r + w - m[1] /\ v \in Nat /\ w \in Nat BY <1>6
  <2>2. \A x, y, b \in Nat : r + x - b = r + y - b => x = y OBVIOUS
  <2> QED BY <2>1, <2>2, <1>5
<1>11. \A v \in Range(m) : h[v] \in r .. r + n - 1 /\ Sets(r, n)[h[v]] = v
  BY <1>6, <1>s
<1>12. DOMAIN Sets(r, n) = r .. r + n - 1 BY <1>s
<1> QED BY <1>2, <1>7, <1>9, <1>10, <1>11, <1>12 DEF h

(* What an instruction makes has no temporary yet.                         *)
LEMMA FreshMakes ==
    ASSUME ShaderInv, at \in Prog, Homed(temps, at)
    PROVE  MakesOf(at) \cap DOMAIN temps.loc = {} /\ Web \notin MakesOf(at)
<1>1. Web \notin MakesOf(at)
  <2>1. \A v \in Values : v # Web BY RegsAssumption DEF Values, Web
  <2> QED BY <2>1, MadeIn
<1>2. ASSUME NEW v \in MakesOf(at), v \in DOMAIN temps.loc PROVE FALSE
  <2>1. MadeBefore(v, at) BY <1>1, <1>2 DEF Homed
  <2>2. PICK j \in Prog : j < at /\ v \in MakesOf(j) BY <2>1 DEF MadeBefore
  <2>3. v < v BY <2>2 DEF ShaderInv, InOrder
  <2>4. v \in Nat BY MadeIn, RegsAssumption DEF Values
  <2> QED BY <2>3, <2>4
<1> QED BY <1>1, <1>2

Translatable(op) ==
    /\ ShaderInv /\ Phases /\ Tidy(temps) /\ Homed(temps, at)
    /\ phase = "translate" /\ at \in Prog /\ Op(at) = op

LEMMA Started ==
    ASSUME ShaderInv, Phases, Allocated, NEW op, Translating(op)
    PROVE  Translatable(op) /\ UNCHANGED <<shader, lastUse, step>>
<1>1. phase = "translate" /\ at <= Len(shader) /\ shader[at].op = op
  BY DEF Translating, Now
<1>2. UNCHANGED <<shader, lastUse, step>> BY DEF Translating, writeVars, runVars
<1>3. Tidy(temps) /\ Homed(temps, at) BY <1>1 DEF Allocated
<1>4. at \in Prog BY <1>1, <1>3, ProgOf DEF Homed
<1> QED BY <1>1, <1>2, <1>3, <1>4 DEF Translatable, Op

LEMMA Plainly ==
    ASSUME NEW op, Translatable(op), op # "decl"
    PROVE  /\ Agrees(temps.loc, temps.loc)
           /\ Web \in DOMAIN temps.loc <=> Op(1) = "decl"
           /\ temps.used \in SUBSET Temps
<1>1. temps \in TempsOf BY DEF Translatable, Tidy
<1>2. at \in 1 .. Len(shader) /\ Len(shader) \in Nat BY ProgOf DEF Translatable
<1> QED BY <1>1, <1>2, TempsFields DEF Translatable, Homed, Agrees

(* The instruction's values get the last row taken; what came before it is  *)
(* scratch.                                                                 *)
Alike(t) ==
    /\ Tidy(t) /\ t.used = temps.used /\ t.loc = temps.loc /\ t.owned = temps.owned
    /\ temps.out >= 0 => t.out = temps.out

LEMMA HomesTaken ==
    ASSUME NEW op, Translatable(op), op # "decl", NEW n \in Nat \ {0}, Makes(op) = n, NEW r \in Nat,
           r .. r + n - 1 \subseteq Temps, NEW takes, NEW scratch, NEW t, Alike(t),
           temps.used \cup UNION {a.used : a \in takes} = temps.used \cup scratch \cup (r .. r + n - 1),
           scratch \cap temps.used = {}, (r .. r + n - 1) \cap (temps.used \cup scratch) = {}
    PROVE  Takes(t, takes, scratch, Homes(r)) /\ Widens(t, Homes(r))
<1>1. /\ DOMAIN Homes(r) = MakesOf(at)
      /\ \A v, w \in DOMAIN Homes(r) : Homes(r)[v] = Homes(r)[w] => v = w
      /\ {Homes(r)[v] : v \in DOMAIN Homes(r)} = r .. r + n - 1
      /\ \A v \in MakesOf(at) : Homes(r)[v] \in r .. r + n - 1
  BY HomesOf DEF Translatable
<1>2. MakesOf(at) \cap DOMAIN temps.loc = {} BY FreshMakes DEF Translatable
<1>3. /\ t \in TempsOf /\ Tidy(t) /\ t.used = temps.used /\ t.loc = temps.loc
      /\ t.owned = temps.owned /\ (temps.out >= 0 => t.out = temps.out)
  BY DEF Alike, Tidy
<1> DEFINE h == Homes(r)
<1> HIDE DEF h
<1>4. DOMAIN h = MakesOf(at) /\ {h[v] : v \in DOMAIN h} = r .. r + n - 1
  BY <1>1 DEF h
<1>5. Takes(t, takes, scratch, h)
  <2>1. t.used \cup UNION {a.used : a \in takes} = t.used \cup scratch \cup {h[v] : v \in DOMAIN h}
    BY <1>3, <1>4
  <2>2. scratch \cap t.used = {} /\ {h[v] : v \in DOMAIN h} \cap (t.used \cup scratch) = {}
    BY <1>3, <1>4
  <2>3. DOMAIN h \cap DOMAIN t.loc = {} BY <1>2, <1>3, <1>4
  <2>4. \A v \in DOMAIN h : h[v] \in Temps BY <1>1 DEF h
  <2>5. \A v, w \in DOMAIN h : h[v] = h[w] => v = w BY <1>1 DEF h
  <2> QED BY <2>1, <2>2, <2>3, <2>4, <2>5, <1>3, <1>4 DEF Takes
<1>6. Widens(t, h) BY <1>3, <1>4, Plainly DEF Widens
<1> QED BY <1>5, <1>6 DEF h

-----------------------------------------------------------------------------
(* What the code of an instruction must find where the allocation says, and *)
(* what it leaves for those after it: values, and the declared register.    *)
Known(i) == IF i \in Prog THEN shader[i].sees ELSE Range(Colour)
Wanted(i) == {v \in Known(i) : Live(v, i)} \cup (IF i > 1 /\ Op(1) = "decl" THEN {Web} ELSE {})
Gains(i) == {v \in MakesOf(i) : lastUse[v] # 0} \cup (IF Op(i) = "decl" THEN {Web} ELSE {})

Lined(s, n) == n \in Nat /\ s = [i \in 1 .. n |-> s[i]]
LastWrite(moves, j, k, r) ==
    r \in DOMAIN moves[j].writes /\ \A m \in j + 1 .. k - 1 : r \notin DOMAIN moves[m].writes
Unwritten(moves, k, r) == \A m \in 1 .. k - 1 : r \notin DOMAIN moves[m].writes

SoundRead(l, i, moves, k, r, x) ==
    \/ \E j \in 1 .. k - 1 : LastWrite(moves, j, k, r) /\ moves[j].writes[r] = x
    \/ Unwritten(moves, k, r) /\ x \in Wanted(i) /\ r = l[x]

Keeps(l, i, moves) ==
    \A x \in Wanted(i) : /\ x \in DOMAIN l
                         /\ \A k \in DOMAIN moves : l[x] \in DOMAIN moves[k].writes =>
                                                        moves[k].writes[l[x]] = x
Finds(l, i, moves) ==
    \A k \in DOMAIN moves : \A read \in moves[k].reads : SoundRead(l, i, moves, k, read[1], read[2])
Gives(l, i, moves) ==
    i \in Prog => \A x \in Gains(i) :
        /\ x \in DOMAIN l /\ Len(moves) # 0 /\ l[x] \in DOMAIN moves[Len(moves)].writes
        /\ moves[Len(moves)].writes[l[x]] = x

CodeOK(l, i, moves) ==
    Lined(moves, Len(moves)) /\ Keeps(l, i, moves) /\ Finds(l, i, moves) /\ Gives(l, i, moves)

Coded == phase = "translate" =>
    /\ Lined(code, at - 1) /\ step = 1
    /\ ~UboOffsets => \A i \in 1 .. at - 1 : CodeOK(temps.loc, i, code[i])

LEMMA LinedOf ==
    ASSUME NEW s, NEW n, Lined(s, n)
    PROVE  /\ Len(s) = n /\ DOMAIN s = 1 .. n /\ n \in Nat
           /\ \A e : /\ Lined(Append(s, e), n + 1) /\ Append(s, e)[n + 1] = e
                     /\ Len(Append(s, e)) = n + 1
                     /\ \A i \in 1 .. n : Append(s, e)[i] = s[i]
<1>1. n \in Nat /\ DOMAIN s = 1 .. n BY DEF Lined
<1>2. s = [i \in 1 .. n |-> s[i]] BY DEF Lined
<1>3. ASSUME NEW e
      PROVE  /\ Len(s) = n /\ Lined(Append(s, e), n + 1) /\ Append(s, e)[n + 1] = e
             /\ Len(Append(s, e)) = n + 1
             /\ \A i \in 1 .. n : Append(s, e)[i] = s[i]
  <2> DEFINE S == {s[i] : i \in 1 .. n} \cup {e}
             t == Append(s, e)
  <2>1. s \in Seq(S)
    <3>1. \A i \in 1 .. n : s[i] \in S OBVIOUS
    <3> HIDE DEF S
    <3>2. s \in [1 .. n -> S] BY <1>2, <3>1
    <3> QED BY <1>1, <3>2
  <2>2. e \in S OBVIOUS
  <2> HIDE DEF S, t
  <2>3. Len(s) = n BY <1>1, <2>1
  <2>4. t \in Seq(S) /\ Len(t) = n + 1 /\ t[n + 1] = e /\ \A i \in 1 .. n : t[i] = s[i]
    BY <1>1, <2>1, <2>2, <2>3, AppendProperties DEF t
  <2>5. t = [i \in 1 .. n + 1 |-> t[i]] BY <2>4, <1>1
  <2> QED BY <2>3, <2>4, <2>5, <1>1 DEF Lined, t
<1> QED BY <1>1, <1>3

(* Code that is right for an allocation is right for one that has added to *)
(* it: what is already there stays where it is.                            *)
LEMMA CodeLifts ==
    ASSUME NEW f, NEW g, Agrees(f, g), NEW i, NEW moves
    PROVE  /\ Keeps(f, i, moves) => Keeps(g, i, moves)
           /\ Keeps(f, i, moves) /\ Finds(f, i, moves) => Finds(g, i, moves)
           /\ Gives(f, i, moves) => Gives(g, i, moves)
           /\ CodeOK(f, i, moves) => CodeOK(g, i, moves)
<1>1. \A x \in DOMAIN f : x \in DOMAIN g /\ g[x] = f[x] BY DEF Agrees
<1>2. Keeps(f, i, moves) => Keeps(g, i, moves) BY <1>1 DEF Keeps
<1>3. ASSUME Keeps(f, i, moves), NEW k, NEW r, NEW x, SoundRead(f, i, moves, k, r, x)
      PROVE  SoundRead(g, i, moves, k, r, x)
  <2>1. \A y \in Wanted(i) : g[y] = f[y] BY <1>1, <1>3 DEF Keeps
  <2> QED BY <2>1, <1>3 DEF SoundRead
<1>4. Keeps(f, i, moves) /\ Finds(f, i, moves) => Finds(g, i, moves) BY <1>3 DEF Finds
<1>5. Gives(f, i, moves) => Gives(g, i, moves) BY <1>1 DEF Gives
<1> QED BY <1>2, <1>4, <1>5 DEF CodeOK

LEMMA SameCode ==
    ASSUME UNCHANGED <<shader, lastUse>>, NEW l, NEW i, NEW moves
    PROVE  CodeOK(l, i, moves)' <=> CodeOK(l, i, moves)
<1>1. \A v, j : Live(v, j)' = Live(v, j) BY DEF Live, Colour
<1>2. Wanted(i)' = Wanted(i) BY <1>1 DEF Wanted, Known, Op, Prog, Colour
<1>3. Gains(i)' = Gains(i) BY DEF Gains, MakesOf, Op
<1>4. \A k, r, x : SoundRead(l, i, moves, k, r, x)' = SoundRead(l, i, moves, k, r, x)
  BY <1>2 DEF SoundRead, LastWrite, Unwritten
<1>5. Keeps(l, i, moves)' <=> Keeps(l, i, moves) BY <1>2 DEF Keeps
<1>6. Finds(l, i, moves)' <=> Finds(l, i, moves) BY <1>4 DEF Finds
<1>7. Gives(l, i, moves)' <=> Gives(l, i, moves) BY <1>3 DEF Gives, Prog
<1> QED BY <1>5, <1>6, <1>7 DEF CodeOK, Lined

Emission(t, takes, scratch, home, moves) ==
    (\A a \in takes : a.at # NoTemp) =>
        /\ Takes(t, takes, scratch, home) /\ Widens(t, home)
        /\ ~UboOffsets => CodeOK(Over(home, t.loc), at, moves)

(* One instruction: its allocation and its moves together.                 *)
LEMMA EmitStep ==
    ASSUME NEW op, Translatable(op), op # "again", UNCHANGED <<shader, lastUse, step>>, Coded,
           NEW t, NEW takes, NEW scratch, NEW home, NEW moves,
           Emit(t, takes, scratch, home, moves), Emission(t, takes, scratch, home, moves)
    PROVE  Allocated' /\ Coded'
<1>1. CASE \E a \in takes : a.at = NoTemp
  <2>1. phase' # "translate" BY <1>1 DEF Emit
  <2> QED BY <2>1 DEF Allocated, Coded
<1>2. CASE \A a \in takes : a.at # NoTemp
  <2> DEFINE r == Release(Given(t, home), ForEachRead(at))
  <2>1. Takes(t, takes, scratch, home) /\ Widens(t, home)
    BY <1>2 DEF Emission
  <2>2. temps' = r /\ code' = Append(code, moves) /\ at' = at + 1 /\ phase' = "translate"
    BY <1>2, <2>1, EmitGives DEF Translatable
  <2>3. /\ Tidy(r) /\ Homed(r, at + 1) /\ Agrees(temps.loc, r.loc) /\ r.loc = Over(home, t.loc)
    BY <2>1, HomedNext DEF Translatable
  <2> HIDE DEF r
  <2>4. PICK u, n : u = r /\ n = at + 1 OBVIOUS
  <2>5. Homed(u, n)' BY <2>3, <2>4, SameHomed
  <2>6. Allocated' BY <2>2, <2>3, <2>4, <2>5 DEF Allocated, Tidy, Held, Outs, Webs, TempsOf, Locs
  <2>7. Lined(code, at - 1) /\ step = 1 /\ (~UboOffsets => \A i \in 1 .. at - 1 : CodeOK(temps.loc, i, code[i]))
    BY DEF Coded, Translatable
  <2>8. at \in Nat /\ at > 0 BY ProgOf DEF Translatable
  <2>9. at - 1 + 1 = at /\ at + 1 - 1 = at BY <2>8
  <2>10. PICK c : c = Append(code, moves) OBVIOUS
  <2>11. Lined(c, at) /\ c[at] = moves /\ \A i \in 1 .. at - 1 : c[i] = code[i]
    BY <2>7, <2>9, <2>10, LinedOf
  <2>12. ASSUME ~UboOffsets, NEW i \in 1 .. at PROVE CodeOK(u.loc, i, c[i])
    <3>1. CASE i = at
      <4>1. CodeOK(Over(home, t.loc), at, moves) BY <1>2, <2>12 DEF Emission
      <4> QED BY <4>1, <3>1, <2>3, <2>4, <2>11
    <3>2. CASE i \in 1 .. at - 1
      <4>1. CodeOK(temps.loc, i, code[i]) BY <2>7, <2>12, <3>2
      <4>2. CodeOK(u.loc, i, code[i]) BY <4>1, <2>3, <2>4, CodeLifts
      <4> QED BY <4>2, <3>2, <2>11
    <3> QED BY <3>1, <3>2, <2>8
  <2>13. PICK l : l = u.loc OBVIOUS
  <2>14. \A i, m : CodeOK(l, i, m)' <=> CodeOK(l, i, m) BY SameCode
  <2>15. temps'.loc = l /\ code' = c /\ at' - 1 = at /\ phase' = "translate" /\ step' = 1
    <3>1. temps' = u /\ code' = c /\ phase' = "translate" BY <2>2, <2>4, <2>10
    <3>2. at' - 1 = at
      <4>1. at' = at + 1 BY <2>2
      <4> QED BY <4>1, <2>8
    <3>3. step' = 1 BY <2>7
    <3> QED BY <3>1, <3>2, <3>3, <2>13
  <2>16. ASSUME ~UboOffsets, NEW i \in 1 .. at PROVE CodeOK(temps.loc, i, code[i])'
    <3>1. PICK m : m = c[i] OBVIOUS
    <3>2. CodeOK(l, i, m)' BY <3>1, <2>12, <2>13, <2>14, <2>16
    <3> QED BY <3>1, <3>2, <2>15
  <2> QED BY <2>6, <2>11, <2>15, <2>16 DEF Coded, Lined
<1> QED BY <1>1, <1>2

-----------------------------------------------------------------------------
(* What is wanted is made and live; its temporary is taken.                *)
LEMMA WantedOf ==
    ASSUME ShaderInv, Phases, phase # "write", NEW i \in 1 .. Len(shader) + 1,
           NEW x \in Wanted(i), x # Web
    PROVE  /\ x \in Values /\ MadeBefore(x, i) /\ Live(x, i)
           /\ x \in 1 .. Made /\ lastUse[x] \in 0 .. Len(shader)
           /\ \E j \in Prog : j <= i /\ x \in shader[j].sees
<1>1. Prog = 1 .. Len(shader) /\ Len(shader) \in Nat BY ProgOf
<1>2. x \in Known(i) /\ Live(x, i) BY DEF Wanted
<1>3. PICK j \in Prog : j <= i /\ x \in shader[j].sees
  <2>1. CASE i \in Prog BY <1>1, <1>2, <2>1 DEF Known
  <2>2. CASE i \notin Prog
    <3>1. x \in Range(Colour) /\ i = Len(shader) + 1 BY <1>1, <1>2, <2>2 DEF Known
    <3> QED BY <1>1, <3>1, ColourOf
  <2> QED BY <2>1, <2>2
<1>4. DefAt(x) \in Prog /\ DefAt(x) < j /\ x \in MakesOf(DefAt(x)) /\ x \in 1 .. Made
  BY <1>3, SeenOf
<1>5. x \in Values BY <1>4, MadeIn
<1>6. MadeBefore(x, i) BY <1>1, <1>3, <1>4 DEF MadeBefore
<1>7. lastUse \in [1 .. Made -> 0 .. Len(shader)] BY LastUsesHold DEF LastUses
<1> QED BY <1>2, <1>3, <1>4, <1>5, <1>6, <1>7

LEMMA WantedHome ==
    ASSUME ShaderInv, Phases, phase # "write", Tidy(temps), NEW i, Homed(temps, i), NEW x \in Wanted(i)
    PROVE  /\ x \in DOMAIN temps.loc /\ temps.loc[x] \in temps.used
           /\ x = Web => temps.loc[x] \in Webs(temps)
           /\ x # Web => \/ x \in temps.owned /\ temps.loc[x] \in Held(temps)
                         \/ Fixed(temps, x) /\ temps.loc[x] \in Outs(temps)
<1>0. temps.used = Held(temps) \cup Outs(temps) \cup Webs(temps) BY DEF Tidy
<1>1. CASE x = Web
  <2>1. x \notin Known(i) \/ x \in Known(i) OBVIOUS
  <2>2. (i > 1 /\ Op(1) = "decl") \/ x \in Known(i) BY DEF Wanted
  <2>3. x \notin Known(i)
    <3>1. \A v \in Values : v # Web BY RegsAssumption DEF Values, Web
    <3>2. Known(i) \subseteq Values
      <4>1. Range(Colour) \subseteq Values BY ColourOf, ProgOf
      <4> QED BY <4>1, ProgOf DEF Known
    <3> QED BY <3>1, <3>2, <1>1
  <2>4. Web \in DOMAIN temps.loc BY <2>2, <2>3 DEF Homed
  <2> QED BY <1>0, <1>1, <2>4 DEF Webs
<1>2. CASE x # Web
  <2>1. x \in Values /\ MadeBefore(x, i) /\ Live(x, i) BY <1>2, WantedOf DEF Homed
  <2>2. x \in DOMAIN temps.loc /\ (x \in temps.owned \/ Fixed(temps, x)) BY <2>1 DEF Homed
  <2>3. x \in temps.owned => temps.loc[x] \in Held(temps) BY DEF Held
  <2>4. Fixed(temps, x) => temps.loc[x] \in Outs(temps)
    <3> SUFFICES ASSUME Fixed(temps, x) PROVE temps.loc[x] \in Outs(temps) OBVIOUS
    <3>1. /\ ColourId(x) # 0 /\ temps.out >= 0 /\ temps.loc[x] = temps.out + ColourId(x) - 1
      BY DEF Fixed
    <3>2. ColourId(x) \in 1 .. ColourLen /\ ColourLen \in Nat BY <3>1, ColourOf, RegsAssumption
    <3>3. temps.out \in Int BY TempsFields DEF Tidy
    <3> QED BY <3>1, <3>2, <3>3 DEF Outs
  <2> QED BY <1>0, <1>2, <2>2, <2>3, <2>4
<1> QED BY <1>1, <1>2

(* Moves that write only free temporaries leave what is wanted alone.      *)
LEMMA FreshKeeps ==
    ASSUME NEW op, Translatable(op), NEW moves,
           \A k \in DOMAIN moves : DOMAIN moves[k].writes \cap temps.used = {}
    PROVE  /\ Keeps(temps.loc, at, moves)
           /\ \A x \in Wanted(at) : temps.loc[x] \in temps.used
                /\ \A k \in DOMAIN moves : temps.loc[x] \notin DOMAIN moves[k].writes
<1>1. \A x \in Wanted(at) : x \in DOMAIN temps.loc /\ temps.loc[x] \in temps.used
  BY WantedHome DEF Translatable
<1> QED BY <1>1 DEF Keeps

(* What an instruction reads is wanted when it starts; of a uniform        *)
(* buffer's load this holds only where its offset is no value.             *)
LEMMA ReadWanted ==
    ASSUME NEW op, Translatable(op), op # "ubo"
    PROVE  /\ \A s \in Range(Now.reads) : s \in Wanted(at)
           /\ op # "decl" /\ Op(1) = "decl" => Web \in Wanted(at)
           /\ op \in {"keep", "copy"} => Op(1) = "decl"
<1>1. at \in Prog /\ Op(at) = op /\ ShaderInv /\ Phases /\ phase # "write" BY DEF Translatable
<1>2. ASSUME NEW s \in Range(Now.reads) PROVE s \in Wanted(at)
  <2>1. s \in Range(shader[at].reads) BY DEF Now
  <2>2. s \in shader[at].sees BY <1>1, <2>1, ReadOf
  <2>3. s \in ForEachRead(at) BY <1>1, <2>1 DEF ForEachRead, Op
  <2>4. at <= lastUse[s] BY <1>1, <2>3, LastUsesHold DEF LastUses
  <2>5. lastUse[s] >= at
    <3>1. s \in 1 .. Made BY <1>1, <2>2, SeenOf
    <3>2. lastUse[s] \in 0 .. Len(shader) BY <1>1, <3>1, LastUsesHold DEF LastUses
    <3> QED BY <1>1, <2>4, <3>2, ProgOf
  <2> QED BY <1>1, <2>2, <2>5 DEF Wanted, Known, Live
<1>3. ASSUME op # "decl", Op(1) = "decl" PROVE Web \in Wanted(at)
  <2>1. at # 1 BY <1>1, <1>3
  <2>2. at > 1 BY <1>1, <2>1, ProgOf
  <2> QED BY <1>3, <2>2 DEF Wanted
<1>4. op \in {"keep", "copy"} => Op(1) = "decl" BY <1>1 DEF ShaderInv, Placed
<1> QED BY <1>2, <1>3, <1>4

LEMMA FirstReads ==
    ASSUME NEW l, NEW i, NEW moves, NEW x \in Wanted(i)
    PROVE  SoundRead(l, i, moves, 1, l[x], x)
BY DEF SoundRead, Unwritten

Fits(n, r, takes, scratch, moves) ==
    /\ r \in Nat /\ r .. r + n - 1 \subseteq Temps
    /\ temps.used \cup UNION {a.used : a \in takes} = temps.used \cup scratch \cup (r .. r + n - 1)
    /\ scratch \cap temps.used = {} /\ (r .. r + n - 1) \cap (temps.used \cup scratch) = {}
    /\ Lined(moves, Len(moves)) /\ Len(moves) # 0 /\ moves[Len(moves)].writes = Sets(r, n)
    /\ \A k \in DOMAIN moves : DOMAIN moves[k].writes \cap temps.used = {}
    /\ ~UboOffsets => Finds(temps.loc, at, moves)

LEMMA HomesEmitted ==
    ASSUME NEW op, Translatable(op), op \notin {"decl", "again"}, UNCHANGED <<shader, lastUse, step>>,
           Coded, NEW n \in Nat \ {0}, Makes(op) = n, NEW r, NEW takes, NEW scratch, NEW t, Alike(t),
           NEW moves, Emit(t, takes, scratch, Homes(r), moves),
           (\A a \in takes : a.at # NoTemp) => Fits(n, r, takes, scratch, moves)
    PROVE  Allocated' /\ Coded'
<1> DEFINE home == Homes(r)
<1>1. ASSUME \A a \in takes : a.at # NoTemp
      PROVE  /\ Takes(t, takes, scratch, home) /\ Widens(t, home)
             /\ ~UboOffsets => CodeOK(Over(home, t.loc), at, moves)
  <2>1. /\ r \in Nat /\ r .. r + n - 1 \subseteq Temps
        /\ temps.used \cup UNION {a.used : a \in takes}
               = temps.used \cup scratch \cup (r .. r + n - 1)
        /\ scratch \cap temps.used = {} /\ (r .. r + n - 1) \cap (temps.used \cup scratch) = {}
        /\ Lined(moves, Len(moves)) /\ Len(moves) # 0 /\ moves[Len(moves)].writes = Sets(r, n)
        /\ \A k \in DOMAIN moves : DOMAIN moves[k].writes \cap temps.used = {}
        /\ ~UboOffsets => Finds(temps.loc, at, moves)
    BY <1>1 DEF Fits
  <2>2. Takes(t, takes, scratch, home) /\ Widens(t, home) BY <2>1, HomesTaken
  <2>3. /\ DOMAIN home = MakesOf(at)
        /\ DOMAIN Sets(r, n) = r .. r + n - 1
        /\ \A v \in MakesOf(at) : home[v] \in r .. r + n - 1 /\ Sets(r, n)[home[v]] = v
    BY <2>1, HomesOf DEF Translatable
  <2>4. t.loc = temps.loc BY DEF Alike
  <2>5. MakesOf(at) \cap DOMAIN temps.loc = {} BY FreshMakes DEF Translatable
  <2> HIDE DEF home
  <2>6. PICK l : l = Over(home, temps.loc) OBVIOUS
  <2>7. PICK f : f = temps.loc OBVIOUS
  <2>8. /\ DOMAIN l = DOMAIN home \cup DOMAIN f
        /\ \A x \in DOMAIN home : l[x] = home[x]
        /\ \A x \in DOMAIN f \ DOMAIN home : l[x] = f[x]
    <3>1. PICK h : h = home OBVIOUS
    <3>2. l = Over(h, f) BY <2>6, <2>7, <3>1
    <3>3. /\ DOMAIN l = DOMAIN h \cup DOMAIN f
          /\ \A x \in DOMAIN h : l[x] = h[x]
          /\ \A x \in DOMAIN f \ DOMAIN h : l[x] = f[x]
      BY <3>2 DEF Over
    <3> QED BY <3>1, <3>3
  <2>9. Agrees(f, l) BY <2>3, <2>5, <2>7, <2>8 DEF Agrees
  <2>10. Keeps(l, at, moves)
    <3>1. Keeps(f, at, moves) BY <2>1, <2>7, FreshKeeps
    <3> QED BY <3>1, <2>9, CodeLifts
  <2>11. ~UboOffsets => Finds(l, at, moves)
    <3>1. Keeps(f, at, moves) BY <2>1, <2>7, FreshKeeps
    <3> QED BY <3>1, <2>1, <2>7, <2>9, CodeLifts
  <2>12. Gives(l, at, moves)
    <3>1. Gains(at) \subseteq MakesOf(at) BY DEF Gains, Translatable
    <3>2. \A x \in MakesOf(at) : x \in DOMAIN l /\ l[x] = home[x] BY <2>3, <2>8
    <3> QED BY <3>1, <3>2, <2>1, <2>3 DEF Gives
  <2> QED BY <2>1, <2>2, <2>4, <2>6, <2>10, <2>11, <2>12 DEF CodeOK
<1> HIDE DEF home
<1>2. Emission(t, takes, scratch, home, moves) BY <1>1 DEF Emission
<1>3. Emit(t, takes, scratch, home, moves) BY DEF home
<1> QED BY <1>2, <1>3, EmitStep

LEMMA TempsAlike ==
    ASSUME NEW op, Translatable(op)
    PROVE  /\ Alike(temps)
           /\ \A o \in {NoTemp, NoRoom} : temps.out < 0 => Alike([temps EXCEPT !.out = o])
<1>1. Tidy(temps) /\ temps \in TempsOf BY DEF Translatable, Tidy
<1>2. ASSUME NEW o \in {NoTemp, NoRoom}, temps.out < 0 PROVE Alike([temps EXCEPT !.out = o])
  <2> DEFINE t == [temps EXCEPT !.out = o]
             new == [used |-> temps.used, loc |-> temps.loc, owned |-> temps.owned, out |-> o]
  <2>1. temps = [used |-> temps.used, loc |-> temps.loc, owned |-> temps.owned, out |-> temps.out]
    BY <1>1, TempsFields
  <2>2. t = new BY <2>1
  <2>3. o < 0 /\ o \in Int /\ ~(o >= 0) BY DEF NoTemp, NoRoom
  <2>4. new \in TempsOf BY <1>1 DEF TempsOf
  <2>5. temps.out \in Int BY <1>1, TempsFields
  <2>6. Outs(new) = {} /\ Outs(temps) = {} BY <1>2, <2>3, <2>5 DEF Outs
  <2>7. Held(new) = Held(temps) /\ Webs(new) = Webs(temps) BY DEF Held, Webs
  <2>8. new.used = temps.used /\ new.loc = temps.loc /\ new.owned = temps.owned OBVIOUS
  <2> HIDE DEF new, t
  <2>9. Tidy(new) BY <1>1, <2>4, <2>6, <2>7, <2>8 DEF Tidy
  <2>10. ~(temps.out >= 0) BY <1>2, <2>5
  <2> QED BY <2>2, <2>8, <2>9, <2>10 DEF Alike, t
<1> QED BY <1>1, <1>2 DEF Alike

-----------------------------------------------------------------------------
Ready(l, i, read) == read[2] \in Wanted(i) /\ read[1] = l[read[2]]
Left(m, read) == read[1] \in DOMAIN m.writes /\ m.writes[read[1]] = read[2]

(* The reads of the first, the second and the third move of an instruction.*)
LEMMA ListsOf ==
    /\ Lined(<<>>, 0) /\ Len(<<>>) = 0 /\ DOMAIN <<>> = {}
    /\ \A a : Lined(<<a>>, 1) /\ Len(<<a>>) = 1 /\ DOMAIN <<a>> = {1} /\ <<a>>[1] = a
    /\ \A a, b : /\ Lined(<<a, b>>, 2) /\ Len(<<a, b>>) = 2 /\ DOMAIN <<a, b>> = {1, 2}
                 /\ <<a, b>>[1] = a /\ <<a, b>>[2] = b
    /\ \A a, b, c : /\ Lined(<<a, b, c>>, 3) /\ Len(<<a, b, c>>) = 3 /\ DOMAIN <<a, b, c>> = {1, 2, 3}
                    /\ <<a, b, c>>[1] = a /\ <<a, b, c>>[2] = b /\ <<a, b, c>>[3] = c
<1>1. Lined(<<>>, 0) /\ Len(<<>>) = 0 /\ DOMAIN <<>> = {} BY DEF Lined
<1>2. \A a : Lined(<<a>>, 1) /\ Len(<<a>>) = 1 /\ DOMAIN <<a>> = {1} /\ <<a>>[1] = a
  BY DEF Lined
<1>3. \A a, b : /\ Lined(<<a, b>>, 2) /\ Len(<<a, b>>) = 2 /\ DOMAIN <<a, b>> = {1, 2}
                /\ <<a, b>>[1] = a /\ <<a, b>>[2] = b
  BY DEF Lined
<1>4. \A a, b, c : /\ Lined(<<a, b, c>>, 3) /\ Len(<<a, b, c>>) = 3 /\ DOMAIN <<a, b, c>> = {1, 2, 3}
                   /\ <<a, b, c>>[1] = a /\ <<a, b, c>>[2] = b /\ <<a, b, c>>[3] = c
  BY DEF Lined
<1> QED BY <1>1, <1>2, <1>3, <1>4

LEMMA OneFinds ==
    ASSUME NEW l, NEW i, NEW a, \A read \in a.reads : Ready(l, i, read)
    PROVE  Finds(l, i, <<a>>)
<1>1. DOMAIN <<a>> = {1} /\ <<a>>[1] = a BY ListsOf
<1>2. \A read \in a.reads : SoundRead(l, i, <<a>>, 1, read[1], read[2])
  BY DEF SoundRead, Unwritten, Ready
<1> QED BY <1>1, <1>2 DEF Finds

LEMMA TwoFinds ==
    ASSUME NEW l, NEW i, NEW a, NEW b, \A read \in a.reads : Ready(l, i, read),
           \A read \in b.reads : Left(a, read) \/ (Ready(l, i, read) /\ read[1] \notin DOMAIN a.writes)
    PROVE  Finds(l, i, <<a, b>>)
<1> DEFINE s == <<a, b>>
<1>1. DOMAIN s = {1, 2} /\ s[1] = a /\ s[2] = b BY ListsOf
<1> HIDE DEF s
<1>2. \A read \in a.reads : SoundRead(l, i, s, 1, read[1], read[2])
  BY DEF SoundRead, Unwritten, Ready
<1>3. ASSUME NEW read \in b.reads PROVE SoundRead(l, i, s, 2, read[1], read[2])
  <2>1. CASE Left(a, read)
    <3>1. LastWrite(s, 1, 2, read[1]) /\ s[1].writes[read[1]] = read[2]
      BY <1>1, <2>1 DEF LastWrite, Left
    <3>2. 1 \in 1 .. 2 - 1 OBVIOUS
    <3> QED BY <3>1, <3>2 DEF SoundRead
  <2>2. CASE Ready(l, i, read) /\ read[1] \notin DOMAIN a.writes
    <3>1. Unwritten(s, 2, read[1]) BY <1>1, <2>2 DEF Unwritten
    <3> QED BY <2>2, <3>1 DEF SoundRead, Ready
  <2> QED BY <2>1, <2>2
<1>4. Finds(l, i, s) BY <1>1, <1>2, <1>3 DEF Finds
<1> QED BY <1>4 DEF s

LEMMA ThreeFinds ==
    ASSUME NEW l, NEW i, NEW a, NEW b, NEW c, \A read \in a.reads : Ready(l, i, read),
           \A read \in b.reads : Left(a, read),
           \A read \in c.reads : Left(b, read) \/ (Left(a, read) /\ read[1] \notin DOMAIN b.writes)
    PROVE  Finds(l, i, <<a, b, c>>)
<1> DEFINE s == <<a, b, c>>
<1>1. DOMAIN s = {1, 2, 3} /\ s[1] = a /\ s[2] = b /\ s[3] = c BY ListsOf
<1> HIDE DEF s
<1>2. \A read \in a.reads : SoundRead(l, i, s, 1, read[1], read[2])
  BY DEF SoundRead, Unwritten, Ready
<1>3. ASSUME NEW read \in b.reads PROVE SoundRead(l, i, s, 2, read[1], read[2])
  <2>1. LastWrite(s, 1, 2, read[1]) /\ s[1].writes[read[1]] = read[2]
    BY <1>1 DEF LastWrite, Left
  <2>2. 1 \in 1 .. 2 - 1 OBVIOUS
  <2> QED BY <2>1, <2>2 DEF SoundRead
<1>4. ASSUME NEW read \in c.reads PROVE SoundRead(l, i, s, 3, read[1], read[2])
  <2>1. CASE Left(b, read)
    <3>1. LastWrite(s, 2, 3, read[1]) /\ s[2].writes[read[1]] = read[2]
      BY <1>1, <2>1 DEF LastWrite, Left
    <3>2. 2 \in 1 .. 3 - 1 OBVIOUS
    <3> QED BY <3>1, <3>2 DEF SoundRead
  <2>2. CASE Left(a, read) /\ read[1] \notin DOMAIN b.writes
    <3>1. \A m \in 1 + 1 .. 3 - 1 : m = 2 OBVIOUS
    <3>2. LastWrite(s, 1, 3, read[1]) /\ s[1].writes[read[1]] = read[2]
      BY <1>1, <2>2, <3>1 DEF LastWrite, Left
    <3>3. 1 \in 1 .. 3 - 1 OBVIOUS
    <3> QED BY <3>2, <3>3 DEF SoundRead
  <2> QED BY <2>1, <2>2
<1>5. Finds(l, i, s) BY <1>1, <1>2, <1>3, <1>4 DEF Finds
<1> QED BY <1>5 DEF s

LEMMA OneRead ==
    ASSUME NEW op \in {"fcsel", "tex", "keep", "if"}, Translatable(op)
    PROVE  Now.reads[1] \in Range(Now.reads) /\ Now.reads[1] \in Wanted(at)
<1>1. PICK n \in Sources(Op(at)) : shader[at].reads \in [1 .. n -> shader[at].sees]
  BY DEF Translatable, ShaderInv, SeenMade
<1>2. n = 1 BY <1>1 DEF Translatable, Sources
<1>3. Now.reads \in [1 .. 1 -> shader[at].sees] BY <1>1, <1>2 DEF Now
<1>4. Now.reads[1] \in Range(Now.reads) BY <1>3 DEF Range
<1> QED BY <1>4, ReadWanted

LEMMA FCselStep ==
    ASSUME ShaderInv, Phases, Allocated, Coded, FCsel
    PROVE  Allocated' /\ Coded'
<1>1. Translatable("fcsel") /\ UNCHANGED <<shader, lastUse, step>> BY Started DEF FCsel
<1>2. PICK s : s = Now.reads[1] OBVIOUS
<1>3. PICK l : l = temps.loc OBVIOUS
<1>4. PICK a : a = Take(temps.used, Even) OBVIOUS
<1>5. PICK b : b = Take(a.used, Even) OBVIOUS
<1>6. PICK c : c = Take(b.used, Even) OBVIOUS
<1>7. s \in Wanted(at) BY <1>1, <1>2, OneRead
<1>8. Is(s) = <<l[s], s>> BY <1>3 DEF Is, Loc
<1>9. temps.used \in SUBSET Temps BY <1>1, Plainly
<1>10. Makes("fcsel") = 1 BY DEF Makes
<1>11. a.at # NoTemp => /\ a.at \in Temps /\ a.at \in Nat /\ a.at \notin temps.used
                        /\ a.used = temps.used \cup {a.at} /\ a.used \in SUBSET Temps
  BY <1>4, <1>9, TakeEven
<1>12. a.at # NoTemp /\ b.at # NoTemp =>
           /\ b.at \in Temps /\ b.at \in Nat /\ b.at \notin a.used
           /\ b.used = a.used \cup {b.at} /\ b.used \in SUBSET Temps
  BY <1>5, <1>11, TakeEven
<1>13. a.at # NoTemp /\ b.at # NoTemp /\ c.at # NoTemp =>
           /\ c.at \in Temps /\ c.at \in Nat /\ c.at \notin b.used
           /\ c.used = b.used \cup {c.at} /\ c.used \in SUBSET Temps
  BY <1>6, <1>12, TakeEven
<1>14. /\ a.at \in Nat => a.at .. a.at + 1 - 1 = {a.at} /\ DOMAIN Sets(a.at, 1) = {a.at}
       /\ b.at \in Nat => b.at .. b.at + 1 - 1 = {b.at} /\ DOMAIN Sets(b.at, 1) = {b.at}
       /\ c.at \in Nat => c.at .. c.at + 1 - 1 = {c.at} /\ DOMAIN Sets(c.at, 1) = {c.at}
  BY DEF Sets
<1>15. CASE Odd(Loc(s))
  <2> DEFINE m1 == Move({<<l[s], s>>}, Only(a.at, s))
             m2 == Move({}, Only(b.at, Word))
             m3 == Move({<<a.at, s>>, <<b.at, Word>>}, Sets(c.at, 1))
             moves == <<m1, m2, m3>>
  <2>1. Emit(temps, {a, b, c}, {a.at, b.at}, Homes(c.at), moves)
    BY <1>2, <1>3, <1>4, <1>5, <1>6, <1>8, <1>15 DEF FCsel
  <2>2. /\ m1.reads = {<<l[s], s>>} /\ DOMAIN m1.writes = {a.at} /\ m1.writes[a.at] = s
        /\ m2.reads = {} /\ DOMAIN m2.writes = {b.at} /\ m2.writes[b.at] = Word
        /\ m3.reads = {<<a.at, s>>, <<b.at, Word>>} /\ m3.writes = Sets(c.at, 1)
    BY OnlyOf DEF Move
  <2> HIDE DEF m1, m2, m3
  <2>3. /\ Lined(moves, 3) /\ Len(moves) = 3 /\ DOMAIN moves = {1, 2, 3}
        /\ moves[1] = m1 /\ moves[2] = m2 /\ moves[3] = m3
    BY ListsOf
  <2>4. ASSUME \A x \in {a, b, c} : x.at # NoTemp
        PROVE  Fits(1, c.at, {a, b, c}, {a.at, b.at}, moves)
    <3>1. /\ a.at \in Temps /\ a.at \in Nat /\ a.at \notin temps.used
          /\ a.used = temps.used \cup {a.at}
          /\ b.at \in Temps /\ b.at \in Nat /\ b.at \notin a.used /\ b.used = a.used \cup {b.at}
          /\ c.at \in Temps /\ c.at \in Nat /\ c.at \notin b.used /\ c.used = b.used \cup {c.at}
      BY <2>4, <1>11, <1>12, <1>13
    <3>2. c.at .. c.at + 1 - 1 = {c.at} /\ DOMAIN Sets(c.at, 1) = {c.at} BY <3>1, <1>14
    <3>3. UNION {x.used : x \in {a, b, c}} = a.used \cup b.used \cup c.used BY UsedOf
    <3>4. \A k \in DOMAIN moves : DOMAIN moves[k].writes \cap temps.used = {}
      BY <2>2, <2>3, <3>1, <3>2
    <3>5. \A read \in m1.reads : Ready(l, at, read) BY <2>2, <1>7 DEF Ready
    <3>6. \A read \in m3.reads : Left(m2, read) \/ (Left(m1, read) /\ read[1] \notin DOMAIN m2.writes)
      BY <2>2, <3>1 DEF Left
    <3>7. \A read \in m2.reads : Left(m1, read) BY <2>2
    <3>8. PICK i : i = at OBVIOUS
    <3>9. Finds(l, i, moves) BY <3>5, <3>6, <3>7, <3>8, ThreeFinds
    <3>10. temps.used \cup UNION {x.used : x \in {a, b, c}}
               = temps.used \cup {a.at, b.at} \cup (c.at .. c.at + 1 - 1)
      BY <3>1, <3>2, <3>3
    <3>11. /\ {a.at, b.at} \cap temps.used = {}
           /\ (c.at .. c.at + 1 - 1) \cap (temps.used \cup {a.at, b.at}) = {}
      BY <3>1, <3>2
    <3>12. Lined(moves, Len(moves)) /\ Len(moves) # 0 /\ moves[Len(moves)].writes = Sets(c.at, 1)
      BY <2>2, <2>3
    <3> HIDE DEF moves
    <3> QED BY <1>3, <3>1, <3>2, <3>4, <3>8, <3>9, <3>10, <3>11, <3>12 DEF Fits
  <2> HIDE DEF moves
  <2>5. PICK K, S, r, m, t : K = {a, b, c} /\ S = {a.at, b.at} /\ r = c.at /\ m = moves /\ t = temps
    OBVIOUS
  <2>6. Emit(t, K, S, Homes(r), m) BY <2>1, <2>5
  <2>7. (\A x \in K : x.at # NoTemp) => Fits(1, r, K, S, m) BY <2>4, <2>5
  <2>8. Alike(t) BY <1>1, <2>5, TempsAlike
  <2> QED BY <1>1, <1>10, <2>6, <2>7, <2>8, HomesEmitted
<1>16. CASE ~Odd(Loc(s))
  <2> DEFINE m1 == Move({}, Only(a.at, Word))
             m2 == Move({<<l[s], s>>, <<a.at, Word>>}, Sets(b.at, 1))
             moves == <<m1, m2>>
  <2>1. Emit(temps, {a, b}, {a.at}, Homes(b.at), moves)
    BY <1>2, <1>3, <1>4, <1>5, <1>6, <1>8, <1>16 DEF FCsel
  <2>2. /\ m1.reads = {} /\ DOMAIN m1.writes = {a.at} /\ m1.writes[a.at] = Word
        /\ m2.reads = {<<l[s], s>>, <<a.at, Word>>} /\ m2.writes = Sets(b.at, 1)
    BY OnlyOf DEF Move
  <2> HIDE DEF m1, m2
  <2>3. /\ Lined(moves, 2) /\ Len(moves) = 2 /\ DOMAIN moves = {1, 2}
        /\ moves[1] = m1 /\ moves[2] = m2
    BY ListsOf
  <2>4. ASSUME \A x \in {a, b} : x.at # NoTemp
        PROVE  Fits(1, b.at, {a, b}, {a.at}, moves)
    <3>1. /\ a.at \in Temps /\ a.at \in Nat /\ a.at \notin temps.used
          /\ a.used = temps.used \cup {a.at}
          /\ b.at \in Temps /\ b.at \in Nat /\ b.at \notin a.used /\ b.used = a.used \cup {b.at}
      BY <2>4, <1>11, <1>12
    <3>2. b.at .. b.at + 1 - 1 = {b.at} /\ DOMAIN Sets(b.at, 1) = {b.at} BY <3>1, <1>14
    <3>3. UNION {x.used : x \in {a, b}} = a.used \cup b.used BY UsedOf
    <3>4. \A k \in DOMAIN moves : DOMAIN moves[k].writes \cap temps.used = {}
      BY <2>2, <2>3, <3>1, <3>2
    <3>5. \A read \in m1.reads : Ready(l, at, read) BY <2>2
    <3>6. l[s] # a.at
      <4>1. l[s] \in temps.used BY <1>1, <1>3, <1>7, WantedHome DEF Translatable
      <4> QED BY <4>1, <3>1
    <3>7. \A read \in m2.reads : Left(m1, read) \/ (Ready(l, at, read) /\ read[1] \notin DOMAIN m1.writes)
      BY <2>2, <3>6, <1>7 DEF Left, Ready
    <3>8. PICK i : i = at OBVIOUS
    <3>9. Finds(l, i, moves) BY <3>5, <3>7, <3>8, TwoFinds
    <3>10. temps.used \cup UNION {x.used : x \in {a, b}}
               = temps.used \cup {a.at} \cup (b.at .. b.at + 1 - 1)
      BY <3>1, <3>2, <3>3
    <3>11. /\ {a.at} \cap temps.used = {}
           /\ (b.at .. b.at + 1 - 1) \cap (temps.used \cup {a.at}) = {}
      BY <3>1, <3>2
    <3>12. Lined(moves, Len(moves)) /\ Len(moves) # 0 /\ moves[Len(moves)].writes = Sets(b.at, 1)
      BY <2>2, <2>3
    <3> HIDE DEF moves
    <3> QED BY <1>3, <3>1, <3>2, <3>4, <3>8, <3>9, <3>10, <3>11, <3>12 DEF Fits
  <2> HIDE DEF moves
  <2>5. PICK K, S, r, m, t : K = {a, b} /\ S = {a.at} /\ r = b.at /\ m = moves /\ t = temps
    OBVIOUS
  <2>6. Emit(t, K, S, Homes(r), m) BY <2>1, <2>5
  <2>7. (\A x \in K : x.at # NoTemp) => Fits(1, r, K, S, m) BY <2>4, <2>5
  <2>8. Alike(t) BY <1>1, <2>5, TempsAlike
  <2> QED BY <1>1, <1>10, <2>6, <2>7, <2>8, HomesEmitted
<1> QED BY <1>15, <1>16

-----------------------------------------------------------------------------
(* An instruction that takes one row, and is one move.                      *)
LEMMA OneTaken ==
    ASSUME NEW op, Translatable(op), op \notin {"decl", "again"}, UNCHANGED <<shader, lastUse, step>>,
           Coded, NEW n \in Nat \ {0}, Makes(op) = n, NEW a,
           a.at # NoTemp => Takeable(temps.used, n, a), NEW reads,
           ~UboOffsets => \A read \in reads : Ready(temps.loc, at, read), NEW t, Alike(t),
           Emit(t, {a}, {}, Homes(a.at), <<Move(reads, Sets(a.at, n))>>)
    PROVE  Allocated' /\ Coded'
<1> DEFINE m1 == Move(reads, Sets(a.at, n))
           moves == <<m1>>
<1>1. m1.reads = reads /\ m1.writes = Sets(a.at, n) BY DEF Move
<1> HIDE DEF m1
<1>2. Lined(moves, 1) /\ Len(moves) = 1 /\ DOMAIN moves = {1} /\ moves[1] = m1 BY ListsOf
<1>3. ASSUME \A x \in {a} : x.at # NoTemp PROVE Fits(n, a.at, {a}, {}, moves)
  <2>1. /\ a.at \in Nat /\ a.at .. a.at + n - 1 \subseteq Temps
        /\ (a.at .. a.at + n - 1) \cap temps.used = {}
        /\ a.used = temps.used \cup (a.at .. a.at + n - 1)
    BY <1>3 DEF Takeable
  <2>2. UNION {x.used : x \in {a}} = a.used BY UsedOf
  <2>3. DOMAIN Sets(a.at, n) = a.at .. a.at + n - 1 BY DEF Sets
  <2>4. \A k \in DOMAIN moves : DOMAIN moves[k].writes \cap temps.used = {}
    BY <1>1, <1>2, <2>1, <2>3
  <2>5. ~UboOffsets => Finds(temps.loc, at, moves)
    <3>1. PICK l, i : l = temps.loc /\ i = at OBVIOUS
    <3>2. ~UboOffsets => \A read \in m1.reads : Ready(l, i, read) BY <1>1, <3>1
    <3>3. ~UboOffsets => Finds(l, i, moves) BY <3>2, OneFinds
    <3> QED BY <3>1, <3>3
  <2>6. temps.used \cup UNION {x.used : x \in {a}} = temps.used \cup {} \cup (a.at .. a.at + n - 1)
    BY <2>1, <2>2
  <2>7. /\ {} \cap temps.used = {}
        /\ (a.at .. a.at + n - 1) \cap (temps.used \cup {}) = {}
    BY <2>1
  <2>8. Lined(moves, Len(moves)) /\ Len(moves) # 0 /\ moves[Len(moves)].writes = Sets(a.at, n)
    BY <1>1, <1>2
  <2> HIDE DEF moves
  <2> QED BY <2>1, <2>4, <2>5, <2>6, <2>7, <2>8 DEF Fits
<1>4. Emit(t, {a}, {}, Homes(a.at), moves) BY DEF m1
<1> HIDE DEF moves
<1>5. PICK K, S, r, m : K = {a} /\ S = {} /\ r = a.at /\ m = moves OBVIOUS
<1>6. Emit(t, K, S, Homes(r), m) BY <1>4, <1>5
<1>7. (\A x \in K : x.at # NoTemp) => Fits(n, r, K, S, m) BY <1>3, <1>5
<1> QED BY <1>6, <1>7, HomesEmitted

(* An instruction that takes nothing: no value of its own is read later.    *)
LEMMA NothingTaken ==
    ASSUME NEW op, Translatable(op), op # "again", UNCHANGED <<shader, lastUse, step>>, Coded,
           NEW t, Tidy(t), Widens(t, <<>>), NEW moves,
           ~UboOffsets => CodeOK(t.loc, at, moves),
           Emit(t, {}, {}, <<>>, moves)
    PROVE  Allocated' /\ Coded'
<1>1. PICK K, S, h : K = {} /\ S = {} /\ h = <<>> OBVIOUS
<1>2. DOMAIN h = {} BY <1>1
<1>3. Takes(t, K, S, h)
  <2>1. UNION {a.used : a \in K} = {} BY <1>1
  <2>2. {h[v] : v \in DOMAIN h} = {} BY <1>2
  <2>3. t \in TempsOf BY DEF Tidy
  <2> QED BY <1>1, <1>2, <2>1, <2>2, <2>3 DEF Takes
<1>4. Over(h, t.loc) = t.loc
  <2>1. PICK l : l = t.loc OBVIOUS
  <2>2. l \in Locs BY <2>1, TempsFields DEF Tidy
  <2>3. PICK T \in SUBSET (Values \cup {Web}) : l \in [T -> Temps] BY <2>2 DEF Locs
  <2>4. DOMAIN h \cup DOMAIN l = DOMAIN l BY <1>2
  <2>5. Over(h, l) = [x \in DOMAIN l |-> IF x \in DOMAIN h THEN h[x] ELSE l[x]]
    BY <2>4 DEF Over
  <2>6. Over(h, l) = [x \in DOMAIN l |-> l[x]] BY <1>2, <2>5
  <2>7. l = [x \in DOMAIN l |-> l[x]] BY <2>3
  <2> QED BY <2>1, <2>6, <2>7
<1>5. Emission(t, K, S, h, moves) BY <1>1, <1>3, <1>4 DEF Emission
<1>6. Emit(t, K, S, h, moves) BY <1>1
<1> QED BY <1>5, <1>6, EmitStep

(* The instructions, one at a time.                                        *)
LEMMA IntWordStep ==
    ASSUME ShaderInv, Phases, Allocated, Coded, IntWord
    PROVE  Allocated' /\ Coded'
<1>1. Translatable("word") /\ UNCHANGED <<shader, lastUse, step>> BY Started DEF IntWord
<1>2. PICK a : a = Take(temps.used, Single) OBVIOUS
<1>3. PICK t, reads, n : t = temps /\ reads = {Is(s) : s \in Range(Now.reads)} /\ n = 1 OBVIOUS
<1>4. temps.used \in SUBSET Temps BY <1>1, Plainly
<1>5. a.at # NoTemp => Takeable(temps.used, n, a)
  <2>1. Single[1] = 1 BY DEF Single
  <2> QED BY <1>2, <1>3, <1>4, <2>1, TakeOf
<1>6. \A read \in reads : Ready(temps.loc, at, read)
  BY <1>1, <1>3, ReadWanted DEF Ready, Is, Loc
<1>7. Emit(t, {a}, {}, Homes(a.at), <<Move(reads, Sets(a.at, n))>>)
  BY <1>2, <1>3 DEF IntWord
<1>8. Alike(t) BY <1>1, <1>3, TempsAlike
<1>9. Makes("word") = n /\ n \in Nat \ {0} BY <1>3 DEF Makes
<1>10. PICK op : op = "word" OBVIOUS
<1>11. Translatable(op) /\ op \notin {"decl", "again"} /\ Makes(op) = n BY <1>1, <1>9, <1>10
<1> QED BY <1>1, <1>5, <1>6, <1>7, <1>8, <1>9, <1>11, OneTaken

LEMMA FMulStep ==
    ASSUME ShaderInv, Phases, Allocated, Coded, FMul
    PROVE  Allocated' /\ Coded'
<1>1. Translatable("fmul") /\ UNCHANGED <<shader, lastUse, step>> BY Started DEF FMul
<1>2. PICK a : a = Take(temps.used, Even) OBVIOUS
<1>3. PICK t, reads, n :
          /\ t = IF ColourId(Now.makes[1]) # 0 THEN [temps EXCEPT !.out = NoRoom] ELSE temps
          /\ reads = {Is(s) : s \in Range(Now.reads)} /\ n = 1
  OBVIOUS
<1>4. temps.used \in SUBSET Temps BY <1>1, Plainly
<1>5. a.at # NoTemp => Takeable(temps.used, n, a)
  <2>1. Even[1] = 1 BY DEF Even
  <2> QED BY <1>2, <1>3, <1>4, <2>1, TakeOf
<1>6. \A read \in reads : Ready(temps.loc, at, read)
  BY <1>1, <1>3, ReadWanted DEF Ready, Is, Loc
<1>7. Emit(t, {a}, {}, Homes(a.at), <<Move(reads, Sets(a.at, n))>>)
  BY <1>2, <1>3 DEF FMul
<1>8. Alike(t)
  <2>1. CASE ColourId(Now.makes[1]) = 0 BY <2>1, <1>1, <1>3, TempsAlike
  <2>2. CASE ColourId(Now.makes[1]) # 0
    <3>1. OutBase = NoRoom BY <2>2 DEF FMul
    <3>2. temps.out < 0
      <4>1. PICK r : r = Take(temps.used, Pair).at OBVIOUS
      <4>2. OutBase = IF temps.out # NoTemp THEN temps.out ELSE IF r = NoTemp THEN NoRoom ELSE r
        BY <4>1 DEF OutBase
      <4>3. temps.out = NoTemp \/ temps.out = NoRoom BY <3>1, <4>2
      <4> QED BY <4>3 DEF NoTemp, NoRoom
    <3>3. Alike([temps EXCEPT !.out = NoRoom]) BY <1>1, <3>2, TempsAlike
    <3> QED BY <2>2, <3>3, <1>3
  <2> QED BY <2>1, <2>2
<1>9. Makes("fmul") = n BY <1>3 DEF Makes
<1> QED BY <1>1, <1>3, <1>5, <1>6, <1>7, <1>8, <1>9, OneTaken

LEMMA KeepNothing ==
    ASSUME NEW op, Translatable(op), op \notin {"decl", "again"},
           \A v \in MakesOf(at) : lastUse[v] = 0
    PROVE  Tidy(temps) /\ Widens(temps, <<>>)
BY Plainly DEF Widens, Translatable

LEMMA LoadRegStep ==
    ASSUME ShaderInv, Phases, Allocated, Coded, LoadReg
    PROVE  Allocated' /\ Coded'
<1>1. Translatable("copy") /\ UNCHANGED <<shader, lastUse, step>> BY Started DEF LoadReg
<1>2. Web \in Wanted(at) BY <1>1, ReadWanted
<1>3. CASE lastUse[Now.makes[1]] # 0
  <2>2. PICK a : a = Take(temps.used, Even) OBVIOUS
  <2>3. PICK t, reads, n : t = temps /\ reads = {Is(Web)} /\ n = 1 OBVIOUS
  <2>4. temps.used \in SUBSET Temps BY <1>1, Plainly
  <2>5. a.at # NoTemp => Takeable(temps.used, n, a)
    <3>1. Even[1] = 1 BY DEF Even
    <3> QED BY <2>2, <2>3, <2>4, <3>1, TakeOf
  <2>6. \A read \in reads : Ready(temps.loc, at, read)
    BY <1>2, <2>3 DEF Ready, Is, Loc
  <2>7. Emit(t, {a}, {}, Homes(a.at), <<Move(reads, Sets(a.at, n))>>)
    BY <1>3, <2>2, <2>3 DEF LoadReg
  <2>8. Alike(t) BY <1>1, <2>3, TempsAlike
  <2>9. Makes("copy") = n BY <2>3 DEF Makes
  <2> QED BY <1>1, <2>3, <2>5, <2>6, <2>7, <2>8, <2>9, OneTaken
<1>4. CASE lastUse[Now.makes[1]] = 0
  <2>1. shader[at].makes \in [1 .. 1 -> Values] BY <1>1 DEF Translatable, ShaderInv, InOrder, Makes
  <2>2. \A v \in MakesOf(at) : lastUse[v] = 0 BY <2>1, <1>4 DEF MakesOf, Range, Now
  <2>3. PICK t, m : t = temps /\ m = <<>> OBVIOUS
  <2>4. Tidy(t) /\ Widens(t, <<>>) BY <1>1, <2>2, <2>3, KeepNothing
  <2>5. Emit(t, {}, {}, <<>>, m) BY <1>4, <2>3 DEF LoadReg
  <2>6. CodeOK(t.loc, at, m)
    <3>1. Lined(m, Len(m)) /\ DOMAIN m = {} BY <2>3, ListsOf
    <3>2. Keeps(temps.loc, at, m) BY <1>1, <3>1, FreshKeeps
    <3>3. Finds(temps.loc, at, m) BY <3>1 DEF Finds
    <3>4. Gains(at) = {} BY <1>1, <2>2 DEF Gains, Translatable
    <3>5. Gives(temps.loc, at, m) BY <3>4 DEF Gives
    <3> QED BY <2>3, <3>1, <3>2, <3>3, <3>5 DEF CodeOK
  <2> QED BY <1>1, <2>4, <2>5, <2>6, NothingTaken
<1> QED BY <1>3, <1>4

LEMMA TextureStep ==
    ASSUME ShaderInv, Phases, Allocated, Coded, Texture
    PROVE  Allocated' /\ Coded'
<1>1. Translatable("tex") /\ UNCHANGED <<shader, lastUse, step>> BY Started DEF Texture
<1>2. PICK s : s = Now.reads[1] OBVIOUS
<1>3. PICK l, n : l = temps.loc /\ n = TexelLen OBVIOUS
<1>4. PICK c : c = Take(temps.used, Even) OBVIOUS
<1>5. PICK d : d = Take(c.used, Texel) OBVIOUS
<1>6. PICK raw : raw = Take(d.used, Even) OBVIOUS
<1>7. s \in Wanted(at) BY <1>1, <1>2, OneRead
<1>8. Is(s) = <<l[s], s>> BY <1>3 DEF Is, Loc
<1>9. temps.used \in SUBSET Temps BY <1>1, Plainly
<1>10. Makes("tex") = n /\ n \in Nat \ {0} BY <1>3, RegsAssumption DEF Makes
<1> DEFINE m1 == Move({<<l[s], s>>}, Only(c.at, s))
           m2 == Move({<<c.at, s>>}, Only(raw.at, Word))
           m3 == Move({<<raw.at, Word>>}, Sets(d.at, n))
           moves == <<m1, m2, m3>>
<1>11. Emit(temps, {c, d, raw}, {c.at, raw.at}, Homes(d.at), moves)
  BY <1>2, <1>3, <1>4, <1>5, <1>6, <1>8 DEF Texture
<1>12. /\ m1.reads = {<<l[s], s>>} /\ DOMAIN m1.writes = {c.at} /\ m1.writes[c.at] = s
       /\ m2.reads = {<<c.at, s>>} /\ DOMAIN m2.writes = {raw.at} /\ m2.writes[raw.at] = Word
       /\ m3.reads = {<<raw.at, Word>>} /\ m3.writes = Sets(d.at, n)
  BY OnlyOf DEF Move
<1> HIDE DEF m1, m2, m3
<1>13. /\ Lined(moves, 3) /\ Len(moves) = 3 /\ DOMAIN moves = {1, 2, 3}
       /\ moves[1] = m1 /\ moves[2] = m2 /\ moves[3] = m3
  BY ListsOf
<1>14. ASSUME \A x \in {c, d, raw} : x.at # NoTemp
       PROVE  Fits(n, d.at, {c, d, raw}, {c.at, raw.at}, moves)
  <2>1. /\ c.at \in Temps /\ c.at \in Nat /\ c.at \notin temps.used
        /\ c.used = temps.used \cup {c.at} /\ c.used \in SUBSET Temps
    BY <1>4, <1>9, <1>14, TakeEven
  <2>2. Takeable(c.used, n, d) BY <1>3, <1>5, <1>14, <2>1, TakeTexel
  <2>3. /\ d.at \in Nat /\ d.at .. d.at + n - 1 \subseteq Temps
        /\ (d.at .. d.at + n - 1) \cap c.used = {}
        /\ d.used = c.used \cup (d.at .. d.at + n - 1) /\ d.used \in SUBSET Temps
    BY <2>2 DEF Takeable
  <2>4. /\ raw.at \in Temps /\ raw.at \in Nat /\ raw.at \notin d.used
        /\ raw.used = d.used \cup {raw.at}
    <3>1. raw.at # NoTemp /\ d.used \in SUBSET Temps BY <1>14, <2>3
    <3>2. raw = Take(d.used, Even) BY <1>6
    <3> HIDE DEF moves
    <3> QED BY <3>1, <3>2, TakeEven
  <2>5. DOMAIN Sets(d.at, n) = d.at .. d.at + n - 1 BY DEF Sets
  <2>6. UNION {x.used : x \in {c, d, raw}} = c.used \cup d.used \cup raw.used BY UsedOf
  <2>7. \A k \in DOMAIN moves : DOMAIN moves[k].writes \cap temps.used = {}
    <3>1. c.at \notin temps.used /\ raw.at \notin temps.used BY <2>1, <2>3, <2>4
    <3>2. DOMAIN m3.writes \cap temps.used = {} BY <1>12, <2>1, <2>3, <2>5
    <3> QED BY <1>12, <1>13, <3>1, <3>2
  <2>8. PICK i : i = at OBVIOUS
  <2>9. Finds(l, i, moves)
    <3>1. \A read \in m1.reads : Ready(l, i, read) BY <1>7, <1>12, <2>8 DEF Ready
    <3>2. \A read \in m2.reads : Left(m1, read) BY <1>12 DEF Left
    <3>3. \A read \in m3.reads : Left(m2, read) BY <1>12 DEF Left
    <3> QED BY <3>1, <3>2, <3>3, ThreeFinds
  <2>10. temps.used \cup UNION {x.used : x \in {c, d, raw}}
             = temps.used \cup {c.at, raw.at} \cup (d.at .. d.at + n - 1)
    BY <2>1, <2>3, <2>4, <2>6
  <2>11. /\ {c.at, raw.at} \cap temps.used = {}
         /\ (d.at .. d.at + n - 1) \cap (temps.used \cup {c.at, raw.at}) = {}
    BY <2>1, <2>3, <2>4
  <2>12. Lined(moves, Len(moves)) /\ Len(moves) # 0 /\ moves[Len(moves)].writes = Sets(d.at, n)
    BY <1>12, <1>13
  <2> HIDE DEF moves
  <2> QED BY <1>3, <2>3, <2>7, <2>8, <2>9, <2>10, <2>11, <2>12 DEF Fits
<1> HIDE DEF moves
<1>15. PICK K, S, r, m, t :
           K = {c, d, raw} /\ S = {c.at, raw.at} /\ r = d.at /\ m = moves /\ t = temps
  OBVIOUS
<1>16. Emit(t, K, S, Homes(r), m) BY <1>11, <1>15
<1>17. (\A x \in K : x.at # NoTemp) => Fits(n, r, K, S, m) BY <1>14, <1>15
<1>18. Alike(t) BY <1>1, <1>15, TempsAlike
<1> QED BY <1>1, <1>10, <1>16, <1>17, <1>18, HomesEmitted

LEMMA UboLoadStep ==
    ASSUME ShaderInv, Phases, Allocated, Coded, UboLoad
    PROVE  Allocated' /\ Coded'
<1>1. Translatable("ubo") /\ UNCHANGED <<shader, lastUse, step>> BY Started DEF UboLoad
<1>2. PICK a : a = Take(temps.used, Row) OBVIOUS
<1>3. PICK n : n = TexelLen OBVIOUS
<1>4. PICK o : o = Take(a.used, Even) OBVIOUS
<1>5. temps.used \in SUBSET Temps BY <1>1, Plainly
<1>6. Makes("ubo") = n /\ n \in Nat \ {0} BY <1>3, RegsAssumption DEF Makes
<1>7. a.at # NoTemp => Takeable(temps.used, n, a) BY <1>2, <1>3, <1>5, TakeTexel
<1>8. CASE Now.reads = <<>>
  <2>1. PICK t, reads : t = temps /\ reads = {} OBVIOUS
  <2>2. \A read \in reads : Ready(temps.loc, at, read) BY <2>1
  <2>3. Emit(t, {a}, {}, Homes(a.at), <<Move(reads, Sets(a.at, n))>>)
    BY <1>2, <1>3, <1>8, <2>1 DEF UboLoad
  <2>4. Alike(t) BY <1>1, <2>1, TempsAlike
  <2>5. PICK op : op = "ubo" OBVIOUS
  <2>6. Translatable(op) /\ op \notin {"decl", "again"} /\ Makes(op) = n BY <1>1, <1>6, <2>5
  <2> QED BY <1>1, <1>6, <1>7, <2>2, <2>3, <2>4, <2>6, OneTaken
<1>9. CASE Now.reads # <<>>
  <2>1. UboOffsets
    <3>1. PICK k \in Sources(Op(at)) : shader[at].reads \in [1 .. k -> shader[at].sees]
      BY <1>1 DEF Translatable, ShaderInv, SeenMade
    <3>2. CASE ~UboOffsets
      <4>1. k = 0 BY <1>1, <3>1, <3>2 DEF Sources, Translatable
      <4>2. Now.reads = <<>> BY <3>1, <4>1 DEF Now
      <4> QED BY <4>2, <1>9
    <3> QED BY <3>2
  <2> DEFINE m1 == Move({Is(Now.reads[1])}, Only(o.at, Word))
             m2 == Move({<<o.at, Word>>}, Sets(a.at, n))
             moves == <<m1, m2>>
  <2>2. Emit(temps, {a, o}, {o.at}, Homes(a.at), moves)
    BY <1>2, <1>3, <1>4, <1>9 DEF UboLoad
  <2>3. DOMAIN m1.writes = {o.at} /\ m2.writes = Sets(a.at, n) BY OnlyOf DEF Move
  <2> HIDE DEF m1, m2
  <2>4. /\ Lined(moves, 2) /\ Len(moves) = 2 /\ DOMAIN moves = {1, 2}
        /\ moves[1] = m1 /\ moves[2] = m2
    BY ListsOf
  <2>5. ASSUME \A x \in {a, o} : x.at # NoTemp
        PROVE  Fits(n, a.at, {a, o}, {o.at}, moves)
    <3>1. /\ a.at \in Nat /\ a.at .. a.at + n - 1 \subseteq Temps
          /\ (a.at .. a.at + n - 1) \cap temps.used = {}
          /\ a.used = temps.used \cup (a.at .. a.at + n - 1) /\ a.used \in SUBSET Temps
      BY <1>7, <2>5 DEF Takeable
    <3>2. o.at \in Temps /\ o.at \in Nat /\ o.at \notin a.used /\ o.used = a.used \cup {o.at}
      <4>1. o.at # NoTemp /\ a.used \in SUBSET Temps BY <2>5, <3>1
    <4>2. o = Take(a.used, Even) BY <1>4
    <4> HIDE DEF moves
    <4> QED BY <4>1, <4>2, TakeEven
    <3>3. DOMAIN Sets(a.at, n) = a.at .. a.at + n - 1 BY DEF Sets
    <3>4. UNION {x.used : x \in {a, o}} = a.used \cup o.used BY UsedOf
    <3>5. \A k \in DOMAIN moves : DOMAIN moves[k].writes \cap temps.used = {}
      BY <2>3, <2>4, <3>1, <3>2, <3>3
    <3>6. temps.used \cup UNION {x.used : x \in {a, o}}
              = temps.used \cup {o.at} \cup (a.at .. a.at + n - 1)
      BY <3>1, <3>2, <3>4
    <3>7. /\ {o.at} \cap temps.used = {}
          /\ (a.at .. a.at + n - 1) \cap (temps.used \cup {o.at}) = {}
      BY <3>1, <3>2
    <3>8. Lined(moves, Len(moves)) /\ Len(moves) # 0 /\ moves[Len(moves)].writes = Sets(a.at, n)
      BY <2>3, <2>4
    <3> HIDE DEF moves
    <3> QED BY <2>1, <3>1, <3>5, <3>6, <3>7, <3>8 DEF Fits
  <2> HIDE DEF moves
  <2>6. PICK K, S, r, m, t : K = {a, o} /\ S = {o.at} /\ r = a.at /\ m = moves /\ t = temps
    OBVIOUS
  <2>7. Emit(t, K, S, Homes(r), m) BY <2>2, <2>6
  <2>8. (\A x \in K : x.at # NoTemp) => Fits(n, r, K, S, m) BY <2>5, <2>6
  <2>9. Alike(t) BY <1>1, <2>6, TempsAlike
  <2> QED BY <1>1, <1>6, <2>7, <2>8, <2>9, HomesEmitted
<1> QED BY <1>8, <1>9

LEMMA StoreRegStep ==
    ASSUME ShaderInv, Phases, Allocated, Coded, StoreReg
    PROVE  Allocated' /\ Coded'
<1>1. Translatable("keep") /\ UNCHANGED <<shader, lastUse, step>> BY Started DEF StoreReg
<1>2. PICK s, l, i : s = Now.reads[1] /\ l = temps.loc /\ i = at OBVIOUS
<1>3. s \in Wanted(i) /\ Web \in Wanted(i) BY <1>1, <1>2, OneRead, ReadWanted
<1>4. Is(s) = <<l[s], s>> /\ Loc(Web) = l[Web] BY <1>2 DEF Is, Loc
<1> DEFINE m1 == Move({<<l[s], s>>}, Only(l[Web], Web))
<1>5. PICK t, m : t = temps /\ m = <<m1>> OBVIOUS
<1>6. Emit(t, {}, {}, <<>>, m) BY <1>2, <1>4, <1>5 DEF StoreReg
<1>7. m1.reads = {<<l[s], s>>} /\ DOMAIN m1.writes = {l[Web]} /\ m1.writes[l[Web]] = Web
  BY OnlyOf DEF Move
<1> HIDE DEF m1
<1>8. Lined(m, Len(m)) /\ DOMAIN m = {1} /\ m[1] = m1 BY <1>5, ListsOf
<1>9. MakesOf(at) = {} /\ Gains(at) = {}
  <2>1. shader[at].makes \in [1 .. 0 -> Values] BY <1>1 DEF Translatable, ShaderInv, InOrder, Makes
  <2>2. MakesOf(at) = {} BY <2>1 DEF MakesOf, Range
  <2> QED BY <1>1, <2>2 DEF Gains, Translatable
<1>10. Tidy(t) /\ Widens(t, <<>>) BY <1>1, <1>5, <1>9, KeepNothing
<1>11. Keeps(l, i, m)
  <2>1. ASSUME NEW x \in Wanted(i)
        PROVE  x \in DOMAIN l /\ (l[x] = l[Web] => x = Web)
    <3>1. /\ x \in DOMAIN temps.loc
          /\ x # Web => temps.loc[x] \in Held(temps) \cup Outs(temps)
      BY <1>1, <1>2, WantedHome DEF Translatable
    <3>2. temps.loc[Web] \in Webs(temps) BY <1>1, <1>2, <1>3, WantedHome DEF Translatable
    <3>3. Webs(temps) \cap (Held(temps) \cup Outs(temps)) = {} BY <1>1 DEF Translatable, Tidy
    <3> QED BY <3>1, <3>2, <3>3, <1>2
  <2> QED BY <2>1, <1>7, <1>8 DEF Keeps
<1>12. Finds(l, i, m)
  <2>1. \A read \in m1.reads : Ready(l, i, read) BY <1>3, <1>7 DEF Ready
  <2> QED BY <2>1, <1>5, OneFinds
<1>13. CodeOK(t.loc, at, m) BY <1>2, <1>5, <1>8, <1>9, <1>11, <1>12 DEF CodeOK, Gives
<1> QED BY <1>1, <1>6, <1>10, <1>13, NothingTaken

LEMMA TestStep ==
    ASSUME ShaderInv, Phases, Allocated, Coded, Test
    PROVE  Allocated' /\ Coded'
<1>1. Translatable("if") /\ UNCHANGED <<shader, lastUse, step>> BY Started DEF Test
<1>2. PICK s, l, i : s = Now.reads[1] /\ l = temps.loc /\ i = at OBVIOUS
<1>3. s \in Wanted(i) BY <1>1, <1>2, OneRead
<1>4. Is(s) = <<l[s], s>> BY <1>2 DEF Is, Loc
<1> DEFINE m1 == Move({<<l[s], s>>}, <<>>)
<1>5. PICK t, m : t = temps /\ m = <<m1>> OBVIOUS
<1>6. Emit(t, {}, {}, <<>>, m) BY <1>2, <1>4, <1>5 DEF Test
<1>7. m1.reads = {<<l[s], s>>} /\ DOMAIN m1.writes = {} BY ListsOf DEF Move
<1> HIDE DEF m1
<1>8. Lined(m, Len(m)) /\ DOMAIN m = {1} /\ m[1] = m1 BY <1>5, ListsOf
<1>9. MakesOf(at) = {} /\ Gains(at) = {}
  <2>1. shader[at].makes \in [1 .. 0 -> Values] BY <1>1 DEF Translatable, ShaderInv, InOrder, Makes
  <2>2. MakesOf(at) = {} BY <2>1 DEF MakesOf, Range
  <2> QED BY <1>1, <2>2 DEF Gains, Translatable
<1>10. Tidy(t) /\ Widens(t, <<>>) BY <1>1, <1>5, <1>9, KeepNothing
<1>11. Keeps(temps.loc, at, m)
  <2>1. \A k \in DOMAIN m : DOMAIN m[k].writes \cap temps.used = {} BY <1>7, <1>8
  <2> QED BY <1>1, <2>1, FreshKeeps
<1>12. Finds(l, i, m)
  <2>1. \A read \in m1.reads : Ready(l, i, read) BY <1>3, <1>7 DEF Ready
  <2> QED BY <2>1, <1>5, OneFinds
<1>13. CodeOK(t.loc, at, m) BY <1>2, <1>5, <1>8, <1>9, <1>11, <1>12 DEF CodeOK, Gives
<1> QED BY <1>1, <1>6, <1>10, <1>13, NothingTaken

LEMMA BranchesStep ==
    ASSUME ShaderInv, Phases, Allocated, Coded, Branches
    PROVE  Allocated' /\ Coded'
<1>1. PICK op \in {"else", "end", "loop", "break", "out"} : Translating(op) BY DEF Branches
<1>2. Translatable(op) /\ UNCHANGED <<shader, lastUse, step>> BY <1>1, Started
<1>3. PICK t, m : t = temps /\ m = <<>> OBVIOUS
<1>4. Emit(t, {}, {}, <<>>, m) BY <1>3 DEF Branches
<1>5. Makes(op) = 0 BY <1>1 DEF Makes
<1>6. MakesOf(at) = {} /\ Gains(at) = {}
  <2>1. shader[at].makes \in [1 .. 0 -> Values] BY <1>2, <1>5 DEF Translatable, ShaderInv, InOrder
  <2>2. MakesOf(at) = {} BY <2>1 DEF MakesOf, Range
  <2> QED BY <1>1, <1>2, <2>2 DEF Gains, Translatable
<1>7. Tidy(t) /\ Widens(t, <<>>) BY <1>1, <1>2, <1>3, <1>6, KeepNothing
<1>8. Lined(m, Len(m)) /\ DOMAIN m = {} BY <1>3, ListsOf
<1>9. Keeps(temps.loc, at, m) BY <1>2, <1>8, FreshKeeps
<1>10. CodeOK(t.loc, at, m) BY <1>3, <1>6, <1>8, <1>9 DEF CodeOK, Gives, Finds
<1> QED BY <1>1, <1>2, <1>4, <1>7, <1>10, NothingTaken

LEMMA LoopEndStep ==
    ASSUME ShaderInv, Phases, Allocated, Coded, LoopEnd
    PROVE  Allocated' /\ Coded'
<1>1. Translatable("again") /\ UNCHANGED <<shader, lastUse, step>> BY Started DEF LoopEnd
<1>2. /\ ShaderInv /\ Phases /\ Tidy(temps) /\ Homed(temps, at) /\ phase = "translate"
      /\ at \in Prog /\ Op(at) = "again"
  BY <1>1 DEF Translatable
<1>3. PICK r, i, c : r = Release(temps, temps.owned) /\ i = at /\ c = Append(code, <<>>) OBVIOUS
<1>4. temps' = r /\ code' = c /\ at' = i + 1 /\ phase' = "translate"
  BY <1>2, <1>3 DEF LoopEnd
<1>5. ~(\E v : Stays(v)) BY <1>2 DEF Stays, Now, Op
<1>6. /\ Tidy(r) /\ r.loc = temps.loc /\ r.out = temps.out
      /\ \A v : v \in r.owned <=> v \in temps.owned /\ lastUse[v] # i
  BY <1>2, <1>3, <1>5, ReleaseTidy
<1>7. MakesOf(i) = {} /\ Gains(i) = {}
  <2>1. shader[i].makes \in [1 .. 0 -> Values] BY <1>2, <1>3 DEF ShaderInv, InOrder, Makes
  <2>2. MakesOf(i) = {} BY <2>1 DEF MakesOf, Range
  <2> QED BY <1>2, <1>3, <2>2 DEF Gains
<1>8. \A v : MadeBefore(v, i + 1) <=> MadeBefore(v, i) BY <1>2, <1>3, <1>7, BeforeNext
<1>9. Prog = 1 .. Len(shader) /\ Len(shader) \in Nat /\ i \in Prog BY <1>2, <1>3, ProgOf
<1>10. \A v : MadeBefore(v, i) => lastUse[v] \in 0 .. Len(shader)
  <2>1. \A v : MadeBefore(v, i) => v \in 1 .. Made BY <1>2, MadeIn DEF MadeBefore
  <2>2. lastUse \in [1 .. Made -> 0 .. Len(shader)] BY <1>2, LastUsesHold DEF LastUses
  <2> QED BY <2>1, <2>2
<1>11. i # Len(shader)
  <2>1. Op(Len(shader)) = "out" BY <1>2 DEF Phases
  <2> QED BY <2>1, <1>2, <1>3
<1>12. Homed(r, i + 1)
  <2>1. i + 1 \in 1 .. Len(shader) + 1 /\ i + 1 > 1 /\ i + 1 <= Len(shader) BY <1>9, <1>11
  <2>2. ASSUME NEW v \in r.owned PROVE MadeBefore(v, i + 1) /\ Live(v, i + 1)
    <3>1. v \in temps.owned /\ lastUse[v] # i BY <1>6
    <3>2. MadeBefore(v, i) /\ Live(v, i) BY <3>1, <1>2, <1>3 DEF Homed
    <3>3. lastUse[v] >= i BY <3>2, <1>9 DEF Live
    <3> QED BY <3>1, <3>2, <3>3, <1>8, <1>9, <1>10 DEF Live
  <2>3. \A v \in DOMAIN r.loc \ {Web} : MadeBefore(v, i + 1) BY <1>2, <1>3, <1>6, <1>8 DEF Homed
  <2>4. Web \in DOMAIN r.loc <=> i + 1 > 1 /\ Op(1) = "decl"
    <3>1. Web \in DOMAIN temps.loc <=> Op(1) = "decl" BY <1>1, Plainly
    <3> QED BY <3>1, <2>1, <1>6
  <2>5. ASSUME NEW v \in Values, MadeBefore(v, i + 1), Live(v, i + 1)
        PROVE  v \in DOMAIN r.loc /\ (v \in r.owned \/ Fixed(r, v))
    <3>1. MadeBefore(v, i) /\ lastUse[v] \in 0 .. Len(shader) BY <2>5, <1>8, <1>10
    <3>2. lastUse[v] >= i + 1 BY <2>5, <2>1, <1>9 DEF Live
    <3>3. Live(v, i) /\ lastUse[v] # i BY <3>1, <3>2, <1>9 DEF Live
    <3>4. v \in DOMAIN temps.loc /\ (v \in temps.owned \/ Fixed(temps, v))
      BY <3>1, <3>3, <1>2, <1>3 DEF Homed
    <3>5. Fixed(temps, v) => Fixed(r, v) BY <1>6 DEF Fixed
    <3> QED BY <3>3, <3>4, <3>5, <1>6
  <2> QED BY <2>1, <2>2, <2>3, <2>4, <2>5 DEF Homed
<1>13. Allocated'
  <2>1. PICK n : n = i + 1 OBVIOUS
  <2>2. Homed(r, n)' BY <1>1, <1>12, <2>1, SameHomed
  <2> QED BY <1>4, <1>6, <2>1, <2>2 DEF Allocated, Tidy, Held, Outs, Webs, TempsOf, Locs
<1>14. /\ Lined(code, i - 1) /\ step = 1
       /\ ~UboOffsets => \A j \in 1 .. i - 1 : CodeOK(temps.loc, j, code[j])
  BY <1>2, <1>3 DEF Coded
<1>15. i \in Nat /\ i > 0 /\ i - 1 + 1 = i BY <1>9
<1>16. Lined(c, i) /\ c[i] = <<>> /\ \A j \in 1 .. i - 1 : c[j] = code[j]
  BY <1>3, <1>14, <1>15, LinedOf
<1>17. PICK l : l = temps.loc OBVIOUS
<1>18. CodeOK(l, i, <<>>)
  <2>1. Lined(<<>>, Len(<<>>)) /\ DOMAIN <<>> = {} BY ListsOf
  <2>2. PICK m : m = <<>> OBVIOUS
  <2>3. Keeps(temps.loc, at, m) BY <1>1, <2>1, <2>2, FreshKeeps
  <2> QED BY <1>3, <1>7, <1>17, <2>1, <2>2, <2>3 DEF CodeOK, Gives, Finds
<1>19. ASSUME ~UboOffsets, NEW j \in 1 .. i PROVE CodeOK(temps.loc, j, code[j])'
  <2>1. PICK m : m = c[j] OBVIOUS
  <2>2. CodeOK(l, j, m)
    <3>1. j = i \/ j \in 1 .. i - 1 BY <1>15
    <3> QED BY <3>1, <2>1, <1>14, <1>16, <1>17, <1>18, <1>19
  <2>3. CodeOK(l, j, m)' BY <1>1, <2>2, SameCode
  <2>4. temps'.loc = l /\ code'[j] = m BY <1>4, <1>6, <1>17, <2>1
  <2> QED BY <2>3, <2>4
<1>20. at' - 1 = i
  <2>1. at' = i + 1 BY <1>4
  <2> QED BY <2>1, <1>15
<1>21. step' = 1 BY <1>1, <1>14
<1>22. Coded' BY <1>4, <1>16, <1>19, <1>20, <1>21 DEF Coded, Lined
<1> QED BY <1>13, <1>22

LEMMA DeclRegStep ==
    ASSUME ShaderInv, Phases, Allocated, Coded, DeclReg
    PROVE  Allocated' /\ Coded'
<1>1. Translatable("decl") /\ UNCHANGED <<shader, lastUse, step>> BY Started DEF DeclReg
<1>2. /\ ShaderInv /\ Phases /\ Tidy(temps) /\ Homed(temps, at) /\ phase = "translate"
      /\ at \in Prog /\ Op(at) = "decl" /\ at = 1 /\ temps \in TempsOf
  BY <1>1 DEF Translatable, ShaderInv, Placed, Tidy
<1>3. PICK a : a = Take(temps.used, Even) OBVIOUS
<1>4. temps.used \in SUBSET Temps BY <1>2, TempsFields
<1> DEFINE m1 == Move({}, Only(a.at, Web))
           l == Over(Only(Web, a.at), temps.loc)
           t0 == [temps EXCEPT !.loc = Over(Only(Web, a.at), @)]
           t1 == [used |-> temps.used \cup {a.at}, loc |-> l, owned |-> temps.owned, out |-> temps.out]
           m == <<m1>>
<1>5. Emit(t0, {a}, {}, <<>>, m) BY <1>3 DEF DeclReg
<1>6. CASE a.at = NoTemp
  <2>1. phase' # "translate" BY <1>5, <1>6 DEF Emit
  <2> QED BY <2>1 DEF Allocated, Coded
<1>7. CASE a.at # NoTemp
  <2>1. /\ a.at \in Temps /\ a.at \in Nat /\ a.at \notin temps.used
        /\ a.used = temps.used \cup {a.at} /\ a.used \in SUBSET Temps
    BY <1>3, <1>4, <1>7, TakeEven
  <2>2. temps = [used |-> temps.used, loc |-> temps.loc, owned |-> temps.owned, out |-> temps.out]
    BY <1>2, TempsFields
  <2>3. t0 = [used |-> temps.used, loc |-> l, owned |-> temps.owned, out |-> temps.out]
    <3>1. t0 = [temps EXCEPT !.loc = l] OBVIOUS
    <3> HIDE DEF l, t0
    <3> QED BY <3>1, <2>2
  <2> HIDE DEF m
  <2>4. Emit(t1, {}, {}, <<>>, m)
    <3>1. DOMAIN <<>> = {} BY ListsOf
    <3> DEFINE d == {v \in DOMAIN <<>> : lastUse[v] = 0}
               u0 == (t0.used \cup UNION {x.used : x \in {a}}) \ ({} \cup {<<>>[v] : v \in d})
               u1 == (t1.used \cup UNION {x.used : x \in {}}) \ ({} \cup {<<>>[v] : v \in d})
               e == DOMAIN <<>> \ d
    <3>2. u0 = u1
      <4>1. UNION {x.used : x \in {a}} = a.used /\ UNION {x.used : x \in {}} = {} BY UsedOf
      <4>2. t0.used = temps.used /\ t1.used = temps.used \cup {a.at} BY <2>3
      <4>3. t0.used \cup UNION {x.used : x \in {a}} = t1.used \cup UNION {x.used : x \in {}}
        BY <4>1, <4>2, <2>1
      <4> QED BY <4>3
    <3> DEFINE f0 == [t0 EXCEPT !.used = u0, !.loc = Over(<<>>, @), !.owned = @ \cup e]
               f1 == [t1 EXCEPT !.used = u1, !.loc = Over(<<>>, @), !.owned = @ \cup e]
    <3>3. f0 = f1
      <4> HIDE DEF u0, u1, l, e
      <4>1. f0 = [t0 EXCEPT !.used = u1, !.loc = Over(<<>>, @), !.owned = @ \cup e] BY <3>2
      <4>2. f0 = [used |-> u1, loc |-> Over(<<>>, l), owned |-> temps.owned \cup e, out |-> temps.out]
        <5> HIDE DEF t0, f0
        <5> QED BY <4>1, <2>3
      <4>3. f1 = [used |-> u1, loc |-> Over(<<>>, l), owned |-> temps.owned \cup e, out |-> temps.out]
        <5>1. f1 = [t1 EXCEPT !.used = u1, !.loc = Over(<<>>, @), !.owned = @ \cup e] OBVIOUS
        <5>2. t1 = [used |-> temps.used \cup {a.at}, loc |-> l, owned |-> temps.owned, out |-> temps.out]
          OBVIOUS
        <5> HIDE DEF t1, f1
        <5> QED BY <5>1, <5>2
      <4> QED BY <4>2, <4>3
    <3>4. /\ temps' = Release(f0, ForEachRead(at))
          /\ code' = Append(code, m) /\ at' = at + 1 /\ UNCHANGED phase
      BY <1>5, <1>7 DEF Emit
    <3>5. temps' = Release(f1, ForEachRead(at)) BY <3>3, <3>4
    <3> HIDE DEF t1
    <3> QED BY <3>4, <3>5 DEF Emit
  <2>5. Web \notin DOMAIN temps.loc BY <1>2 DEF Homed
  <2>6. /\ DOMAIN l = DOMAIN temps.loc \cup {Web} /\ l[Web] = a.at
        /\ \A x \in DOMAIN temps.loc : l[x] = temps.loc[x]
    <3>1. PICK o, f : o = Only(Web, a.at) /\ f = temps.loc OBVIOUS
    <3>2. DOMAIN o = {Web} /\ o[Web] = a.at BY <3>1, OnlyOf
    <3>3. l = Over(o, f) BY <3>1
    <3>4. /\ DOMAIN l = DOMAIN o \cup DOMAIN f
          /\ \A x \in DOMAIN o : l[x] = o[x]
          /\ \A x \in DOMAIN f \ DOMAIN o : l[x] = f[x]
      BY <3>3 DEF Over
    <3> HIDE DEF l
    <3> QED BY <3>1, <3>2, <3>4, <2>5
  <2>7. l \in Locs
    <3>1. PICK o, f : o = Only(Web, a.at) /\ f = temps.loc OBVIOUS
    <3>2. DOMAIN o = {Web} /\ o[Web] = a.at BY <3>1, OnlyOf
    <3>3. f \in Locs BY <3>1, <1>2, TempsFields
    <3> QED BY <3>1, <3>2, <3>3, <2>1, OverLocs
  <2> HIDE DEF l, m1
  <2>8. Tidy(t1)
    <3>1. t1 \in TempsOf BY <1>2, <2>1, <2>7, TempsFields DEF TempsOf
    <3>2. /\ temps.owned \subseteq DOMAIN temps.loc
          /\ temps.used = Held(temps) \cup Outs(temps) \cup Webs(temps)
          /\ \A v, w \in temps.owned : temps.loc[v] = temps.loc[w] => v = w
          /\ Held(temps) \cap Outs(temps) = {} /\ Webs(temps) \cap (Held(temps) \cup Outs(temps)) = {}
      BY <1>2 DEF Tidy
    <3>3. /\ t1.used = temps.used \cup {a.at} /\ t1.loc = l /\ t1.owned = temps.owned
          /\ t1.out = temps.out
      OBVIOUS
    <3> HIDE DEF t1
    <3>4. Outs(t1) = Outs(temps) BY <3>3 DEF Outs
    <3>5. Held(t1) = Held(temps) BY <3>2, <3>3, <2>6 DEF Held
    <3>6. Webs(t1) = {a.at} /\ Webs(temps) = {} BY <3>3, <2>5, <2>6 DEF Webs
    <3>7. t1.used = Held(t1) \cup Outs(t1) \cup Webs(t1) BY <3>2, <3>3, <3>4, <3>5, <3>6
    <3>8. \A v, w \in t1.owned : t1.loc[v] = t1.loc[w] => v = w BY <3>2, <3>3, <2>6
    <3>9. Held(t1) \cap Outs(t1) = {} /\ Webs(t1) \cap (Held(t1) \cup Outs(t1)) = {}
      BY <3>2, <3>4, <3>5, <3>6, <2>1
    <3>10. t1.owned \subseteq DOMAIN t1.loc BY <3>2, <3>3, <2>6
    <3> QED BY <3>1, <3>7, <3>8, <3>9, <3>10 DEF Tidy
  <2>9. MakesOf(at) = {}
    <3>1. shader[at].makes \in [1 .. 0 -> Values] BY <1>2 DEF ShaderInv, InOrder, Makes
    <3> QED BY <3>1 DEF MakesOf, Range
  <2>10. Widens(t1, <<>>) BY <1>2, <2>6, <2>9 DEF Widens, Agrees
  <2>11. CodeOK(t1.loc, at, m)
    <3>1. Lined(m, Len(m)) /\ Len(m) = 1 /\ DOMAIN m = {1} /\ m[1] = m1 BY ListsOf DEF m
    <3>2. m1.reads = {} /\ DOMAIN m1.writes = {a.at} /\ m1.writes[a.at] = Web
      BY OnlyOf DEF Move, m1
    <3>3. Wanted(at) = {}
      <4>1. \A v \in shader[1].sees : FALSE
        <5>1. \A v \in shader[1].sees : \E j \in 1 .. 1 - 1 : v \in MakesOf(j)
          BY <1>2 DEF ShaderInv, SeenMade
        <5> QED BY <5>1
      <4> QED BY <1>2, <4>1 DEF Wanted, Known
    <3>4. Keeps(l, at, m) BY <3>3 DEF Keeps
    <3>5. Finds(l, at, m) BY <3>1, <3>2 DEF Finds
    <3>6. Gains(at) = {Web} BY <1>2, <2>9 DEF Gains
    <3>7. Gives(l, at, m) BY <3>1, <3>2, <3>6, <2>6 DEF Gives
    <3>8. t1.loc = l OBVIOUS
    <3> QED BY <3>1, <3>4, <3>5, <3>7, <3>8 DEF CodeOK
  <2>12. PICK t, n : t = t1 /\ n = m OBVIOUS
  <2>13. /\ Tidy(t) /\ Widens(t, <<>>) /\ CodeOK(t.loc, at, n) /\ Emit(t, {}, {}, <<>>, n)
    BY <2>4, <2>8, <2>10, <2>11, <2>12
  <2> QED BY <1>1, <2>13, NothingTaken
<1> QED BY <1>6, <1>7

-----------------------------------------------------------------------------
(* The colour's temporaries: its own, or a free row of them.                *)
LEMMA PairFree ==
    ASSUME Tidy(temps), Take(temps.used, Pair).at # NoTemp
    PROVE  /\ Take(temps.used, Pair).at \in Nat
           /\ Take(temps.used, Pair).at .. Take(temps.used, Pair).at + ColourLen - 1 \subseteq Temps
           /\ (Take(temps.used, Pair).at .. Take(temps.used, Pair).at + ColourLen - 1) \cap temps.used = {}
<1>1. PICK a : a = Take(temps.used, Pair) OBVIOUS
<1>2. temps.used \in SUBSET Temps BY TempsFields DEF Tidy
<1>3. Pair[1] = ColourLen /\ Pair[1] \in Nat \ {0} BY RegsAssumption DEF Pair
<1>4. Takeable(temps.used, Pair[1], a) BY <1>1, <1>2, <1>3, TakeOf
<1> QED BY <1>1, <1>3, <1>4 DEF Takeable

ColourRow(b) == b .. b + ColourLen - 1
ColourAt(b) ==   \* b may be where the colour goes
    /\ b \in Nat /\ ColourRow(b) \subseteq Temps
    /\ ColourRow(b) \cap (Held(temps) \cup Webs(temps)) = {}
    /\ temps.out >= 0 => b = temps.out
    /\ temps.used \cup ColourRow(b) = Held(temps) \cup Webs(temps) \cup ColourRow(b)

LEMMA ColourAtOf ==
    ASSUME Tidy(temps), NEW b, b = IF temps.out >= 0 THEN temps.out ELSE Take(temps.used, Pair).at,
           b # NoTemp
    PROVE  ColourAt(b)
<1>1. /\ temps.used = Held(temps) \cup Outs(temps) \cup Webs(temps) /\ temps.used \in SUBSET Temps
      /\ Held(temps) \cap Outs(temps) = {} /\ Webs(temps) \cap (Held(temps) \cup Outs(temps)) = {}
      /\ temps.out \in Int
  BY TempsFields DEF Tidy
<1>2. CASE temps.out >= 0
  <2>1. b = temps.out /\ b \in Nat BY <1>1, <1>2
  <2>2. ColourRow(b) = Outs(temps) BY <1>2, <2>1 DEF ColourRow, Outs
  <2> QED BY <1>1, <2>1, <2>2 DEF ColourAt
<1>3. CASE ~(temps.out >= 0)
  <2>1. b = Take(temps.used, Pair).at BY <1>3
  <2>2. b \in Nat /\ ColourRow(b) \subseteq Temps /\ ColourRow(b) \cap temps.used = {}
    BY <2>1, PairFree DEF ColourRow
  <2>3. Outs(temps) = {} BY <1>3 DEF Outs
  <2>4. ColourRow(b) \cap (Held(temps) \cup Webs(temps)) = {} BY <1>1, <2>2
  <2>5. temps.used \cup ColourRow(b) = Held(temps) \cup Webs(temps) \cup ColourRow(b)
    BY <1>1, <2>3
  <2> HIDE DEF ColourRow
  <2> QED BY <1>3, <2>2, <2>4, <2>5 DEF ColourAt
<1> QED BY <1>2, <1>3

(* A component of the colour that is written in its place leaves every      *)
(* other value where it is.                                                 *)
LEMMA ColourKept ==
    ASSUME ShaderInv, Phases, phase # "write", Tidy(temps), NEW i, Homed(temps, i),
           NEW b, ColourAt(b), NEW k \in 1 .. ColourLen, NEW x \in Wanted(i),
           temps.loc[x] = b + k - 1
    PROVE  x \in DOMAIN temps.loc /\ ColourId(x) = k /\ x = Colour[k] /\ temps.out >= 0
<1>1. ColourLen \in Nat /\ b \in Nat BY RegsAssumption DEF ColourAt
<1>2. temps.loc[x] \in ColourRow(b) BY <1>1 DEF ColourRow
<1>3. temps.loc[x] \notin Held(temps) /\ temps.loc[x] \notin Webs(temps) BY <1>2 DEF ColourAt
<1>4. x \in DOMAIN temps.loc /\ x # Web /\ Fixed(temps, x) BY <1>3, WantedHome
<1>5. /\ ColourId(x) # 0 /\ temps.out >= 0 /\ temps.loc[x] = temps.out + ColourId(x) - 1
  BY <1>4 DEF Fixed
<1>6. b = temps.out BY <1>5 DEF ColourAt
<1>7. ColourId(x) \in 1 .. ColourLen /\ Colour[ColourId(x)] = x BY <1>5, ColourOf
<1>8. b + ColourId(x) - 1 = b + k - 1 BY <1>5, <1>6
<1>9. ColourId(x) = k
  <2>1. PICK c : c = ColourId(x) OBVIOUS
  <2>2. c \in Int /\ k \in Int /\ b \in Int /\ b + c - 1 = b + k - 1 BY <1>1, <1>7, <1>8, <2>1
  <2> QED BY <2>1, <2>2
<1> QED BY <1>4, <1>5, <1>7, <1>9

LEMMA FMulColourStep ==
    ASSUME ShaderInv, Phases, Allocated, Coded, FMulColour
    PROVE  Allocated' /\ Coded'
<1>1. Translatable("fmul") /\ UNCHANGED <<shader, lastUse, step>> BY Started DEF FMulColour
<1>2. /\ ShaderInv /\ Phases /\ Tidy(temps) /\ Homed(temps, at) /\ phase = "translate"
      /\ at \in Prog /\ Op(at) = "fmul" /\ temps \in TempsOf
  BY <1>1 DEF Translatable, Tidy
<1>3. PICK v, k, b, i : v = Now.makes[1] /\ k = ColourId(v) /\ b = OutBase /\ i = at OBVIOUS
<1>4. PICK r : r = b + k - 1 OBVIOUS
<1> DEFINE reads == {Is(s) : s \in Range(Now.reads)}
           m1 == Move(reads, Only(r, v))
           m == <<m1>>
           l == Over(Only(v, r), temps.loc)
           t0 == [temps EXCEPT !.used = @ \cup ColourRow(b), !.loc = Over(Only(v, r), @), !.out = b]
           t == [used |-> temps.used \cup ColourRow(b), loc |-> l, owned |-> temps.owned, out |-> b]
<1>5. Emit(t0, {}, {}, <<>>, m) BY <1>3, <1>4 DEF FMulColour, ColourRow
<1>6. k # 0 /\ b >= 0 BY <1>3 DEF FMulColour
<1>7. b = (IF temps.out >= 0 THEN temps.out ELSE Take(temps.used, Pair).at) /\ b # NoTemp
  <2>1. PICK q : q = Take(temps.used, Pair).at OBVIOUS
  <2>2. b = IF temps.out # NoTemp THEN temps.out ELSE IF q = NoTemp THEN NoRoom ELSE q
    BY <1>3, <2>1 DEF OutBase
  <2>3. temps.out \in Nat \cup {NoTemp, NoRoom} BY <1>2, TempsFields
  <2>4. CASE temps.out \in Nat BY <2>1, <2>2, <2>4 DEF NoTemp
  <2>5. CASE temps.out = NoRoom BY <1>6, <2>2, <2>5 DEF NoTemp, NoRoom
  <2>6. CASE temps.out = NoTemp BY <1>6, <2>1, <2>2, <2>6 DEF NoTemp, NoRoom
  <2> QED BY <2>3, <2>4, <2>5, <2>6
<1>8. ColourAt(b) BY <1>2, <1>7, ColourAtOf
<1>9. k \in 1 .. ColourLen /\ Colour[k] = v /\ ColourLen \in Nat /\ b \in Nat
  BY <1>2, <1>3, <1>6, <1>8, ColourOf, RegsAssumption DEF ColourAt
<1>10. r \in ColourRow(b) BY <1>4, <1>9 DEF ColourRow
<1>11. r \in Temps BY <1>8, <1>10 DEF ColourAt
<1>12. MakesOf(at) = {v}
  <2>1. shader[at].makes \in [1 .. 1 -> Values] BY <1>2 DEF ShaderInv, InOrder, Makes
  <2> QED BY <2>1, <1>3 DEF MakesOf, Range, Now
<1>13. v \in Values /\ v # Web /\ v \notin DOMAIN temps.loc
  BY <1>2, <1>12, MadeIn, FreshMakes
<1>14. t0 = t
  <2>1. temps = [used |-> temps.used, loc |-> temps.loc, owned |-> temps.owned, out |-> temps.out]
    BY <1>2, TempsFields
  <2> DEFINE u == temps.used \cup ColourRow(b)
  <2>2. t0 = [temps EXCEPT !.used = u, !.loc = l, !.out = b] OBVIOUS
  <2> HIDE DEF l, u, t0
  <2>3. t0 = [used |-> u, loc |-> l, owned |-> temps.owned, out |-> b] BY <2>1, <2>2
  <2> QED BY <2>3 DEF u
<1>15. Emit(t, {}, {}, <<>>, m) BY <1>5, <1>14
<1>16. /\ DOMAIN l = DOMAIN temps.loc \cup {v} /\ l[v] = r
       /\ \A x \in DOMAIN temps.loc : l[x] = temps.loc[x]
  <2>1. PICK o, f : o = Only(v, r) /\ f = temps.loc OBVIOUS
  <2>2. DOMAIN o = {v} /\ o[v] = r BY <2>1, OnlyOf
  <2>3. l = Over(o, f) BY <2>1
  <2>4. /\ DOMAIN l = DOMAIN o \cup DOMAIN f
        /\ \A x \in DOMAIN o : l[x] = o[x]
        /\ \A x \in DOMAIN f \ DOMAIN o : l[x] = f[x]
    BY <2>3 DEF Over
  <2> HIDE DEF l
  <2> QED BY <2>1, <2>2, <2>4, <1>13
<1>17. l \in Locs
  <2>1. PICK o, f : o = Only(v, r) /\ f = temps.loc OBVIOUS
  <2>2. DOMAIN o = {v} /\ o[v] = r BY <2>1, OnlyOf
  <2>3. f \in Locs BY <2>1, <1>2, TempsFields
  <2> QED BY <2>1, <2>2, <2>3, <1>11, <1>13, OverLocs
<1>18. m1.reads = reads /\ DOMAIN m1.writes = {r} /\ m1.writes[r] = v BY OnlyOf DEF Move
<1> HIDE DEF l, m1, t0
<1>19. Tidy(t)
  <2>1. t.used = temps.used \cup ColourRow(b) /\ t.loc = l /\ t.owned = temps.owned /\ t.out = b
    OBVIOUS
  <2>2. t \in TempsOf
    <3>1. temps.used \cup ColourRow(b) \in SUBSET Temps /\ temps.owned \in SUBSET Values
      BY <1>2, <1>8, TempsFields DEF ColourAt
    <3> HIDE DEF ColourRow
    <3> QED BY <3>1, <1>9, <1>17 DEF TempsOf
  <2> HIDE DEF t
  <2>3. /\ temps.owned \subseteq DOMAIN temps.loc
        /\ \A x, w \in temps.owned : temps.loc[x] = temps.loc[w] => x = w
        /\ Webs(temps) \cap Held(temps) = {}
    BY <1>2 DEF Tidy
  <2>4. Held(t) = Held(temps) BY <2>1, <2>3, <1>16 DEF Held
  <2>5. Outs(t) = ColourRow(b) BY <2>1, <1>6 DEF Outs, ColourRow
  <2>6. Webs(t) = Webs(temps)
    <3>1. Web \in DOMAIN l <=> Web \in DOMAIN temps.loc BY <1>13, <1>16
    <3> QED BY <3>1, <2>1, <1>16 DEF Webs
  <2>7. t.used = Held(t) \cup Outs(t) \cup Webs(t)
    BY <2>1, <2>4, <2>5, <2>6, <1>8 DEF ColourAt
  <2>8. Held(t) \cap Outs(t) = {} /\ Webs(t) \cap (Held(t) \cup Outs(t)) = {}
    BY <2>3, <2>4, <2>5, <2>6, <1>8 DEF ColourAt
  <2>9. \A x, w \in t.owned : t.loc[x] = t.loc[w] => x = w BY <2>1, <2>3, <1>16
  <2>10. t.owned \subseteq DOMAIN t.loc BY <2>1, <2>3, <1>16
  <2> QED BY <2>2, <2>7, <2>8, <2>9, <2>10 DEF Tidy
<1>20. Agrees(temps.loc, l) BY <1>16 DEF Agrees
<1>21. Widens(t, <<>>)
  <2>1. t.loc = l /\ t.owned = temps.owned /\ t.out = b OBVIOUS
  <2> HIDE DEF t
  <2>2. temps.out >= 0 => t.out = temps.out BY <2>1, <1>8 DEF ColourAt
  <2>3. Web \in DOMAIN t.loc <=> Op(1) = "decl"
    <3>1. Web \in DOMAIN temps.loc <=> Op(1) = "decl" BY <1>1, Plainly
    <3> QED BY <3>1, <2>1, <1>13, <1>16
  <2>4. Fixed(t, v) BY <2>1, <1>3, <1>4, <1>6, <1>16 DEF Fixed
  <2> QED BY <2>1, <2>2, <2>3, <2>4, <1>12, <1>16, <1>20 DEF Widens
<1>22. CodeOK(l, i, m)
  <2>1. Lined(m, Len(m)) /\ Len(m) = 1 /\ DOMAIN m = {1} /\ m[1] = m1 BY ListsOf
  <2>2. ASSUME NEW x \in Wanted(i) PROVE x \in DOMAIN temps.loc /\ temps.loc[x] # r
    <3>1. x \in DOMAIN temps.loc BY <1>2, <1>3, WantedHome
    <3>2. temps.loc[x] = r => x = v BY <1>2, <1>3, <1>4, <1>8, <1>9, ColourKept
    <3> QED BY <3>1, <3>2, <1>13
  <2>3. Keeps(temps.loc, i, m) BY <2>1, <2>2, <1>18 DEF Keeps
  <2>4. Finds(temps.loc, i, m)
    <3>1. PICK f : f = temps.loc OBVIOUS
    <3>2. \A read \in m1.reads : Ready(f, i, read)
      <4>1. \A s \in Range(Now.reads) : s \in Wanted(i) /\ Is(s) = <<f[s], s>>
        BY <3>1, <1>1, <1>3, ReadWanted DEF Is, Loc
      <4> QED BY <4>1, <1>18 DEF Ready
    <3>3. Finds(f, i, m) BY <3>2, OneFinds
    <3> QED BY <3>1, <3>3
  <2>5. PICK f, g : f = temps.loc /\ g = l OBVIOUS
  <2>6. Keeps(g, i, m) /\ Finds(g, i, m) BY <2>3, <2>4, <2>5, <1>20, CodeLifts
  <2>7. Gains(i) \subseteq {v} BY <1>2, <1>3, <1>12 DEF Gains
  <2>8. Gives(g, i, m) BY <2>1, <2>5, <2>7, <1>16, <1>18 DEF Gives
  <2> HIDE DEF m
  <2> QED BY <2>1, <2>5, <2>6, <2>8 DEF CodeOK
<1> HIDE DEF m
<1>23. PICK t1, n : t1 = t /\ n = m OBVIOUS
<1>24. t1.loc = l BY <1>23
<1>25. /\ Tidy(t1) /\ Widens(t1, <<>>) /\ CodeOK(t1.loc, at, n) /\ Emit(t1, {}, {}, <<>>, n)
  <2> HIDE DEF t
  <2> QED BY <1>3, <1>15, <1>19, <1>21, <1>22, <1>23, <1>24
<1> QED BY <1>1, <1>25, NothingTaken

-----------------------------------------------------------------------------
(* The run: what the next instruction wants is where the allocation says,   *)
(* and what the moves made since its start have left is there.              *)
Holds(r, x) == r \in DOMAIN regs /\ regs[r] = x
Kept == \A x \in Wanted(at) : Holds(temps.loc[x], x)
Ran == \A j \in 1 .. step - 1 : \A r \in DOMAIN code[at][j].writes :
           LastWrite(code[at], j, step, r) => Holds(r, code[at][j].writes[r])

Running == phase = "run" =>
    /\ at \in 1 .. Len(shader) + 1 /\ step \in 1 .. Len(code[at]) + 1
    /\ Lined(code, Len(shader) + 1)
    /\ \A i \in 1 .. Len(shader) + 1 : CodeOK(temps.loc, i, code[i])
    /\ Kept /\ Ran

LEMMA SameWanted ==
    ASSUME UNCHANGED <<shader, lastUse>>, NEW i
    PROVE  Wanted(i)' = Wanted(i)
<1>1. \A v, j : Live(v, j)' = Live(v, j) BY DEF Live, Colour
<1> QED BY <1>1 DEF Wanted, Known, Op, Prog, Colour

LEMMA OutputStep ==
    ASSUME ShaderInv, Phases, Allocated, Coded, Output
    PROVE  Allocated' /\ Coded' /\ (~UboOffsets => Running')
<1>1. /\ phase = "translate" /\ at > Len(shader) /\ phase' # "translate"
      /\ Tidy(temps) /\ Homed(temps, at) /\ UNCHANGED <<shader, lastUse, temps, step>>
  BY DEF Output, Allocated, writeVars
<1>2. Allocated' /\ Coded' BY <1>1 DEF Allocated, Coded
<1> SUFFICES ASSUME ~UboOffsets, phase' = "run"
             PROVE  /\ at' \in 1 .. Len(shader') + 1 /\ step' \in 1 .. Len(code'[at']) + 1
                    /\ Lined(code', Len(shader') + 1)
                    /\ \A i \in 1 .. Len(shader') + 1 : CodeOK(temps.loc, i, code[i])'
                    /\ Kept' /\ Ran'
  BY <1>2 DEF Running, Lined
<1>3. Prog = 1 .. Len(shader) /\ Len(shader) \in Nat BY ProgOf
<1>4. PICK N : N = Len(shader) + 1 OBVIOUS
<1>5. at = N
  <2>1. at \in 1 .. Len(shader) + 1 BY <1>1 DEF Homed
  <2> QED BY <2>1, <1>1, <1>3, <1>4
<1>6. PICK b : b = IF temps.out >= 0 THEN temps.out ELSE Take(temps.used, Pair).at OBVIOUS
<1>7. PICK l : l = temps.loc OBVIOUS
<1> DEFINE InPlace(i) == ColourId(Colour[i]) = i /\ Loc(Colour[i]) = b + i - 1
           f == [i \in DOMAIN Colour |->
                    IF InPlace(i) THEN Move({}, <<>>)
                    ELSE Move({Is(Colour[i])}, Only(b + i - 1, Colour[i]))]
           e == Move({<<b + i - 1, Colour[i]>> : i \in DOMAIN Colour}, <<>>)
<1>8. b # NoTemp /\ at' = 1 /\ code' = Append(code, Append(f, e)) BY <1>6 DEF Output
<1>9. ColourAt(b) BY <1>1, <1>6, <1>8, ColourAtOf
<1>10. /\ DOMAIN Colour = 1 .. ColourLen /\ Colour \in [1 .. ColourLen -> Values]
       /\ ColourLen \in Nat /\ b \in Nat
  BY <1>1, <1>9, ColourOf, RegsAssumption DEF ColourAt
<1>11. PICK c, n : c = Colour /\ n = ColourLen OBVIOUS
<1>12. Lined(f, n) BY <1>10, <1>11 DEF Lined
<1>13. \A i \in 1 .. n : /\ InPlace(i) => f[i].reads = {} /\ DOMAIN f[i].writes = {}
                         /\ ~InPlace(i) => /\ f[i].reads = {<<l[c[i]], c[i]>>}
                                           /\ DOMAIN f[i].writes = {b + i - 1}
                                           /\ f[i].writes[b + i - 1] = c[i]
  <2> SUFFICES ASSUME NEW i \in 1 .. n
               PROVE  /\ InPlace(i) => f[i].reads = {} /\ DOMAIN f[i].writes = {}
                      /\ ~InPlace(i) => /\ f[i].reads = {<<l[c[i]], c[i]>>}
                                        /\ DOMAIN f[i].writes = {b + i - 1}
                                        /\ f[i].writes[b + i - 1] = c[i]
    OBVIOUS
  <2>1. f[i] = IF InPlace(i) THEN Move({}, <<>>)
               ELSE Move({Is(Colour[i])}, Only(b + i - 1, Colour[i]))
    BY <1>10, <1>11
  <2>2. CASE InPlace(i)
    <3>1. f[i] = Move({}, <<>>) BY <2>1, <2>2
    <3> HIDE DEF f, InPlace
    <3> QED BY <2>2, <3>1, ListsOf DEF Move
  <2>3. CASE ~InPlace(i)
    <3>1. f[i] = Move({Is(c[i])}, Only(b + i - 1, c[i])) BY <2>1, <2>3, <1>11
    <3>2. Is(c[i]) = <<l[c[i]], c[i]>> BY <1>7 DEF Is, Loc
    <3>3. PICK q, m : q = b + i - 1 /\ m = f[i] OBVIOUS
    <3>4. m = Move({<<l[c[i]], c[i]>>}, Only(q, c[i])) BY <3>1, <3>2, <3>3
    <3>5. /\ m.reads = {<<l[c[i]], c[i]>>} /\ DOMAIN m.writes = {q} /\ m.writes[q] = c[i]
      <4>1. m.reads = {<<l[c[i]], c[i]>>} /\ m.writes = Only(q, c[i]) BY <3>4 DEF Move
      <4> QED BY <4>1 DEF Only
    <3> HIDE DEF f, InPlace
    <3> QED BY <2>3, <3>3, <3>5
  <2> QED BY <2>2, <2>3
<1>14. e.reads = {<<b + i - 1, c[i]>> : i \in 1 .. n} /\ DOMAIN e.writes = {}
  BY <1>10, <1>11, ListsOf DEF Move
<1>15. \A i \in 1 .. n : InPlace(i) <=> ColourId(c[i]) = i /\ l[c[i]] = b + i - 1
  BY <1>7, <1>11 DEF Loc
<1> HIDE DEF f, e, InPlace
<1>16. PICK M : M = Append(f, e) OBVIOUS
<1>17. /\ Lined(M, n + 1) /\ Len(M) = n + 1 /\ M[n + 1] = e
       /\ \A i \in 1 .. n : M[i] = f[i]
  BY <1>12, <1>16, LinedOf
<1>18. DOMAIN M = 1 .. n + 1 /\ n \in Nat BY <1>10, <1>11, <1>17, LinedOf
<1>19. ASSUME NEW x \in Wanted(N), NEW k \in DOMAIN M
       PROVE  x \in DOMAIN l /\ l[x] \notin DOMAIN M[k].writes
  <2>1. x \in DOMAIN l BY <1>1, <1>5, <1>7, WantedHome
  <2>2. CASE k = n + 1 BY <2>1, <2>2, <1>14, <1>17
  <2>3. CASE k \in 1 .. n
    <3>1. SUFFICES ASSUME l[x] \in DOMAIN M[k].writes PROVE FALSE BY <2>1
    <3>2. ~InPlace(k) /\ l[x] = b + k - 1 BY <3>1, <2>3, <1>13, <1>17
    <3>3. ColourId(x) = k /\ x = c[k] BY <3>2, <2>3, <1>1, <1>5, <1>7, <1>9, <1>11, ColourKept
    <3> QED BY <3>2, <3>3, <2>3, <1>15
  <2> QED BY <2>2, <2>3, <1>18
<1>20. Keeps(l, N, M)
  <2>1. n + 1 \in DOMAIN M BY <1>18
  <2> QED BY <2>1, <1>19 DEF Keeps
<1>21. \A i \in 1 .. n : c[i] \in Wanted(N)
  <2>1. N \notin Prog /\ N > Len(shader) BY <1>3, <1>4
  <2>2. \A i \in 1 .. n : c[i] \in Range(Colour) BY <1>10, <1>11 DEF Range
  <2> QED BY <2>1, <2>2 DEF Wanted, Known, Live
<1>22. \A i \in 1 .. n, k \in DOMAIN M : Unwritten(M, k, l[c[i]])
  BY <1>18, <1>19, <1>21 DEF Unwritten
<1>23. Finds(l, N, M)
  <2> SUFFICES ASSUME NEW k \in DOMAIN M, NEW read \in M[k].reads
               PROVE  SoundRead(l, N, M, k, read[1], read[2])
    BY DEF Finds
  <2>1. CASE k \in 1 .. n
    <3>1. read = <<l[c[k]], c[k]>> BY <2>1, <1>13, <1>17
    <3> QED BY <3>1, <2>1, <1>21, <1>22 DEF SoundRead
  <2>2. CASE k = n + 1
    <3>1. PICK i \in 1 .. n : read = <<b + i - 1, c[i]>> BY <2>2, <1>14, <1>17
    <3>2. CASE InPlace(i)
      <4>1. read[1] = l[c[i]] /\ read[2] = c[i] BY <3>1, <3>2, <1>15
      <4> QED BY <4>1, <1>21, <1>22 DEF SoundRead
    <3>3. CASE ~InPlace(i)
      <4>1. \A m \in i + 1 .. k - 1 : b + i - 1 \notin DOMAIN M[m].writes
        <5> SUFFICES ASSUME NEW m \in i + 1 .. k - 1 PROVE b + i - 1 \notin DOMAIN M[m].writes
          OBVIOUS
        <5>1. m \in 1 .. n /\ m # i BY <2>2, <1>18
        <5>2. DOMAIN M[m].writes \subseteq {b + m - 1} BY <5>1, <1>13, <1>17
        <5>3. b + m - 1 # b + i - 1 BY <5>1, <1>10
        <5> QED BY <5>2, <5>3
      <4>2. b + i - 1 \in DOMAIN M[i].writes /\ M[i].writes[b + i - 1] = c[i]
        BY <3>3, <1>13, <1>17
      <4>3. i \in 1 .. k - 1 BY <2>2, <1>18
      <4>4. read[1] = b + i - 1 /\ read[2] = c[i] BY <3>1
      <4> QED BY <4>1, <4>2, <4>3, <4>4 DEF SoundRead, LastWrite
    <3> QED BY <3>2, <3>3
  <2> QED BY <2>1, <2>2, <1>18
<1>24. CodeOK(l, N, M)
  <2>1. N \notin Prog BY <1>3, <1>4
  <2> QED BY <2>1, <1>17, <1>20, <1>23 DEF CodeOK, Gives
<1>25. /\ Lined(code, N - 1) /\ step = 1
       /\ \A i \in 1 .. N - 1 : CodeOK(temps.loc, i, code[i])
  BY <1>1, <1>5 DEF Coded
<1>26. PICK C : C = Append(code, M) OBVIOUS
<1>27. /\ Lined(C, N) /\ C[N] = M /\ \A i \in 1 .. N - 1 : C[i] = code[i]
  <2>1. N - 1 + 1 = N BY <1>3, <1>4
  <2> QED BY <2>1, <1>25, <1>26, LinedOf
<1>28. code' = C /\ temps'.loc = l /\ Len(shader') + 1 = N /\ step' = 1 /\ at' = 1
  BY <1>1, <1>4, <1>7, <1>8, <1>16, <1>25, <1>26
<1>29. ASSUME NEW i \in 1 .. N PROVE CodeOK(l, i, C[i])
  <2>1. i = N \/ i \in 1 .. N - 1 BY <1>3, <1>4
  <2> QED BY <2>1, <1>7, <1>24, <1>25, <1>27
<1>30. ASSUME NEW i \in 1 .. N PROVE CodeOK(temps.loc, i, code[i])'
  <2>1. PICK m : m = C[i] OBVIOUS
  <2>2. CodeOK(l, i, m)' BY <2>1, <1>1, <1>29, SameCode
  <2> QED BY <2>1, <2>2, <1>28
<1>31. 1 \in 1 .. N /\ N \in Nat BY <1>3, <1>4
<1>32. step' \in 1 .. Len(code'[at']) + 1
  <2>1. Len(C[1]) \in Nat BY <1>29, <1>31 DEF CodeOK, Lined
  <2>2. code'[at'] = C[1] /\ step' = 1 BY <1>28
  <2> QED BY <2>1, <2>2
<1>33. Kept'
  <2>1. Wanted(1) = {}
    <3>1. 1 \in Prog BY <1>1, <1>3, ColourOf
    <3>2. \A v \in shader[1].sees : \E j \in 1 .. 1 - 1 : v \in MakesOf(j)
      BY <3>1 DEF ShaderInv, SeenMade
    <3>3. shader[1].sees = {} BY <3>2
    <3> QED BY <3>1, <3>3 DEF Wanted, Known
  <2>2. PICK i : i = 1 OBVIOUS
  <2>3. Wanted(i)' = {} BY <2>1, <2>2, <1>1, SameWanted
  <2> QED BY <2>2, <2>3, <1>28 DEF Kept
<1>34. Ran'
  <2>1. 1 .. step' - 1 = {} BY <1>28
  <2> QED BY <2>1 DEF Ran
<1> QED BY <1>27, <1>28, <1>30, <1>31, <1>32, <1>33, <1>34 DEF Lined

(* Whatever runs next wants only what was wanted or has just been made: the*)
(* flow of what is seen along each branch, and the last uses around a loop.*)
LEMMA FollowWanted ==
    ASSUME ShaderInv, Phases, phase # "write", NEW i \in Prog, NEW j \in Follow(i)
    PROVE  j \in 1 .. Len(shader) + 1 /\ Wanted(j) \subseteq Wanted(i) \cup Gains(i)
<1>1. /\ Prog = 1 .. Len(shader) /\ Len(shader) \in Nat /\ open = <<>>
      /\ Op(Len(shader)) = "out" /\ i \in Nat /\ i > 0
  <2>1. Prog = 1 .. Len(shader) /\ Len(shader) \in Nat BY ProgOf
  <2>2. open = <<>> /\ Op(Len(shader)) = "out" BY DEF Phases
  <2> QED BY <2>1, <2>2
<1>2. DOMAIN open = {} BY <1>1
<1>3. ASSUME NEW k \in 1 .. Len(shader) + 1, NEW x \in Wanted(k), x # Web, NEW h \in Prog,
             h <= k \/ h <= lastUse[x]
      PROVE  Live(x, h) /\ lastUse[x] # 0
  <2>1. Live(x, k) /\ lastUse[x] \in 0 .. Len(shader) BY <1>3, WantedOf
  <2>2. k > Len(shader) => x \in Known(k) /\ k \notin Prog BY <1>1, <1>3 DEF Wanted
  <2>3. k > Len(shader) => lastUse[x] = Len(shader) BY <2>2, ColourOf DEF Known
  <2>4. lastUse[x] >= k \/ (k = Len(shader) + 1 /\ lastUse[x] = Len(shader))
    BY <2>1, <2>3, <1>1, <1>3 DEF Live
  <2>5. lastUse[x] >= h BY <2>1, <2>4, <1>1, <1>3
  <2> QED BY <2>1, <2>5, <1>1, <1>3 DEF Live
<1>4. ASSUME NEW k \in 1 .. Len(shader) + 1, k > i \/ i > 1,
             \A x \in Wanted(k) : x # Web =>
                 /\ x \in shader[i].sees \cup MakesOf(i)
                 /\ i <= k \/ i <= lastUse[x]
      PROVE  Wanted(k) \subseteq Wanted(i) \cup Gains(i)
  <2> SUFFICES ASSUME NEW x \in Wanted(k) PROVE x \in Wanted(i) \cup Gains(i) OBVIOUS
  <2>1. CASE x = Web
    <3>1. Web \notin Known(k)
      <4>1. \A v \in Values : v # Web BY RegsAssumption DEF Values, Web
      <4>2. Range(Colour) \subseteq Values BY ColourOf, ProgOf
      <4>3. Known(k) \subseteq Values BY <4>2, ProgOf DEF Known
      <4> QED BY <4>1, <4>3
    <3>2. Op(1) = "decl" BY <2>1, <3>1 DEF Wanted
    <3>3. CASE i = 1 BY <2>1, <3>2, <3>3 DEF Gains
    <3>4. CASE i # 1
      <4>1. i > 1 BY <1>1, <3>4
      <4> QED BY <2>1, <3>2, <4>1 DEF Wanted
    <3> QED BY <3>3, <3>4
  <2>2. CASE x # Web
    <3>1. x \in shader[i].sees \cup MakesOf(i) BY <1>4, <2>2
    <3>2. Live(x, i) /\ lastUse[x] # 0 BY <1>3, <1>4, <2>2
    <3> QED BY <3>1, <3>2 DEF Wanted, Known, Gains
  <2> QED BY <2>1, <2>2
<1>5. \A k \in Prog : Sees(k) = Known(k) /\ Wanted(k) \subseteq Known(k) \cup {Web}
  BY DEF Sees, Known, Wanted
<1>6. ASSUME i # Len(shader) PROVE i + 1 \in Prog /\ i + 1 \in 1 .. Len(shader) + 1
  BY <1>1, <1>6
<1>7. ASSUME Op(i) \notin {"else", "again", "break"}, j = i + 1
      PROVE  j \in 1 .. Len(shader) + 1 /\ Wanted(j) \subseteq Wanted(i) \cup Gains(i)
  <2>1. j \in 1 .. Len(shader) + 1 /\ j > i BY <1>1, <1>7
  <2>2. \A x \in Wanted(j) : x # Web => x \in shader[i].sees \cup MakesOf(i)
    <3>1. CASE i = Len(shader)
      <4>1. j \notin Prog BY <1>1, <1>7, <3>1
      <4>2. Range(Colour) \subseteq shader[i].sees BY <3>1, ColourOf
      <4> QED BY <4>1, <4>2 DEF Wanted, Known
    <3>2. CASE i # Len(shader)
      <4>1. Sees(i + 1) \subseteq shader[i].sees \cup MakesOf(i)
        BY <1>7 DEF ShaderInv, Flows, FlowsOn
      <4> QED BY <4>1, <3>2, <1>5, <1>6, <1>7
    <3> QED BY <3>1, <3>2
  <2> QED BY <2>1, <2>2, <1>1, <1>4
<1>8. CASE Op(i) \notin {"if", "else", "again", "break"}
  <2>1. j = i + 1 BY <1>8 DEF Follow, Op
  <2> QED BY <2>1, <1>7, <1>8
<1>9. CASE Op(i) = "if"
  <2> DEFINE S == MarksOf(i)
  <2>1. j \in {i + 1, Min(S) + 1} BY <1>9 DEF Follow, Op, MarksOf, Prog
  <2>2. PICK e \in Prog : ClosedBy(i, e) BY <1>2, <1>9 DEF ShaderInv, Closing
  <2>3. S \in SUBSET Nat /\ e \in S BY <2>2, <1>1 DEF ClosedBy, MarksOf
  <2>4. PICK m : m = Min(S) OBVIOUS
  <2>5. m \in S BY <2>3, <2>4, MinOf
  <2>6. m \in Prog /\ shader[m].of = i /\ Op(m) \in {"else", "end"}
    BY <2>2, <2>5, <1>9 DEF ClosedBy, MarksOf
  <2>7. i < m /\ m # Len(shader) BY <2>6, <1>1 DEF ShaderInv, Paired
  <2>8. m + 1 \in Prog BY <2>6, <2>7, <1>1
  <2>9. Sees(m + 1) \subseteq shader[i].sees BY <2>6 DEF ShaderInv, Flows, FlowsOff
  <2>10. CASE j = i + 1 BY <2>10, <1>7, <1>9
  <2>11. CASE j = m + 1
    <3>1. j \in 1 .. Len(shader) + 1 /\ j > i /\ j \in Prog BY <2>6, <2>7, <2>8, <2>11, <1>1
    <3>2. \A x \in Wanted(j) : x # Web => x \in shader[i].sees BY <2>9, <2>11, <3>1, <1>5
    <3> QED BY <3>1, <3>2, <1>1, <1>4
  <2> QED BY <2>1, <2>4, <2>10, <2>11
<1>10. CASE Op(i) = "else"
  <2> DEFINE l == shader[i].of
             S == MarksOf(l)
  <2>1. j = Max(S) BY <1>10 DEF Follow, Op, MarksOf, Prog
  <2>2. l # 0 /\ l < i /\ Op(l) = "if" BY <1>10 DEF ShaderInv, Paired, Marks
  <2>3. l \in Prog BY <2>2, <1>1, ProgOf
  <2>4. PICK e \in Prog : ClosedBy(l, e) BY <1>2, <2>2, <2>3 DEF ShaderInv, Closing
  <2>5. e \in S /\ i \in S BY <2>4 DEF ClosedBy, MarksOf
  <2>6. S \in SUBSET (0 .. Len(shader)) BY <1>1 DEF MarksOf
  <2>7. j \in S /\ i <= j BY <2>1, <2>5, <2>6, <1>1, MaxOf
  <2>8. j \in Prog /\ shader[j].of = l /\ Op(j) \in {"else", "end"}
    BY <2>2, <2>4, <2>7 DEF ClosedBy, MarksOf
  <2>9. shader[j].sees = shader[l].sees /\ shader[i].sees = shader[l].sees
    BY <2>3, <2>8, <1>10 DEF ShaderInv, Flows, FlowsOff
  <2>10. i > 1 BY <2>2, <2>3, <1>1
  <2>11. \A x \in Wanted(j) : x # Web => x \in shader[i].sees
    BY <2>8, <2>9 DEF Wanted, Known
  <2>12. j \in 1 .. Len(shader) + 1 BY <2>8, <1>1
  <2> QED BY <2>7, <2>10, <2>11, <2>12, <1>4
<1>11. CASE Op(i) = "again"
  <2>1. j = shader[i].of BY <1>11 DEF Follow, Op
  <2>2. j \in Prog /\ Op(j) = "loop" /\ j < i
    BY <2>1, <1>1, <1>11, EndOf DEF ShaderInv, Paired
  <2>3. shader[j].sees \subseteq shader[i].sees BY <2>1, <2>2, <1>11 DEF ShaderInv, Flows, FlowsOff
  <2>4. \A x \in shader[j].sees : j <= lastUse[x] => i <= lastUse[x]
    BY <2>1, <1>11, LastUsesHold DEF LastUses
  <2>5. \A x \in Wanted(j) : x # Web => x \in shader[i].sees /\ i <= lastUse[x]
    <3> SUFFICES ASSUME NEW x \in Wanted(j), x # Web PROVE x \in shader[i].sees /\ i <= lastUse[x]
      OBVIOUS
    <3>1. x \in shader[j].sees BY <2>2 DEF Wanted, Known
    <3>2. Live(x, j) /\ lastUse[x] \in 0 .. Len(shader)
      <4>1. j \in 1 .. Len(shader) + 1 BY <2>2, <1>1
      <4> QED BY <4>1, WantedOf
    <3>3. j <= lastUse[x] BY <3>2, <2>2, <1>1 DEF Live
    <3> QED BY <3>1, <3>3, <2>3, <2>4
  <2>6. i > 1 /\ j \in 1 .. Len(shader) + 1 BY <2>2, <1>1
  <2> QED BY <2>5, <2>6, <1>4
<1>12. CASE Op(i) = "break"
  <2> DEFINE l == shader[i].of
  <2>1. j = End(l) + 1 BY <1>12 DEF Follow, Op
  <2>2. l # 0 /\ l < i /\ Op(l) = "loop" BY <1>12 DEF ShaderInv, Paired, Marks
  <2>3. l \in Prog BY <2>2, <1>1, ProgOf
  <2>4. PICK e \in Prog : ClosedBy(l, e) BY <1>2, <2>2, <2>3 DEF ShaderInv, Closing
  <2>5. e \in MarksOf(l) /\ Op(e) = "again" /\ i \in MarksOf(l) /\ i # e
    BY <2>2, <2>4, <1>12 DEF ClosedBy, MarksOf
  <2>6. i < e BY <2>4, <2>5 DEF ClosedBy
  <2>7. End(l) = e BY <2>5, <1>1, EndOf DEF MarksOf
  <2>8. e # Len(shader) BY <2>5, <1>1
  <2>9. j \in Prog /\ j > i /\ j \in 1 .. Len(shader) + 1 BY <2>1, <2>6, <2>7, <2>8, <1>1
  <2>10. shader[e].of = l BY <2>5 DEF MarksOf
  <2>11. Sees(e + 1) \subseteq shader[i].sees
    BY <2>3, <2>5, <2>10 DEF ShaderInv, Flows, FlowsOff
  <2>12. \A x \in Wanted(j) : x # Web => x \in shader[i].sees
    BY <2>1, <2>7, <2>9, <2>11, <1>5
  <2> QED BY <2>9, <2>12, <1>1, <1>4
<1> QED BY <1>8, <1>9, <1>10, <1>11, <1>12

LEMMA RunMoveStep ==
    ASSUME ShaderInv, Phases, Running, RunMove
    PROVE  Running'
<1>1. /\ phase = "run" /\ phase' = "run" /\ step \in 1 .. Len(code[at]) + 1 /\ step <= Len(code[at])
      /\ UNCHANGED <<shader, lastUse, temps, code, at>> /\ step' = step + 1
      /\ regs' = Over(code[at][step].writes, regs)
      /\ at \in 1 .. Len(shader) + 1 /\ Lined(code, Len(shader) + 1)
      /\ \A i \in 1 .. Len(shader) + 1 : CodeOK(temps.loc, i, code[i])
      /\ Kept /\ Ran
  BY DEF RunMove, Running, writeVars, codeVars
<1>2. PICK M, s, a, l, w :
          M = code[at] /\ s = step /\ a = at /\ l = temps.loc /\ w = M[s].writes
  OBVIOUS
<1>3. CodeOK(l, a, M) BY <1>1, <1>2
<1>4. Lined(M, Len(M)) /\ Keeps(l, a, M) BY <1>3 DEF CodeOK
<1>5. Len(M) \in Nat /\ DOMAIN M = 1 .. Len(M) BY <1>4, LinedOf
<1>6. s \in DOMAIN M /\ s \in Nat /\ s + 1 \in 1 .. Len(M) + 1 BY <1>1, <1>2, <1>5
<1>7. \A r : /\ r \in DOMAIN w => r \in DOMAIN regs' /\ regs'[r] = w[r]
             /\ r \in DOMAIN regs /\ r \notin DOMAIN w => r \in DOMAIN regs' /\ regs'[r] = regs[r]
  <2>1. PICK g : g = regs OBVIOUS
  <2>2. regs' = Over(w, g) BY <1>1, <1>2, <2>1
  <2> QED BY <2>1, <2>2 DEF Over
<1>8. \A x \in Wanted(a) : l[x] \in DOMAIN regs' /\ regs'[l[x]] = x
  <2> SUFFICES ASSUME NEW x \in Wanted(a) PROVE l[x] \in DOMAIN regs' /\ regs'[l[x]] = x OBVIOUS
  <2>1. l[x] \in DOMAIN regs /\ regs[l[x]] = x BY <1>1, <1>2 DEF Kept, Holds
  <2>2. l[x] \in DOMAIN w => w[l[x]] = x BY <1>2, <1>4, <1>6 DEF Keeps
  <2> QED BY <2>1, <2>2, <1>7
<1>9. Kept'
  <2>1. Wanted(a)' = Wanted(a) BY <1>1, SameWanted
  <2> QED BY <2>1, <1>1, <1>2, <1>8 DEF Kept, Holds
<1>10. ASSUME NEW j \in 1 .. s, NEW r \in DOMAIN M[j].writes, LastWrite(M, j, s + 1, r)
       PROVE  r \in DOMAIN regs' /\ regs'[r] = M[j].writes[r]
  <2>1. CASE j = s BY <2>1, <1>2, <1>7, <1>10
  <2>2. CASE j \in 1 .. s - 1
    <3>1. s \in j + 1 .. s + 1 - 1 /\ \A m \in j + 1 .. s - 1 : m \in j + 1 .. s + 1 - 1
      BY <2>2, <1>6
    <3>2. r \notin DOMAIN w /\ LastWrite(M, j, s, r) BY <3>1, <1>2, <1>10 DEF LastWrite
    <3>3. r \in DOMAIN regs /\ regs[r] = M[j].writes[r]
      BY <3>2, <2>2, <1>1, <1>2, <1>10 DEF Ran, Holds
    <3> QED BY <3>2, <3>3, <1>7
  <2> QED BY <2>1, <2>2, <1>6
<1>11. code'[at'] = M /\ step' = s + 1 /\ s + 1 - 1 = s BY <1>1, <1>2, <1>6
<1>12. Ran'
  <2>1. \A j, r : LastWrite(code[at], j, step, r)' <=> LastWrite(M, j, s + 1, r)
    BY <1>11 DEF LastWrite
  <2>2. ASSUME NEW j \in 1 .. step' - 1, NEW r \in DOMAIN code'[at'][j].writes,
               LastWrite(code[at], j, step, r)'
        PROVE  Holds(r, code[at][j].writes[r])'
    <3>1. j \in 1 .. s BY <1>6, <1>11
    <3>2. r \in DOMAIN M[j].writes BY <1>11
    <3>3. LastWrite(M, j, s + 1, r) BY <2>1, <2>2
    <3>4. r \in DOMAIN regs' /\ regs'[r] = M[j].writes[r] BY <3>1, <3>2, <3>3, <1>10
    <3> QED BY <3>4, <1>11 DEF Holds
  <2> QED BY <2>2 DEF Ran
<1>13. \A i \in 1 .. Len(shader) + 1 : CodeOK(temps.loc, i, code[i])'
  <2> SUFFICES ASSUME NEW i \in 1 .. Len(shader) + 1 PROVE CodeOK(temps.loc, i, code[i])' OBVIOUS
  <2>1. PICK m : m = code[i] OBVIOUS
  <2>2. CodeOK(l, i, m)' BY <2>1, <1>1, <1>2, SameCode
  <2> QED BY <2>1, <2>2, <1>1, <1>2
<1>14. step' \in 1 .. Len(code'[at']) + 1 BY <1>6, <1>11
<1> QED BY <1>1, <1>9, <1>12, <1>13, <1>14 DEF Running, Lined

LEMMA RunOnStep ==
    ASSUME ShaderInv, Phases, Running, RunOn
    PROVE  Running'
<1>1. /\ phase = "run" /\ step \in 1 .. Len(code[at]) + 1 /\ step > Len(code[at])
      /\ UNCHANGED <<shader, lastUse, temps, code, regs>> /\ step' = 1
      /\ at \in 1 .. Len(shader) + 1 /\ Lined(code, Len(shader) + 1)
      /\ \A i \in 1 .. Len(shader) + 1 : CodeOK(temps.loc, i, code[i])
      /\ Kept /\ Ran
  BY DEF RunOn, Running, writeVars, codeVars
<1>2. CASE at > Len(shader)
  <2>1. phase' = "over" BY <1>2 DEF RunOn
  <2> QED BY <2>1 DEF Running
<1>3. CASE ~(at > Len(shader))
  <2>1. PICK M, s, a, l, h : M = code[at] /\ s = step /\ a = at /\ l = temps.loc /\ h = at' OBVIOUS
  <2>2. CodeOK(l, a, M) BY <1>1, <2>1
  <2>3. Lined(M, Len(M)) /\ Gives(l, a, M) BY <2>2 DEF CodeOK
  <2>4. Len(M) \in Nat /\ DOMAIN M = 1 .. Len(M) BY <2>3, LinedOf
  <2>5. s = Len(M) + 1 BY <1>1, <2>1, <2>4
  <2>6. Prog = 1 .. Len(shader) /\ Len(shader) \in Nat /\ a \in Prog BY <1>1, <1>3, <2>1, ProgOf
  <2>7. h \in Follow(a) /\ phase' = "run" BY <1>1, <1>3, <2>1 DEF RunOn
  <2>8. h \in 1 .. Len(shader) + 1 /\ Wanted(h) \subseteq Wanted(a) \cup Gains(a)
    BY <1>1, <2>6, <2>7, FollowWanted
  <2>9. ASSUME NEW x \in Wanted(h) PROVE Holds(l[x], x)
    <3>1. CASE x \in Wanted(a) BY <3>1, <1>1, <2>1 DEF Kept
    <3>2. CASE x \in Gains(a)
      <4>1. PICK j : j = Len(M) OBVIOUS
      <4>2. j # 0 /\ l[x] \in DOMAIN M[j].writes /\ M[j].writes[l[x]] = x
        BY <3>2, <4>1, <2>3, <2>6 DEF Gives
      <4>3. j \in 1 .. s - 1 /\ j + 1 .. s - 1 = {} BY <4>1, <4>2, <2>4, <2>5
      <4>4. LastWrite(M, j, s, l[x]) BY <4>2, <4>3 DEF LastWrite
      <4>5. Holds(l[x], M[j].writes[l[x]]) BY <4>2, <4>3, <4>4, <1>1, <2>1 DEF Ran
      <4> QED BY <4>2, <4>5
    <3> QED BY <3>1, <3>2, <2>8
  <2>10. Kept'
    <3>1. Wanted(h)' = Wanted(h) BY <1>1, SameWanted
    <3> QED BY <3>1, <1>1, <2>1, <2>9 DEF Kept, Holds
  <2>11. Ran'
    <3>1. 1 .. step' - 1 = {} BY <1>1
    <3> QED BY <3>1 DEF Ran
  <2>12. \A i \in 1 .. Len(shader) + 1 : CodeOK(temps.loc, i, code[i])'
    <3> SUFFICES ASSUME NEW i \in 1 .. Len(shader) + 1 PROVE CodeOK(temps.loc, i, code[i])' OBVIOUS
    <3>1. PICK m : m = code[i] OBVIOUS
    <3>2. CodeOK(l, i, m)' BY <3>1, <1>1, <2>1, SameCode
    <3> QED BY <3>1, <3>2, <1>1, <2>1
  <2>13. step' \in 1 .. Len(code'[at']) + 1
    <3>1. PICK m : m = code[h] OBVIOUS
    <3>2. CodeOK(temps.loc, h, m) BY <3>1, <1>1, <2>8
    <3>3. Len(m) \in Nat BY <3>2 DEF CodeOK, Lined
    <3>4. code'[at'] = m /\ step' = 1 BY <3>1, <1>1, <2>1
    <3> QED BY <3>3, <3>4
  <2> QED BY <1>1, <2>1, <2>7, <2>8, <2>10, <2>11, <2>12, <2>13 DEF Running, Lined
<1> QED BY <1>2, <1>3

-----------------------------------------------------------------------------
(* The invariant, and that every step keeps it.                            *)
RegsInv == ShaderInv /\ Phases /\ Allocated /\ Coded

LEMMA TranslateStarts ==
    ASSUME ShaderInv, Phases, Translate
    PROVE  Allocated' /\ Coded'
<1>1. /\ phase' = "translate" /\ temps' = NoTemps /\ code' = <<>> /\ at' = 1 /\ step' = 1
      /\ shader' = shader
  BY DEF Translate, Phases, codeVars, runVars, writeVars
<1>2. ShaderInv' /\ Phases' BY TranslateStep
<1>3. PICK t : t = NoTemps OBVIOUS
<1>4. /\ t.used = {} /\ t.loc = <<>> /\ t.owned = {} /\ t.out = NoTemp /\ DOMAIN t.loc = {}
      /\ t = [used |-> {}, loc |-> <<>>, owned |-> {}, out |-> NoTemp]
  BY <1>3, ListsOf DEF NoTemps
<1>5. Tidy(t)
  <2>1. t.loc \in Locs
    <3>1. t.loc \in [{} -> Temps] BY <1>4
    <3>2. {} \in SUBSET (Values \cup {Web}) OBVIOUS
    <3> QED BY <3>1, <3>2 DEF Locs
  <2>2. t \in TempsOf
    <3>1. <<>> \in Locs BY <2>1, <1>4
    <3> QED BY <1>4, <3>1 DEF TempsOf
  <2>3. Held(t) = {} /\ Outs(t) = {} /\ Webs(t) = {} BY <1>4 DEF Held, Outs, Webs, NoTemp
  <2> QED BY <2>2, <2>3, <1>4 DEF Tidy
<1>6. PICK i : i = 1 OBVIOUS
<1>7. Homed(t, i)'
  <2>1. \A v : ~MadeBefore(v, i)'
    <3>1. Prog = 1 .. Len(shader) /\ Len(shader) \in Nat BY ProgOf
    <3>2. Prog' = Prog BY <1>1 DEF Prog
    <3>3. \A j \in Prog' : ~(j < i) BY <3>1, <3>2, <1>6
    <3> QED BY <3>3 DEF MadeBefore
  <2>2. i \in 1 .. Len(shader') + 1
    <3>1. Prog = 1 .. Len(shader) /\ Len(shader) \in Nat BY ProgOf
    <3> QED BY <3>1, <1>1, <1>6
  <2>3. ~(i > 1) BY <1>6
  <2> QED BY <2>1, <2>2, <2>3, <1>4 DEF Homed
<1>8. Allocated' BY <1>1, <1>3, <1>5, <1>6, <1>7 DEF Allocated, Tidy, Held, Outs, Webs, TempsOf, Locs
<1>9. Coded'
  <2>1. Lined(code', at' - 1) BY <1>1, ListsOf
  <2>2. 1 .. at' - 1 = {} BY <1>1
  <2> QED BY <1>1, <2>1, <2>2 DEF Coded, Lined
<1> QED BY <1>8, <1>9

LEMMA CodeSteps ==
    ASSUME ShaderInv, Phases, Allocated, Coded, CodeNext
    PROVE  Allocated' /\ Coded' /\ (~UboOffsets => Running')
<1>1. CASE Output BY <1>1, OutputStep
<1>2. ASSUME FMulColour \/ FMul \/ FCsel \/ IntWord \/ Texture \/ UboLoad \/ DeclReg \/ StoreReg
             \/ LoadReg \/ Test \/ Branches \/ LoopEnd
      PROVE  Allocated' /\ Coded' /\ Running'
  <2>1. phase' # "run"
    <3>1. CASE FMulColour BY <3>1, EmitPhase DEF FMulColour, Translating
    <3>2. CASE FMul BY <3>2, EmitPhase DEF FMul, Translating
    <3>3. CASE FCsel BY <3>3, EmitPhase DEF FCsel, Translating
    <3>4. CASE IntWord BY <3>4, EmitPhase DEF IntWord, Translating
    <3>5. CASE Texture BY <3>5, EmitPhase DEF Texture, Translating
    <3>6. CASE UboLoad BY <3>6, EmitPhase DEF UboLoad, Translating
    <3>7. CASE DeclReg BY <3>7, EmitPhase DEF DeclReg, Translating
    <3>8. CASE StoreReg BY <3>8, EmitPhase DEF StoreReg, Translating
    <3>9. CASE LoadReg BY <3>9, EmitPhase DEF LoadReg, Translating
    <3>10. CASE Test BY <3>10, EmitPhase DEF Test, Translating
    <3>11. CASE Branches BY <3>11, EmitPhase DEF Branches, Translating
    <3>12. CASE LoopEnd BY <3>12 DEF LoopEnd, Translating
    <3> QED BY <1>2, <3>1, <3>2, <3>3, <3>4, <3>5, <3>6, <3>7, <3>8, <3>9, <3>10, <3>11, <3>12
  <2>2. Allocated' /\ Coded'
    BY <1>2, FMulColourStep, FMulStep, FCselStep, IntWordStep, TextureStep, UboLoadStep,
       DeclRegStep, StoreRegStep, LoadRegStep, TestStep, BranchesStep, LoopEndStep
  <2> QED BY <2>1, <2>2 DEF Running
<1> QED BY <1>1, <1>2 DEF CodeNext

LEMMA RegsInvInit == ASSUME RegsInit PROVE RegsInv /\ Running
<1>1. phase = "write" BY DEF RegsInit
<1> QED BY <1>1, ShaderInit DEF RegsInv, Allocated, Coded, Running

LEMMA RegsInvStep ==
    ASSUME RegsInv, [RegsNext]_regsVars
    PROVE  RegsInv' /\ (~UboOffsets /\ Running => Running')
<1>1. ShaderInv /\ Phases /\ Allocated /\ Coded BY DEF RegsInv
<1>2. ShaderInv' /\ Phases' BY <1>1, ShaderStep
<1>3. CASE WriteNext
  <2>1. phase' = "write"
    BY <1>3 DEF WriteNext, WriteInstr, WriteOpen, WriteElse, WriteEnd, WriteBreak, WriteAgain, Written
  <2> QED BY <2>1, <1>2 DEF RegsInv, Allocated, Coded, Running
<1>4. CASE Translate
  <2>1. phase' = "translate" BY <1>4 DEF Translate
  <2> QED BY <2>1, <1>1, <1>2, <1>4, TranslateStarts DEF RegsInv, Running
<1>5. CASE CodeNext BY <1>1, <1>2, <1>5, CodeSteps DEF RegsInv
<1>6. CASE RunMove
  <2>1. phase' = "run" BY <1>6 DEF RunMove
  <2> QED BY <2>1, <1>1, <1>2, <1>6, RunMoveStep DEF RegsInv, Allocated, Coded
<1>7. CASE RunOn
  <2>1. phase' \in {"run", "over"} BY <1>7 DEF RunOn
  <2> QED BY <2>1, <1>1, <1>2, <1>7, RunOnStep DEF RegsInv, Allocated, Coded
<1>8. CASE UNCHANGED regsVars
  <2>1. /\ UNCHANGED <<shader, lastUse, temps, code, at, step, regs, phase>>
    BY <1>8 DEF regsVars, writeVars, codeVars, runVars
  <2>2. PICK t, i : t = temps /\ i = at OBVIOUS
  <2>3. Homed(t, i)' <=> Homed(t, i) BY <2>1, SameHomed
  <2>4. Tidy(t)' <=> Tidy(t) BY DEF Tidy, Held, Outs, Webs, TempsOf, Locs
  <2>5. Allocated' BY <1>1, <2>1, <2>2, <2>3, <2>4 DEF Allocated, Tidy, Held, Outs, Webs, TempsOf, Locs
  <2>6. PICK l : l = temps.loc OBVIOUS
  <2>7. \A j, m : CodeOK(l, j, m)' <=> CodeOK(l, j, m) BY <2>1, SameCode
  <2>8. \A j : CodeOK(temps.loc, j, code[j])' <=> CodeOK(temps.loc, j, code[j])
    <3> SUFFICES ASSUME NEW j PROVE CodeOK(temps.loc, j, code[j])' <=> CodeOK(temps.loc, j, code[j])
      OBVIOUS
    <3>1. PICK m : m = code[j] OBVIOUS
    <3> QED BY <3>1, <2>1, <2>6, <2>7
  <2>9. Coded' BY <1>1, <2>1, <2>8 DEF Coded, Lined
  <2>10. Kept' <=> Kept
    <3>1. Wanted(i)' = Wanted(i) BY <2>1, SameWanted
    <3> QED BY <3>1, <2>1, <2>2 DEF Kept, Holds
  <2>11. Ran' <=> Ran BY <2>1 DEF Ran, Holds, LastWrite
  <2>12. Running => Running' BY <2>1, <2>8, <2>10, <2>11 DEF Running, Lined
  <2> QED BY <1>2, <2>5, <2>9, <2>12 DEF RegsInv
<1> QED BY <1>3, <1>4, <1>5, <1>6, <1>7, <1>8 DEF RegsNext

-----------------------------------------------------------------------------
(* The translation's tables are right after every step, whatever the shader: *)
(* the shader as NIR gives it, its last uses, the allocation and the code.   *)
THEOREM RegsAlways == RegsSpec => []RegsInv
<1>1. RegsInit => RegsInv BY RegsInvInit
<1>2. RegsInv /\ [RegsNext]_regsVars => RegsInv' BY RegsInvStep
<1> QED BY <1>1, <1>2, PTL DEF RegsSpec

(* The sizes of sets of temporaries.                                       *)
LEMMA RunInterval ==
    ASSUME NEW a \in Nat, NEW n \in Nat
    PROVE  IsFiniteSet(a .. a + n - 1) /\ Cardinality(a .. a + n - 1) = n
<1>1. PICK b \in Int : b = a + n - 1 OBVIOUS
<1>2. IsFiniteSet(a .. b) /\ Cardinality(a .. b) = IF a > b THEN 0 ELSE b - a + 1
  BY <1>1, FS_Interval
<1>3. (IF a > b THEN 0 ELSE b - a + 1) = n BY <1>1
<1> QED BY <1>1, <1>2, <1>3

LEMMA ApartCount ==
    ASSUME NEW S, NEW T, IsFiniteSet(S), IsFiniteSet(T), S \cap T = {}
    PROVE  IsFiniteSet(S \cup T) /\ Cardinality(S \cup T) = Cardinality(S) + Cardinality(T)
<1>1. Cardinality(S \cap T) = 0 BY FS_EmptySet
<1>2. Cardinality(S) \in Nat /\ Cardinality(T) \in Nat BY FS_CardinalityType
<1>3. /\ IsFiniteSet(S \cup T)
      /\ Cardinality(S \cup T) = Cardinality(S) + Cardinality(T) - Cardinality(S \cap T)
  BY FS_Union
<1> QED BY <1>1, <1>2, <1>3

(* As many temporaries as values, where no two values share one.           *)
LEMMA HeldCount ==
    ASSUME NEW t, Tidy(t)
    PROVE  /\ IsFiniteSet(Held(t)) /\ Cardinality(Held(t)) = Cardinality(t.owned)
           /\ IsFiniteSet(Outs(t)) /\ IsFiniteSet(Webs(t))
<1>1. t.owned \subseteq Values /\ t.out \in Nat \cup {NoTemp, NoRoom} BY DEF Tidy, TempsOf
<1>2. IsFiniteSet(t.owned)
  <2>1. MaxValues \in Int BY RegsAssumption
  <2>2. IsFiniteSet(Values) BY <2>1, FS_Interval DEF Values
  <2> QED BY <1>1, <2>2, FS_Subset
<1>3. ExistsBijection(t.owned, Held(t))
  <2> DEFINE f == [v \in t.owned |-> t.loc[v]]
  <2>1. f \in [t.owned -> Held(t)] BY DEF Held
  <2>2. \A v, w \in t.owned : f[v] = f[w] => v = w BY DEF Tidy
  <2>3. \A r \in Held(t) : \E v \in t.owned : f[v] = r BY DEF Held
  <2> HIDE DEF f
  <2>4. f \in Bijection(t.owned, Held(t))
    BY <2>1, <2>2, <2>3 DEF Bijection, Injection, Surjection, IsInjective
  <2> QED BY <2>4 DEF ExistsBijection
<1>4. IsFiniteSet(Outs(t))
  <2>1. CASE t.out >= 0
    <3>1. t.out \in Nat BY <1>1, <2>1 DEF NoTemp, NoRoom
    <3>2. ColourLen \in Nat BY RegsAssumption
    <3> QED BY <2>1, <3>1, <3>2, RunInterval DEF Outs
  <2>2. CASE ~(t.out >= 0) BY <2>2, FS_EmptySet DEF Outs
  <2> QED BY <2>1, <2>2
<1>5. IsFiniteSet(Webs(t)) BY FS_EmptySet, FS_Singleton DEF Webs
<1> QED BY <1>2, <1>3, <1>4, <1>5, FS_Bijection

(* NoTempLeft follows from the allocation's invariant: the temporaries of  *)
(* the values, of the colour and of the declared register are apart.       *)
LEMMA AllocatedNoTempLeft == ASSUME ShaderInv, Phases, Allocated PROVE NoTempLeft
<1> SUFFICES ASSUME phase = "translate" PROVE NoTempLeft BY DEF NoTempLeft
<1>1. PICK t : t = temps OBVIOUS
<1>2. Tidy(t) /\ Homed(t, at) BY <1>1 DEF Allocated
<1>3. t.used = Held(t) \cup Outs(t) \cup Webs(t) BY <1>2 DEF Tidy
<1>4. /\ IsFiniteSet(Held(t)) /\ Cardinality(Held(t)) = Cardinality(t.owned)
      /\ IsFiniteSet(Outs(t)) /\ IsFiniteSet(Webs(t))
  BY <1>2, HeldCount
<1>5. Held(t) \cap Outs(t) = {} /\ (Held(t) \cup Outs(t)) \cap Webs(t) = {}
  BY <1>2 DEF Tidy
<1>6. PICK S, T, U : S = Held(t) /\ T = Outs(t) /\ U = Webs(t) OBVIOUS
<1>7. IsFiniteSet(S \cup T) /\ Cardinality(S \cup T) = Cardinality(S) + Cardinality(T)
  BY <1>4, <1>5, <1>6, ApartCount
<1>8. Cardinality((S \cup T) \cup U) = Cardinality(S \cup T) + Cardinality(U)
  BY <1>4, <1>5, <1>6, <1>7, ApartCount
<1>9. Cardinality(t.used) = Cardinality(t.owned) + Cardinality(Outs(t)) + Cardinality(Webs(t))
  BY <1>3, <1>4, <1>6, <1>7, <1>8
<1>10. \A v \in t.owned : lastUse[v] >= at \/ at > Len(shader)
  BY <1>2 DEF Homed, Live
<1>11. /\ {temps.loc[v] : v \in temps.owned} = Held(t)
       /\ (IF temps.out >= 0 THEN temps.out .. temps.out + ColourLen - 1 ELSE {}) = Outs(t)
       /\ (IF Web \in DOMAIN temps.loc THEN {Loc(Web)} ELSE {}) = Webs(t)
  BY <1>1 DEF Held, Outs, Webs, Loc
<1> QED BY <1>1, <1>3, <1>9, <1>10, <1>11 DEF NoTempLeft

(* Between two instructions no temporary is given back twice and none is   *)
(* forgotten, whatever the shader, the temporaries and the colour's length. *)
THEOREM NoTempIsLeft == RegsSpec => []NoTempLeft
<1>1. RegsInv => NoTempLeft BY AllocatedNoTempLeft DEF RegsInv
<1> QED BY <1>1, RegsAlways, PTL

(* An instruction's reads are sound in its code, what its own moves wrote  *)
(* is there, and what it wanted when it started has been kept.             *)
LEMMA RunningReads == ASSUME Running PROVE ReadsItsValue
<1> SUFFICES ASSUME phase = "run", step <= Len(code[at]), NEW read \in code[at][step].reads
    PROVE regs[read[1]] = read[2]
  BY DEF ReadsItsValue
<1>1. PICK M, s, a, l, r, x :
          M = code[at] /\ s = step /\ a = at /\ l = temps.loc /\ r = read[1] /\ x = read[2]
  OBVIOUS
<1>2. /\ step \in 1 .. Len(code[at]) + 1 /\ at \in 1 .. Len(shader) + 1 /\ Kept /\ Ran
      /\ \A i \in 1 .. Len(shader) + 1 : CodeOK(temps.loc, i, code[i])
  BY DEF Running
<1>3. CodeOK(l, a, M) BY <1>1, <1>2
<1>4. Lined(M, Len(M)) /\ Finds(l, a, M) BY <1>3 DEF CodeOK
<1>5. Len(M) \in Nat /\ DOMAIN M = 1 .. Len(M) BY <1>4, LinedOf
<1>6. s \in DOMAIN M BY <1>1, <1>2, <1>5
<1>7. SoundRead(l, a, M, s, r, x) BY <1>1, <1>4, <1>6 DEF Finds
<1>8. CASE \E j \in 1 .. s - 1 : LastWrite(M, j, s, r) /\ M[j].writes[r] = x
  <2>1. PICK j \in 1 .. s - 1 : LastWrite(M, j, s, r) /\ M[j].writes[r] = x BY <1>8
  <2>2. r \in DOMAIN M[j].writes BY <2>1 DEF LastWrite
  <2>3. Holds(r, M[j].writes[r]) BY <2>1, <2>2, <1>1, <1>2 DEF Ran
  <2> QED BY <2>1, <2>3, <1>1 DEF Holds
<1>9. CASE x \in Wanted(a) /\ r = l[x]
  <2>1. Holds(l[x], x) BY <1>9, <1>1, <1>2 DEF Kept
  <2> QED BY <2>1, <1>9, <1>1 DEF Holds
<1> QED BY <1>7, <1>8, <1>9 DEF SoundRead

(* An instruction that reads a value finds it where the translation put it, *)
(* whatever the shader and whichever branches it takes, as long as uniform  *)
(* buffers are read at constant offsets: the liveness walks are not told of *)
(* an offset that the shader computes (run "ubo").                          *)
THEOREM EveryReadFindsItsValue ==
    ASSUME ~UboOffsets
    PROVE  RegsSpec => []ReadsItsValue
<1>1. RegsInit => RegsInv /\ Running BY RegsInvInit
<1>2. RegsInv /\ Running /\ [RegsNext]_regsVars => RegsInv' /\ Running' BY RegsInvStep
<1>3. Running => ReadsItsValue BY RunningReads
<1> QED BY <1>1, <1>2, <1>3, PTL DEF RegsSpec

=============================================================================
