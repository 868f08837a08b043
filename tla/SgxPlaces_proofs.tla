-------------------------- MODULE SgxPlaces_proofs --------------------------
(***************************************************************************)
(* No program is written over while it may run, for any number of          *)
(* contexts, programs, places, render targets and end-of-tile slots.       *)
(***************************************************************************)
EXTENDS SgxPlaces, TLAPS

Drawn == [prog : Progs, place : Places]
Renders == [draws : SUBSET Drawn, slot : 0..MaxEot - 1, target : Targets]

PlacesTypes ==
    /\ code \in [Places -> Progs \cup {Vacant}]
    /\ at \in [Progs -> Places \cup {Vacant}]
    /\ heap \in SUBSET Places
    /\ retired \in SUBSET [place : Places, fence : Nat]
    /\ gathered \in [Ctxs -> SUBSET Drawn]
    /\ buried \in [Ctxs -> SUBSET Progs]
    /\ flushed \in SUBSET Ctxs
    /\ eot \in [0..MaxEot - 1 -> [target : Targets \cup {Vacant}, fence : Nat]]
    /\ neot \in Nat
    /\ queue \in Seq(Renders)

(* A place has one holder at most: the heap, a program, a retired one.     *)
OneHolder ==
    /\ \A p \in Progs : at[p] # Vacant => code[at[p]] = p /\ at[p] \notin heap
    /\ \A r \in retired : r.place \notin heap /\ \A p \in Progs : at[p] # r.place
    /\ \A r, s \in retired : r.place = s.place => r = s

(* A context's gathered draws run its own programs, which have not moved;  *)
(* between a flush and its burials it has none.                            *)
GatheredStay ==
    \A c \in Ctxs :
        /\ \A d \in gathered[c] : Owner[d.prog] = c /\ at[d.prog] = d.place
        /\ \A p \in buried[c] : Owner[p] = c
        /\ c \in flushed => gathered[c] = {}

(* What a render runs is a program's still, or retired until that render,  *)
(* or one behind it, is done.                                              *)
QueuedStay ==
    \A i \in DOMAIN queue : \A d \in queue[i].draws :
        /\ code[d.place] = d.prog
        /\ \/ at[d.prog] = d.place
           \/ \E r \in retired : r.place = d.place /\ i <= r.fence

(* A render's slot waits for it. *)
SlotsWait ==
    \A i \in DOMAIN queue :
        LET slot == eot[queue[i].slot] IN slot.target = queue[i].target /\ i <= slot.fence

PlacesInv == PlacesTypes /\ OneHolder /\ GatheredStay /\ QueuedStay /\ SlotsWait

LEMMA PlacesStart == PlacesInit => PlacesInv
<1> SUFFICES ASSUME PlacesInit PROVE PlacesInv
  OBVIOUS
<1> USE PlacesConstants DEF PlacesInit
<1>1. PlacesTypes
  BY DEF PlacesTypes
<1>2. queue = <<>> /\ DOMAIN queue = {}
  OBVIOUS
<1>3. OneHolder /\ GatheredStay
  BY DEF OneHolder, GatheredStay
<1>4. QueuedStay /\ SlotsWait
  BY <1>2 DEF QueuedStay, SlotsWait
<1> QED
  BY <1>1, <1>3, <1>4 DEF PlacesInv

LEMMA QueueTypes ==
    ASSUME PlacesTypes, NEW i \in DOMAIN queue
    PROVE  /\ queue[i] \in Renders /\ i \in 1..Last /\ Last \in Nat
           /\ \A d \in queue[i].draws : d \in Drawn /\ d.prog \in Progs /\ d.place \in Places
<1>1. queue \in Seq(Renders)
  BY DEF PlacesTypes
<1>2. queue[i] \in Renders /\ i \in 1..Last /\ Last \in Nat
  BY <1>1 DEF Last
<1>3. queue[i].draws \in SUBSET Drawn
  BY <1>2 DEF Renders
<1>4. \A d \in Drawn : d.prog \in Progs /\ d.place \in Places
  BY DEF Drawn
<1> QED
  BY <1>2, <1>3, <1>4

-----------------------------------------------------------------------------
(* What the heap gives is nobody's: no program is there, and no render     *)
(* that is not done runs what was.                                         *)
LEMMA FreeIsNobodys ==
    ASSUME PlacesInv, NEW l \in FreePlaces.free
    PROVE  /\ l \in Places
           /\ \A p \in Progs : at[p] # l
           /\ \A i \in DOMAIN queue : \A d \in queue[i].draws : d.place # l
           /\ \A r \in FreePlaces.retired : r \in retired /\ r.place \notin FreePlaces.free
           /\ FreePlaces.free \in SUBSET Places
           /\ \A m \in FreePlaces.free : \A p \in Progs : at[p] # m
           /\ \A r \in retired : r.fence > 0 /\ Last > 0 => r \in FreePlaces.retired
<1> USE DEF PlacesInv
<1>1. CASE heap # {}
  <2>1. FreePlaces.free = heap /\ FreePlaces.retired = retired
    BY <1>1 DEF FreePlaces
  <2>2. l \in heap /\ heap \in SUBSET Places
    BY <2>1 DEF PlacesTypes
  <2>3. \A i \in DOMAIN queue : \A d \in queue[i].draws : d.place # l
    <3> SUFFICES ASSUME NEW i \in DOMAIN queue, NEW d \in queue[i].draws PROVE d.place # l
      OBVIOUS
    <3>1. d.prog \in Progs /\ d.place \in Places
      BY QueueTypes
    <3>2. CASE at[d.prog] = d.place
      BY <2>2, <3>1, <3>2, PlacesConstants DEF OneHolder
    <3>3. CASE \E r \in retired : r.place = d.place
      BY <2>2, <3>3 DEF OneHolder
    <3> QED
      BY <3>2, <3>3 DEF QueuedStay
  <2>4. \A m \in heap : \A p \in Progs : at[p] # m
    BY <2>2, PlacesConstants DEF OneHolder
  <2>5. \A r \in retired : r.place \notin heap
    BY DEF OneHolder
  <2> QED
    BY <2>1, <2>2, <2>3, <2>4, <2>5
<1>2. CASE heap = {}
  <2> DEFINE back == IF Reclaimable # {} THEN Reclaimable
                     ELSE IF Last = 0 THEN retired ELSE {}
  <2>1. FreePlaces.free = {r.place : r \in back} /\ FreePlaces.retired = retired \ back
    BY <1>2 DEF FreePlaces
  <2>2. back \in SUBSET retired
    BY DEF Reclaimable
  <2>3. \A r \in back : r.fence = 0 \/ Last = 0
    BY DEF Reclaimable
  <2>4. retired \in SUBSET [place : Places, fence : Nat] /\ Last \in Nat
    BY DEF PlacesTypes, Last
  <2> HIDE DEF back
  <2>5. PICK b \in back : b.place = l
    BY <2>1
  <2>6. \A i \in DOMAIN queue : \A d \in queue[i].draws : d.place # l
    <3> SUFFICES ASSUME NEW i \in DOMAIN queue, NEW d \in queue[i].draws, d.place = l PROVE FALSE
      OBVIOUS
    <3>1. d.prog \in Progs /\ i \in 1..Last
      BY QueueTypes
    <3>2. at[d.prog] # l
      BY <2>2, <2>5, <3>1 DEF OneHolder
    <3>3. PICK r \in retired : r.place = l /\ i <= r.fence
      BY <3>2 DEF QueuedStay
    <3>4. r = b
      BY <2>2, <2>5, <3>3 DEF OneHolder
    <3>5. r.fence \in Nat
      BY <2>4
    <3> QED
      BY <2>3, <2>4, <3>1, <3>3, <3>4, <3>5
  <2>7. \A m \in FreePlaces.free : m \in Places /\ \A p \in Progs : at[p] # m
    BY <2>1, <2>2, <2>4 DEF OneHolder
  <2>8. \A r \in retired \ back : r.place \notin FreePlaces.free
    BY <2>1, <2>2 DEF OneHolder
  <2>9. \A r \in retired : r.fence > 0 /\ Last > 0 => r \notin back
    BY <2>3
  <2> QED
    BY <2>1, <2>2, <2>6, <2>7, <2>8, <2>9
<1> QED
  BY <1>1, <1>2

LEMMA DrawKeeps ==
    ASSUME PlacesInv, NEW p \in Progs, Draw(p)
    PROVE  PlacesInv'
<1> USE DEF PlacesInv
<1> DEFINE c == Owner[p]
<1>0. c \in Ctxs /\ c \notin flushed
  BY PlacesConstants DEF Draw, MayDraw
<1>1. UNCHANGED <<buried, flushed, eot, neot, queue>>
  BY DEF Draw
<1>2. CASE at[p] # Vacant
  <2>1. Use(p, at[p]) /\ UNCHANGED <<code, at, heap, retired>>
    BY <1>2 DEF Draw
  <2>2. at[p] \in Places
    BY <1>2 DEF PlacesTypes
  <2> DEFINE d == [prog |-> p, place |-> at[p]]
  <2>3. d \in Drawn
    BY <2>2 DEF Drawn
  <2>4. gathered' = [gathered EXCEPT ![c] = @ \cup {d}]
    BY <2>1 DEF Use
  <2>5. PlacesTypes'
    BY <1>0, <1>1, <2>1, <2>3, <2>4 DEF PlacesTypes
  <2>6. GatheredStay'
    BY <1>0, <1>1, <2>1, <2>4 DEF GatheredStay, PlacesTypes
  <2> QED
    BY <1>1, <2>1, <2>5, <2>6 DEF OneHolder, QueuedStay, SlotsWait
<1>3. CASE at[p] = Vacant
  <2>1. PICK l \in FreePlaces.free :
            /\ code' = [code EXCEPT ![l] = p]
            /\ at' = [at EXCEPT ![p] = l]
            /\ heap' = FreePlaces.free \ {l}
            /\ retired' = FreePlaces.retired
            /\ Use(p, l)
    BY <1>3 DEF Draw
  <2> DEFINE d == [prog |-> p, place |-> l]
  <2>2. /\ l \in Places
        /\ \A q \in Progs : at[q] # l
        /\ \A i \in DOMAIN queue : \A e \in queue[i].draws : e.place # l
        /\ \A r \in retired' : r \in retired /\ r.place \notin FreePlaces.free
        /\ FreePlaces.free \in SUBSET Places
        /\ \A m \in FreePlaces.free : \A q \in Progs : at[q] # m
        /\ \A r \in retired : r.fence > 0 /\ Last > 0 => r \in retired'
    BY <2>1, FreeIsNobodys
  <2>3. gathered' = [gathered EXCEPT ![c] = @ \cup {d}] /\ d \in Drawn
    BY <2>1, <2>2 DEF Use, Drawn
  <2>4. PlacesTypes'
    <3>1. code' \in [Places -> Progs \cup {Vacant}] /\ at' \in [Progs -> Places \cup {Vacant}]
      BY <2>1, <2>2 DEF PlacesTypes
    <3>2. heap' \in SUBSET Places /\ retired' \in SUBSET [place : Places, fence : Nat]
      BY <2>1, <2>2 DEF PlacesTypes
    <3>3. gathered' \in [Ctxs -> SUBSET Drawn]
      BY <1>0, <2>3 DEF PlacesTypes
    <3> QED
      BY <1>1, <3>1, <3>2, <3>3 DEF PlacesTypes
  <2>5. /\ at'[p] = l /\ code'[l] = p
        /\ \A q \in Progs \ {p} : at'[q] = at[q]
        /\ \A m \in Places \ {l} : code'[m] = code[m]
    BY <2>1, <2>2 DEF PlacesTypes
  <2>6. OneHolder'
    <3>1. \A q \in Progs : at'[q] # Vacant => code'[at'[q]] = q /\ at'[q] \notin heap'
      <4> SUFFICES ASSUME NEW q \in Progs, at'[q] # Vacant
                   PROVE  code'[at'[q]] = q /\ at'[q] \notin heap'
        OBVIOUS
      <4>1. CASE q = p
        BY <2>1, <2>5, <4>1
      <4>2. CASE q # p
        <5>1. at'[q] = at[q] /\ at[q] \in Places /\ at[q] # l /\ code[at[q]] = q
          BY <2>2, <2>5, <4>2 DEF OneHolder, PlacesTypes
        <5>2. at[q] \notin FreePlaces.free
          BY <2>2
        <5> QED
          BY <2>1, <2>5, <5>1, <5>2
      <4> QED
        BY <4>1, <4>2
    <3>2. \A r \in retired' : r.place \notin heap' /\ \A q \in Progs : at'[q] # r.place
      BY <2>1, <2>2, <2>5 DEF OneHolder
    <3>3. \A r, s \in retired' : r.place = s.place => r = s
      BY <2>2 DEF OneHolder
    <3> QED
      BY <3>1, <3>2, <3>3 DEF OneHolder
  <2>7. GatheredStay'
    <3> SUFFICES ASSUME NEW e \in Ctxs
                 PROVE  /\ \A f \in gathered'[e] : Owner[f.prog] = e /\ at'[f.prog] = f.place
                        /\ \A q \in buried[e] : Owner[q] = e
                        /\ e \in flushed => gathered'[e] = {}
      BY <1>1 DEF GatheredStay
    <3>1. \A f \in gathered[e] : /\ f.prog \in Progs /\ f.place \in Places
                                 /\ Owner[f.prog] = e /\ at[f.prog] = f.place
      BY DEF GatheredStay, PlacesTypes, Drawn
    <3>2. \A f \in gathered[e] : f.prog # p
      BY <1>3, <3>1, PlacesConstants
    <3>3. gathered'[e] = IF e = c THEN gathered[e] \cup {d} ELSE gathered[e]
      BY <1>0, <2>3 DEF PlacesTypes
    <3>4. \A f \in gathered'[e] : Owner[f.prog] = e /\ at'[f.prog] = f.place
      BY <2>5, <3>1, <3>2, <3>3
    <3> QED
      BY <1>0, <3>3, <3>4 DEF GatheredStay
  <2>8. QueuedStay'
    <3> SUFFICES ASSUME NEW i \in DOMAIN queue, NEW e \in queue[i].draws
                 PROVE  /\ code'[e.place] = e.prog
                        /\ \/ at'[e.prog] = e.place
                           \/ \E r \in retired' : r.place = e.place /\ i <= r.fence
      BY <1>1 DEF QueuedStay
    <3>1. e.place \in Places /\ e.prog \in Progs /\ i \in 1..Last /\ Last \in Nat
      BY QueueTypes
    <3>2. code'[e.place] = e.prog
      BY <2>2, <2>5, <3>1 DEF QueuedStay
    <3>3. CASE at[e.prog] = e.place
      BY <1>3, <2>5, <3>1, <3>2, <3>3, PlacesConstants
    <3>4. CASE \E r \in retired : r.place = e.place /\ i <= r.fence
      <4>1. PICK r \in retired : r.place = e.place /\ i <= r.fence
        BY <3>4
      <4>2. r.fence \in Nat
        BY DEF PlacesTypes
      <4>3. r \in retired'
        BY <2>2, <3>1, <4>1, <4>2
      <4> QED
        BY <3>2, <4>1, <4>3
    <3> QED
      BY <3>2, <3>3, <3>4 DEF QueuedStay
  <2> QED
    BY <1>1, <2>4, <2>6, <2>7, <2>8 DEF SlotsWait
<1> QED
  BY <1>2, <1>3

-----------------------------------------------------------------------------
(* Programs of a context with no gathered draws are retired behind all the *)
(* renders that may run them.                                              *)
LEMMA RetireKeeps ==
    ASSUME PlacesInv, NEW c \in Ctxs, NEW ps \in SUBSET Progs,
           \A p \in ps : Owner[p] = c, gathered[c] = {}, Retire(ps),
           UNCHANGED <<code, heap, gathered, eot, neot, queue>>,
           buried' = [buried EXCEPT ![c] = {}], flushed' \in SUBSET flushed
    PROVE  PlacesInv'
<1> USE DEF PlacesInv
<1> DEFINE new == {[place |-> at[p], fence |-> Last] : p \in {p \in ps : at[p] # Vacant}}
<1>1. retired' = retired \cup new
  BY DEF Retire
<1>2. \A p \in Progs : at'[p] = IF p \in ps THEN Vacant ELSE at[p]
  BY DEF Retire
<1>3. Last \in Nat
  BY DEF PlacesTypes, Last
<1>4. \A r \in new : /\ r \in [place : Places, fence : Nat] /\ r.fence = Last
                     /\ \E p \in ps : at[p] # Vacant /\ r.place = at[p]
  BY <1>3 DEF PlacesTypes
<1>5. \A p \in ps : at[p] # Vacant => [place |-> at[p], fence |-> Last] \in new
  OBVIOUS
<1>5a. \A r, s \in new : r.place = s.place => r = s
  OBVIOUS
<1> HIDE DEF new
<1>6. PlacesTypes'
  <2>1. at' \in [Progs -> Places \cup {Vacant}]
    BY DEF Retire, PlacesTypes
  <2>2. retired' \in SUBSET [place : Places, fence : Nat]
    BY <1>1, <1>4 DEF PlacesTypes
  <2> QED
    BY <2>1, <2>2 DEF PlacesTypes
<1>7. OneHolder'
  <2>1. \A p \in Progs : at'[p] # Vacant => code[at'[p]] = p /\ at'[p] \notin heap
    BY <1>2 DEF OneHolder
  <2>2. \A r \in new : r.place \notin heap /\ \A p \in Progs : at'[p] # r.place
    <3> SUFFICES ASSUME NEW r \in new PROVE r.place \notin heap /\ \A p \in Progs : at'[p] # r.place
      OBVIOUS
    <3>1. PICK q \in ps : at[q] # Vacant /\ r.place = at[q]
      BY <1>4
    <3>2. code[at[q]] = q /\ at[q] \notin heap
      BY <3>1 DEF OneHolder
    <3>3. \A p \in Progs \ ps : at[p] # at[q]
      BY <3>1, <3>2 DEF OneHolder
    <3> QED
      BY <1>2, <3>1, <3>2, <3>3
  <2>3. \A r \in retired : r.place \notin heap /\ \A p \in Progs : at'[p] # r.place
    <3>1. \A r \in retired : r.place # Vacant
      BY PlacesConstants DEF PlacesTypes
    <3> QED
      BY <1>2, <3>1 DEF OneHolder
  <2>4. \A r \in retired, s \in new : r.place # s.place
    BY <1>4 DEF OneHolder
  <2>5. \A r, s \in retired \cup new : r.place = s.place => r = s
    BY <1>5a, <2>4 DEF OneHolder
  <2> QED
    BY <1>1, <2>1, <2>2, <2>3, <2>5 DEF OneHolder
<1>8. GatheredStay'
  <2> SUFFICES ASSUME NEW e \in Ctxs
               PROVE  /\ \A d \in gathered[e] : Owner[d.prog] = e /\ at'[d.prog] = d.place
                      /\ \A p \in buried'[e] : Owner[p] = e
                      /\ e \in flushed' => gathered[e] = {}
    BY DEF GatheredStay
  <2>1. \A d \in gathered[e] : d.prog \in Progs /\ Owner[d.prog] = e /\ at[d.prog] = d.place
    BY DEF GatheredStay, PlacesTypes, Drawn
  <2>2. \A d \in gathered[e] : d.prog \notin ps
    BY <2>1
  <2>3. buried'[e] \in SUBSET buried[e]
    BY DEF PlacesTypes
  <2> QED
    BY <1>2, <2>1, <2>2, <2>3 DEF GatheredStay
<1>9. QueuedStay'
  <2> SUFFICES ASSUME NEW i \in DOMAIN queue, NEW d \in queue[i].draws
               PROVE  /\ code[d.place] = d.prog
                      /\ \/ at'[d.prog] = d.place
                         \/ \E r \in retired' : r.place = d.place /\ i <= r.fence
    BY DEF QueuedStay
  <2>1. d.prog \in Progs /\ d.place \in Places /\ i \in 1..Last
    BY QueueTypes
  <2>2. CASE at[d.prog] = d.place /\ d.prog \in ps
    <3> DEFINE r == [place |-> at[d.prog], fence |-> Last]
    <3>1. r \in new
      BY <1>5, <2>1, <2>2, PlacesConstants
    <3>2. r.place = d.place /\ i <= r.fence
      BY <1>3, <2>1, <2>2
    <3> QED
      BY <1>1, <3>1, <3>2 DEF QueuedStay
  <2>3. CASE at[d.prog] = d.place /\ d.prog \notin ps
    BY <1>2, <2>1, <2>3 DEF QueuedStay
  <2>4. CASE \E r \in retired : r.place = d.place /\ i <= r.fence
    BY <1>1, <2>4 DEF QueuedStay
  <2> QED
    BY <2>2, <2>3, <2>4 DEF QueuedStay
<1> QED
  BY <1>6, <1>7, <1>8, <1>9 DEF SlotsWait

LEMMA BuryKeeps ==
    ASSUME PlacesInv, NEW p \in Progs, Bury(p)
    PROVE  PlacesInv'
<1> DEFINE c == Owner[p]
<1>1. c \in Ctxs /\ UNCHANGED <<code, heap, gathered, flushed, eot, neot, queue>>
  BY PlacesConstants DEF Bury
<1>2. CASE gathered[c] = {}
  <2>1. Retire(buried[c] \cup {p}) /\ buried' = [buried EXCEPT ![c] = {}]
    BY <1>2 DEF Bury
  <2>2. buried[c] \cup {p} \in SUBSET Progs /\ \A q \in buried[c] \cup {p} : Owner[q] = c
    BY <1>1 DEF PlacesInv, PlacesTypes, GatheredStay
  <2> QED
    BY <1>1, <1>2, <2>1, <2>2, RetireKeeps
<1>3. CASE gathered[c] # {}
  <2>1. buried' = [buried EXCEPT ![c] = @ \cup {p}] /\ UNCHANGED <<at, retired>>
    BY <1>3 DEF Bury
  <2>2. PlacesTypes'
    BY <1>1, <2>1 DEF PlacesInv, PlacesTypes
  <2>3. GatheredStay'
    BY <1>1, <2>1 DEF PlacesInv, PlacesTypes, GatheredStay
  <2> QED
    BY <1>1, <2>1, <2>2, <2>3 DEF PlacesInv, OneHolder, QueuedStay, SlotsWait
<1> QED
  BY <1>2, <1>3

LEMMA FlushBuriesKeeps ==
    ASSUME PlacesInv, NEW c \in Ctxs, FlushBuries(c)
    PROVE  PlacesInv'
<1>1. /\ buried[c] \in SUBSET Progs /\ gathered[c] = {}
      /\ \A p \in buried[c] : Owner[p] = c
  BY DEF FlushBuries, PlacesInv, PlacesTypes, GatheredStay
<1>2. /\ Retire(buried[c]) /\ buried' = [buried EXCEPT ![c] = {}]
      /\ flushed' \in SUBSET flushed
      /\ UNCHANGED <<code, heap, gathered, eot, neot, queue>>
  BY DEF FlushBuries
<1> QED
  BY <1>1, <1>2, RetireKeeps

-----------------------------------------------------------------------------
(* A slot that Slot gives has the target already, or nothing waits in it.  *)
LEMMA SlotIsFree ==
    ASSUME PlacesInv, NEW t \in Targets, NEW s \in Slot(t)
    PROVE  s \in 0..MaxEot - 1 /\ (eot[s].target = t \/ eot[s].fence = 0)
<1>1. DOMAIN eot = 0..MaxEot - 1 /\ neot \in Nat /\ MaxEot \in Nat \ {0}
  BY PlacesConstants DEF PlacesInv, PlacesTypes
<1>2. NextSlot \in 0..MaxEot - 1
  BY <1>1 DEF NextSlot
<1> QED
  BY <1>1, <1>2 DEF Slot, SlotsOf

LEMMA FlushKeeps ==
    ASSUME PlacesInv, NEW c \in Ctxs, NEW t \in Targets, Flush(c, t)
    PROVE  PlacesInv'
<1> USE DEF PlacesInv
<1>1. PICK s \in Slot(t), sent \in BOOLEAN :
          /\ eot' = [eot EXCEPT ![s] = [target |-> t,
                                        fence |-> IF sent THEN Last + 1 ELSE @.fence]]
          /\ neot' = IF SlotsOf(t) # {} THEN neot
                     ELSE IF neot + 1 < 2 * MaxEot THEN neot + 1 ELSE neot + 1 - MaxEot
          /\ queue' = IF sent THEN Append(queue, [draws |-> gathered[c], slot |-> s, target |-> t])
                      ELSE queue
  BY DEF Flush
<1>2. /\ gathered' = [gathered EXCEPT ![c] = {}] /\ flushed' = flushed \cup {c}
      /\ UNCHANGED <<code, at, heap, retired, buried>>
  BY DEF Flush
<1>3. s \in 0..MaxEot - 1 /\ (eot[s].target = t \/ eot[s].fence = 0)
  BY SlotIsFree
<1>4. Last \in Nat /\ queue \in Seq(Renders) /\ eot[s].fence \in Nat
  BY <1>3 DEF PlacesTypes, Last
<1> DEFINE new == [draws |-> gathered[c], slot |-> s, target |-> t]
<1>5. new \in Renders
  BY <1>3 DEF Renders, PlacesTypes
<1>6. /\ queue' \in Seq(Renders)
      /\ \A i \in DOMAIN queue' : \/ i \in DOMAIN queue /\ queue'[i] = queue[i]
                                  \/ sent /\ i = Last + 1 /\ queue'[i] = new
  BY <1>1, <1>4, <1>5 DEF Last
<1>7. PlacesTypes'
  <2>1. eot' \in [0..MaxEot - 1 -> [target : Targets \cup {Vacant}, fence : Nat]]
    BY <1>1, <1>3, <1>4 DEF PlacesTypes
  <2>2. neot' \in Nat
    BY <1>1, PlacesConstants DEF PlacesTypes
  <2> QED
    BY <1>2, <1>6, <2>1, <2>2 DEF PlacesTypes
<1>8. GatheredStay'
  BY <1>2 DEF GatheredStay, PlacesTypes
<1>9. QueuedStay'
  <2> SUFFICES ASSUME NEW i \in DOMAIN queue', NEW d \in queue'[i].draws
               PROVE  /\ code[d.place] = d.prog
                      /\ \/ at[d.prog] = d.place
                         \/ \E r \in retired : r.place = d.place /\ i <= r.fence
    BY <1>2 DEF QueuedStay
  <2>1. CASE i \in DOMAIN queue /\ queue'[i] = queue[i]
    BY <2>1 DEF QueuedStay
  <2>2. CASE queue'[i] = new
    <3>1. d \in gathered[c] /\ d.prog \in Progs /\ d.place \in Places
      BY <2>2 DEF PlacesTypes, Drawn
    <3>2. at[d.prog] = d.place
      BY <3>1 DEF GatheredStay
    <3> QED
      BY <3>1, <3>2, PlacesConstants DEF OneHolder
  <2> QED
    BY <1>6, <2>1, <2>2
<1>10. SlotsWait'
  <2> SUFFICES ASSUME NEW i \in DOMAIN queue'
               PROVE  /\ eot'[queue'[i].slot].target = queue'[i].target
                      /\ i <= eot'[queue'[i].slot].fence
    BY DEF SlotsWait
  <2>1. /\ \A z \in 0..MaxEot - 1 : z # s => eot'[z] = eot[z]
        /\ eot'[s].target = t
        /\ eot'[s].fence = IF sent THEN Last + 1 ELSE eot[s].fence
    BY <1>1, <1>3 DEF PlacesTypes
  <2>2. CASE i \in DOMAIN queue /\ queue'[i] = queue[i]
    <3>1. /\ queue[i].slot \in 0..MaxEot - 1 /\ i \in 1..Last
          /\ eot[queue[i].slot].target = queue[i].target
          /\ i <= eot[queue[i].slot].fence
      BY <2>2, QueueTypes DEF SlotsWait, Renders
    <3>2. CASE queue[i].slot # s
      BY <2>1, <2>2, <3>1, <3>2
    <3>3. CASE queue[i].slot = s
      <4>1. eot[s].target = t
        BY <1>3, <1>4, <3>1, <3>3
      <4> QED
        BY <1>4, <2>1, <2>2, <3>1, <3>3, <4>1
    <3> QED
      BY <3>2, <3>3
  <2>3. CASE sent /\ i = Last + 1 /\ queue'[i] = new
    BY <1>4, <2>1, <2>3
  <2> QED
    BY <1>6, <2>2, <2>3
<1> QED
  BY <1>2, <1>7, <1>8, <1>9, <1>10 DEF OneHolder

(* A render is done: each of those left is one place nearer, and so is     *)
(* every fence.                                                            *)
LEMMA RenderDoneKeeps ==
    ASSUME PlacesInv, RenderDone
    PROVE  PlacesInv'
<1> USE DEF PlacesInv
<1>1. /\ queue # <<>> /\ queue' = Tail(queue)
      /\ retired' = {[r EXCEPT !.fence = Sooner(@)] : r \in retired}
      /\ eot' = [s \in DOMAIN eot |-> [eot[s] EXCEPT !.fence = Sooner(@)]]
      /\ UNCHANGED <<code, at, heap, gathered, buried, flushed, neot>>
  BY DEF RenderDone
<1>2. queue \in Seq(Renders) /\ queue' \in Seq(Renders)
  BY <1>1 DEF PlacesTypes
<1>3. \A i \in DOMAIN queue' : i \in Nat /\ i + 1 \in DOMAIN queue /\ queue'[i] = queue[i + 1]
  BY <1>1, <1>2
<1>4. \A n \in Nat : Sooner(n) \in Nat /\ \A i \in Nat : i + 1 <= n => i <= Sooner(n)
  BY DEF Sooner
<1>5. retired \in SUBSET [place : Places, fence : Nat]
  BY DEF PlacesTypes
<1>6a. \A r \in retired : /\ [r EXCEPT !.fence = Sooner(@)] \in [place : Places, fence : Nat]
                          /\ [r EXCEPT !.fence = Sooner(@)].place = r.place
                          /\ [r EXCEPT !.fence = Sooner(@)].fence = Sooner(r.fence)
  BY <1>4, <1>5
<1>6b. \A r \in retired : [r EXCEPT !.fence = Sooner(@)] \in retired'
  BY <1>1
<1>6c. \A s \in retired' : \E r \in retired : s = [r EXCEPT !.fence = Sooner(@)]
  BY <1>1
<1>6. /\ \A r \in retired : \E s \in retired' : s.place = r.place /\ s.fence = Sooner(r.fence)
      /\ \A s \in retired' : /\ s \in [place : Places, fence : Nat]
                             /\ \E r \in retired : s = [r EXCEPT !.fence = Sooner(@)]
                                                   /\ s.place = r.place
  <2>1. \A r \in retired : \E s \in retired' : s.place = r.place /\ s.fence = Sooner(r.fence)
    BY <1>6a, <1>6b
  <2>2. \A s \in retired' : /\ s \in [place : Places, fence : Nat]
                            /\ \E r \in retired : s = [r EXCEPT !.fence = Sooner(@)]
                                                  /\ s.place = r.place
    BY <1>6a, <1>6c
  <2> QED
    BY <2>1, <2>2
<1>7. /\ eot' \in [0..MaxEot - 1 -> [target : Targets \cup {Vacant}, fence : Nat]]
      /\ \A s \in 0..MaxEot - 1 : /\ eot'[s].target = eot[s].target
                                  /\ eot'[s].fence = Sooner(eot[s].fence)
                                  /\ eot[s].fence \in Nat
  BY <1>1, <1>4 DEF PlacesTypes
<1>8. PlacesTypes'
  BY <1>1, <1>2, <1>6, <1>7 DEF PlacesTypes
<1>9. OneHolder'
  <2>1. \A r \in retired' : r.place \notin heap /\ \A p \in Progs : at[p] # r.place
    BY <1>6 DEF OneHolder
  <2>2. \A r, s \in retired' : r.place = s.place => r = s
    BY <1>6 DEF OneHolder
  <2> QED
    BY <1>1, <2>1, <2>2 DEF OneHolder
<1>10. QueuedStay'
  <2> SUFFICES ASSUME NEW i \in DOMAIN queue', NEW d \in queue'[i].draws
               PROVE  /\ code[d.place] = d.prog
                      /\ \/ at[d.prog] = d.place
                         \/ \E r \in retired' : r.place = d.place /\ i <= r.fence
    BY <1>1 DEF QueuedStay
  <2>1. i \in Nat /\ i + 1 \in DOMAIN queue /\ d \in queue[i + 1].draws
    BY <1>3
  <2>2. CASE at[d.prog] = d.place
    BY <2>1, <2>2 DEF QueuedStay
  <2>3. CASE \E r \in retired : r.place = d.place /\ i + 1 <= r.fence
    <3>1. PICK r \in retired : r.place = d.place /\ i + 1 <= r.fence
      BY <2>3
    <3>2. PICK s \in retired' : s.place = d.place /\ s.fence = Sooner(r.fence)
      BY <1>6, <3>1
    <3>3. i <= s.fence
      BY <1>4, <1>5, <2>1, <3>1, <3>2
    <3> QED
      BY <2>1, <3>2, <3>3 DEF QueuedStay
  <2> QED
    BY <2>1, <2>2, <2>3 DEF QueuedStay
<1>11. SlotsWait'
  <2> SUFFICES ASSUME NEW i \in DOMAIN queue'
               PROVE  /\ eot'[queue'[i].slot].target = queue'[i].target
                      /\ i <= eot'[queue'[i].slot].fence
    BY DEF SlotsWait
  <2>1. i \in Nat /\ i + 1 \in DOMAIN queue /\ queue'[i] = queue[i + 1]
    BY <1>3
  <2>2. /\ queue[i + 1].slot \in 0..MaxEot - 1
        /\ eot[queue[i + 1].slot].target = queue[i + 1].target
        /\ i + 1 <= eot[queue[i + 1].slot].fence
    BY <2>1, QueueTypes DEF SlotsWait, Renders
  <2> QED
    BY <1>4, <1>7, <2>1, <2>2
<1> QED
  BY <1>1, <1>8, <1>9, <1>10, <1>11 DEF GatheredStay

-----------------------------------------------------------------------------
(* The invariant of the places: a place has one holder, what is gathered   *)
(* has not moved, and what is queued waits for its render (sgx_frame.c).   *)
THEOREM PlacesInvariance == PlacesSpec => []PlacesInv
<1>1. PlacesInv /\ UNCHANGED placesVars => PlacesInv'
  BY DEF placesVars, PlacesInv, PlacesTypes, OneHolder, GatheredStay, QueuedStay, SlotsWait
<1>2. PlacesInv /\ PlacesNext => PlacesInv'
  BY DrawKeeps, BuryKeeps, FlushKeeps, FlushBuriesKeeps, RenderDoneKeeps DEF PlacesNext
<1> QED
  BY PlacesStart, <1>1, <1>2, PTL DEF PlacesSpec

(* A program's code is not written over while a gathered draw, or a render *)
(* that is not done, runs it (bury, retire, reclaim, place_program).       *)
THEOREM CodeStaysThere == PlacesSpec => []CodeStays
<1>1. ASSUME PlacesInv,
             NEW d \in (UNION {gathered[c] : c \in Ctxs})
                          \cup (UNION {queue[i].draws : i \in DOMAIN queue})
      PROVE  code[d.place] = d.prog
  <2>1. CASE \E i \in DOMAIN queue : d \in queue[i].draws
    BY <1>1, <2>1 DEF PlacesInv, QueuedStay
  <2>2. CASE \E c \in Ctxs : d \in gathered[c]
    <3>1. PICK c \in Ctxs : d \in gathered[c]
      BY <2>2
    <3>2. d \in Drawn /\ at[d.prog] = d.place
      BY <1>1, <3>1 DEF PlacesInv, PlacesTypes, GatheredStay
    <3>3. d.prog \in Progs /\ at[d.prog] # Vacant
      BY <3>2, PlacesConstants DEF Drawn
    <3> QED
      BY <1>1, <3>2, <3>3 DEF PlacesInv, OneHolder
  <2> QED
    BY <1>1, <2>1, <2>2
<1>2. PlacesInv => CodeStays
  BY <1>1 DEF CodeStays
<1> QED
  BY PlacesInvariance, <1>2, PTL

(* A render's end-of-tile program is its own target's until it is done,    *)
(* however few slots there are (eot_program).                              *)
THEOREM EotStaysThere == PlacesSpec => []EotStays
<1>1. PlacesInv => EotStays
  BY DEF PlacesInv, SlotsWait, EotStays
<1> QED
  BY PlacesInvariance, <1>1, PTL
-----------------------------------------------------------------------------
(* No place is lost: one that is not in the heap is a program's or         *)
(* retired; and no fence is behind the last render.                        *)
Held(l) == (\E p \in Progs : at[p] = l) \/ (\E r \in retired : r.place = l)
NoneLost ==
    /\ \A l \in Places \ heap : Held(l)
    /\ \A r \in retired : r.fence <= Last

LEMMA DrawLosesNone ==
    ASSUME PlacesInv, NoneLost, NEW p \in Progs, Draw(p)
    PROVE  NoneLost'
<1>1. queue' = queue /\ Last' = Last
  BY DEF Draw, Last
<1>2. CASE at[p] # Vacant
  <2>1. UNCHANGED <<at, heap, retired>>
    BY <1>2 DEF Draw
  <2> QED
    BY <1>1, <2>1 DEF NoneLost, Held
<1>3. CASE at[p] = Vacant
  <2>1. PICK l \in FreePlaces.free :
            /\ at' = [at EXCEPT ![p] = l]
            /\ heap' = FreePlaces.free \ {l}
            /\ retired' = FreePlaces.retired
    BY <1>3 DEF Draw
  <2>2. \A q \in Progs : at'[q] = IF q = p THEN l ELSE at[q]
    BY <2>1 DEF PlacesInv, PlacesTypes
  <2>3. /\ \A r \in retired' : r \in retired
        /\ \A m \in Places : m \notin FreePlaces.free =>
               m \notin heap /\ \A r \in retired : r.place = m => r \in retired'
    <3>1. CASE heap # {}
      BY <2>1, <3>1 DEF FreePlaces
    <3>2. CASE heap = {}
      <4> DEFINE back == IF Reclaimable # {} THEN Reclaimable
                         ELSE IF Last = 0 THEN retired ELSE {}
      <4>1. FreePlaces.free = {r.place : r \in back} /\ FreePlaces.retired = retired \ back
        BY <3>2 DEF FreePlaces
      <4> HIDE DEF back
      <4> QED
        BY <2>1, <3>2, <4>1
    <3> QED
      BY <3>1, <3>2
  <2>4. ASSUME NEW m \in Places, m \notin heap' PROVE Held(m)'
    <3>1. CASE m = l
      BY <2>2, <3>1 DEF Held
    <3>2. CASE m # l
      <4>1. m \notin FreePlaces.free
        BY <2>1, <2>4, <3>2
      <4>2. m \notin heap /\ \A r \in retired : r.place = m => r \in retired'
        BY <2>3, <4>1
      <4>3. CASE \E q \in Progs : at[q] = m
        <5>1. PICK q \in Progs : at[q] = m
          BY <4>3
        <5>2. q # p
          BY <1>3, <5>1, PlacesConstants
        <5> QED
          BY <2>2, <5>1, <5>2 DEF Held
      <4>4. CASE \E r \in retired : r.place = m
        BY <4>2, <4>4 DEF Held
      <4> QED
        BY <4>2, <4>3, <4>4 DEF NoneLost, Held
    <3> QED
      BY <3>1, <3>2
  <2> QED
    BY <1>1, <2>3, <2>4 DEF NoneLost
<1> QED
  BY <1>2, <1>3

LEMMA RetireLosesNone ==
    ASSUME PlacesInv, NoneLost, NEW ps \in SUBSET Progs, Retire(ps), UNCHANGED <<heap, queue>>
    PROVE  NoneLost'
<1> DEFINE new == {[place |-> at[p], fence |-> Last] : p \in {p \in ps : at[p] # Vacant}}
<1>1. retired' = retired \cup new /\ \A p \in Progs : at'[p] = IF p \in ps THEN Vacant ELSE at[p]
  BY DEF Retire
<1>2. \A p \in ps : at[p] # Vacant => [place |-> at[p], fence |-> Last] \in new
  OBVIOUS
<1>3. \A r \in new : r.fence = Last
  OBVIOUS
<1>4. Last' = Last /\ Last \in Nat
  BY DEF Last, PlacesInv, PlacesTypes
<1> HIDE DEF new
<1>5. ASSUME NEW m \in Places, m \notin heap PROVE Held(m)'
  <2>1. CASE \E r \in retired : r.place = m
    BY <1>1, <2>1 DEF Held
  <2>2. CASE \E q \in Progs : at[q] = m
    <3>1. PICK q \in Progs : at[q] = m
      BY <2>2
    <3>2. CASE q \in ps
      <4>1. [place |-> m, fence |-> Last] \in retired'
        BY <1>1, <1>2, <3>1, <3>2, PlacesConstants
      <4> QED
        BY <4>1 DEF Held
    <3>3. CASE q \notin ps
      BY <1>1, <3>1, <3>3 DEF Held
    <3> QED
      BY <3>2, <3>3
  <2> QED
    BY <1>5, <2>1, <2>2 DEF NoneLost, Held
<1>6. \A r \in retired' : r.fence <= Last
  BY <1>1, <1>3, <1>4 DEF NoneLost
<1> QED
  BY <1>4, <1>5, <1>6 DEF NoneLost

LEMMA BuryLosesNone ==
    ASSUME PlacesInv, NoneLost, NEW p \in Progs, Bury(p)
    PROVE  NoneLost'
<1> DEFINE c == Owner[p]
<1>1. c \in Ctxs /\ UNCHANGED <<heap, queue>>
  BY PlacesConstants DEF Bury
<1>2. CASE gathered[c] = {}
  <2>1. Retire(buried[c] \cup {p})
    BY <1>2 DEF Bury
  <2>2. buried[c] \cup {p} \in SUBSET Progs
    BY <1>1 DEF PlacesInv, PlacesTypes
  <2> QED
    BY <1>1, <2>1, <2>2, RetireLosesNone
<1>3. CASE gathered[c] # {}
  <2>1. UNCHANGED <<at, retired>>
    BY <1>3 DEF Bury
  <2> QED
    BY <1>1, <2>1 DEF NoneLost, Held, Last
<1> QED
  BY <1>2, <1>3

LEMMA FlushLosesNone ==
    ASSUME PlacesInv, NoneLost, NEW c \in Ctxs, NEW t \in Targets, Flush(c, t)
    PROVE  NoneLost'
<1>1. UNCHANGED <<at, heap, retired>>
  BY DEF Flush
<1>2. queue \in Seq(Renders) /\ retired \in SUBSET [place : Places, fence : Nat]
  BY DEF PlacesInv, PlacesTypes
<1>3. \E d : queue' = queue \/ queue' = Append(queue, d)
  BY DEF Flush
<1>4. PICK d : queue' = queue \/ queue' = Append(queue, d)
  BY <1>3
<1>5. Len(Append(queue, d)) = Len(queue) + 1 /\ Len(queue) \in Nat
  BY <1>2
<1>6. Last \in Nat /\ Last' \in Nat /\ Last <= Last'
  BY <1>4, <1>5 DEF Last
<1>7. \A r \in retired : r.fence \in Nat
  BY <1>2
<1>8. \A r \in retired : r.fence <= Last'
  BY <1>6, <1>7 DEF NoneLost
<1> QED
  BY <1>1, <1>8 DEF NoneLost, Held

LEMMA RenderDoneLosesNone ==
    ASSUME PlacesInv, NoneLost, RenderDone
    PROVE  NoneLost'
<1>1. /\ queue # <<>> /\ queue' = Tail(queue) /\ UNCHANGED <<at, heap>>
      /\ retired' = {[r EXCEPT !.fence = Sooner(@)] : r \in retired}
  BY DEF RenderDone
<1>2. queue \in Seq(Renders) /\ retired \in SUBSET [place : Places, fence : Nat]
  BY DEF PlacesInv, PlacesTypes
<1>3. Last \in Nat /\ Last > 0 /\ Last' = Last - 1
  BY <1>1, <1>2 DEF Last
<1>4. \A n \in Nat : n <= Last => Sooner(n) <= Last'
  BY <1>3 DEF Sooner
<1>5. \A r \in retired : /\ [r EXCEPT !.fence = Sooner(@)].place = r.place
                         /\ [r EXCEPT !.fence = Sooner(@)].fence = Sooner(r.fence)
                         /\ r.fence \in Nat
  BY <1>2
<1>6. \A r \in retired : [r EXCEPT !.fence = Sooner(@)] \in retired'
  BY <1>1
<1>7. \A s \in retired' : \E r \in retired : s = [r EXCEPT !.fence = Sooner(@)]
  BY <1>1
<1>8. \A l \in Places \ heap : Held(l)'
  BY <1>1, <1>5, <1>6 DEF NoneLost, Held
<1>9. \A s \in retired' : s.fence <= Last'
  <2>1. \A r \in retired : r.fence <= Last
    BY DEF NoneLost
  <2>2. \A r \in retired : Sooner(r.fence) <= Last'
    BY <1>4, <1>5, <2>1
  <2>3. ASSUME NEW s \in retired' PROVE s.fence <= Last'
    <3>1. PICK r \in retired : s = [r EXCEPT !.fence = Sooner(@)]
      BY <1>7
    <3>2. s.fence = Sooner(r.fence)
      BY <1>5, <3>1
    <3> QED
      BY <2>2, <3>2
  <2> QED
    BY <2>3
<1> QED
  BY <1>1, <1>8, <1>9 DEF NoneLost

(* No place of the heap is lost or had twice, and no fence waits for a     *)
(* render that was not sent (place_program, bury, reclaim).                *)
THEOREM PlacesTypeCorrect == PlacesSpec => []PlacesTypeOK
<1>1. PlacesInit => NoneLost
  BY DEF PlacesInit, NoneLost
<1>2. PlacesInv /\ NoneLost /\ UNCHANGED placesVars => NoneLost'
  BY DEF placesVars, NoneLost, Held, Last
<1>3. PlacesInv /\ NoneLost /\ PlacesNext => NoneLost'
  <2>1. ASSUME PlacesInv, NoneLost, NEW c \in Ctxs, FlushBuries(c) PROVE NoneLost'
    <3>1. buried[c] \in SUBSET Progs
      BY <2>1 DEF PlacesInv, PlacesTypes
    <3>2. Retire(buried[c]) /\ UNCHANGED <<heap, queue>>
      BY <2>1 DEF FlushBuries
    <3> QED
      BY <2>1, <3>1, <3>2, RetireLosesNone
  <2> QED
    BY <2>1, DrawLosesNone, BuryLosesNone, FlushLosesNone, RenderDoneLosesNone DEF PlacesNext
<1>4. PlacesInv /\ NoneLost => PlacesTypeOK
  <2> SUFFICES ASSUME PlacesInv, NoneLost PROVE PlacesTypeOK
    OBVIOUS
  <2>1. \A r \in retired : r.fence \in 0..Last
    BY DEF PlacesInv, PlacesTypes, NoneLost, Last
  <2>2. ASSUME NEW l \in Places
        PROVE  LET holders == {p \in Progs : at[p] = l} \cup {r \in retired : r.place = l}
               IN  IF l \in heap THEN holders = {} ELSE \E h \in holders : holders = {h}
    <3> DEFINE holders == {p \in Progs : at[p] = l} \cup {r \in retired : r.place = l}
    <3>1. /\ \A p, q \in Progs : at[p] = l /\ at[q] = l => p = q
          /\ \A p \in Progs : at[p] = l => l \notin heap
      BY PlacesConstants DEF PlacesInv, OneHolder
    <3>2. /\ \A r, s \in retired : r.place = l /\ s.place = l => r = s
          /\ \A r \in retired : r.place = l => l \notin heap /\ \A p \in Progs : at[p] # l
      BY DEF PlacesInv, OneHolder
    <3>3. ASSUME l \in heap PROVE holders = {}
      BY <3>1, <3>2, <3>3
    <3>4. ASSUME l \notin heap PROVE \E h \in holders : holders = {h}
      <4>1. \E h \in holders : TRUE
        BY <3>4 DEF NoneLost, Held
      <4>2. \A g, h \in holders : g = h
        BY <3>1, <3>2
      <4> HIDE DEF holders
      <4> QED
        BY <4>1, <4>2
    <3>5. IF l \in heap THEN holders = {} ELSE \E h \in holders : holders = {h}
      <4> HIDE DEF holders
      <4> QED
        BY <3>3, <3>4
    <3> QED
      BY <3>5
  <2>3. code \in [Places -> Progs \cup {Vacant}] /\ at \in [Progs -> Places \cup {Vacant}]
    BY DEF PlacesInv, PlacesTypes
  <2> QED
    BY <2>1, <2>2, <2>3 DEF PlacesTypeOK
<1> QED
  BY PlacesInvariance, <1>1, <1>2, <1>3, <1>4, PTL DEF PlacesSpec
=============================================================================
