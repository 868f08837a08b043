----------------------------- MODULE SgxPlaces -----------------------------
(***************************************************************************)
(* Mesa's SGX driver: the places of programs in the GPU's memory, which    *)
(* all contexts share (struct sgx_frame, under frame_lock).                *)
(* Source: devices/a5/mesa/files/src/gallium/drivers/sgx/ (sgx_frame.c,    *)
(* sgx_draw.c).                                                            *)
(*                                                                         *)
(* A shader's program is put in a place of the heap at its first draw.     *)
(* One the application deletes is buried: its place is retired when no     *)
(* gathered draw uses it and free when the renders sent by then are done.  *)
(* Each render target's end-of-tile program has a slot, the oldest written *)
(* over when there are no more.  Renders run in their order; a wait for    *)
(* one is a step that is not enabled before.                               *)
(***************************************************************************)
EXTENDS Naturals, Sequences

CONSTANTS
    Ctxs,      \* contexts
    Progs,     \* programs
    Owner,     \* [Progs -> Ctxs]: shaders are not shared (shareable_shaders)
    Places,    \* what the heap has room for
    Targets,   \* render targets, as an end-of-tile program names them
    MaxEot,    \* max_eot, the end-of-tile slots
    MaxQueued, \* MAX_QUEUED
    Vacant

ASSUME PlacesConstants ==
    /\ Owner \in [Progs -> Ctxs] /\ Vacant \notin Places \cup Progs \cup Targets
    /\ MaxEot \in Nat \ {0} /\ MaxQueued \in Nat \ {0}

VARIABLES
    code,      \* [Places -> the program there, or Vacant]
    at,        \* [Progs -> p->code_va: its place, or Vacant]
    heap,      \* the places code_vma has
    retired,   \* [place, fence]: fence a place in queue, 0 if that render is done
    gathered,  \* [Ctxs -> the programs of the gathered draws, where they are]
    buried,    \* [Ctxs -> the programs to bury]
    flushed,   \* contexts whose flush has not come to bury() yet
    eot,       \* the slots: [target, fence], in the order they were taken
    neot,      \* end-of-tile programs written (f->neot)
    queue      \* renders sent and not done: [draws, slot, target]

placesVars == <<code, at, heap, retired, gathered, buried, flushed, eot, neot, queue>>

PlacesInit ==
    /\ code = [l \in Places |-> Vacant]
    /\ at = [p \in Progs |-> Vacant]
    /\ heap = Places
    /\ retired = {}
    /\ gathered = [c \in Ctxs |-> {}]
    /\ buried = [c \in Ctxs |-> {}]
    /\ flushed = {}
    /\ eot = [s \in 0..MaxEot - 1 |-> [target |-> Vacant, fence |-> 0]]
    /\ neot = 0
    /\ queue = <<>>

Last == Len(queue)      \* f->last

-----------------------------------------------------------------------------
(* reclaim(f, false), and reclaim(f, true) once the last render is done.   *)
AllRetired == retired                                                \* mutant
Reclaimable == {r \in retired : r.fence = 0}

(* place_program: a free place; else those whose renders are done; else    *)
(* all of them, after waiting for the last render.                         *)
FreePlaces ==
    IF heap # {} THEN [free |-> heap, retired |-> retired]
    ELSE LET back == IF Reclaimable # {} THEN Reclaimable
                     ELSE IF Last = 0 THEN retired ELSE {}
         IN  [free |-> {r.place : r \in back}, retired |-> retired \ back]

(* upload, sgx_frame_upload_vs, at a draw, which uses the program then.    *)
(* (No room at all: the draw is dropped, nothing changes.)                 *)
Use(p, l) == gathered' = [gathered EXCEPT ![Owner[p]] = @ \cup {[prog |-> p, place |-> l]}]

MayDraw(p) == p \notin buried[Owner[p]] /\ Owner[p] \notin flushed

Draw(p) ==
    /\ MayDraw(p)
    /\ IF at[p] # Vacant
       THEN Use(p, at[p]) /\ UNCHANGED <<code, at, heap, retired>>
       ELSE \E l \in FreePlaces.free :
               /\ code' = [code EXCEPT ![l] = p]
               /\ at' = [at EXCEPT ![p] = l]
               /\ heap' = FreePlaces.free \ {l}
               /\ retired' = FreePlaces.retired
               /\ Use(p, l)
    /\ UNCHANGED <<buried, flushed, eot, neot, queue>>

(* bury: the programs' places retired until the last render sent is done.  *)
(* (A program made again, by its name, is a new one.)                      *)
Retire(ps) ==
    /\ retired' = retired \cup {[place |-> at[p], fence |-> Last] : p \in {p \in ps : at[p] # Vacant}}
    /\ at' = [p \in Progs |-> IF p \in ps THEN Vacant ELSE at[p]]

(* sgx_batch_bury_fs, sgx_batch_bury_vs: the application deletes a shader, *)
(* or a variant makes room for another; at once if no draw is gathered.    *)
Bury(p) ==
    LET c == Owner[p]
    IN  /\ MayDraw(p) /\ at[p] # Vacant
        /\ IF gathered[c] = {}
           THEN Retire(buried[c] \cup {p}) /\ buried' = [buried EXCEPT ![c] = {}]
           ELSE buried' = [buried EXCEPT ![c] = @ \cup {p}] /\ UNCHANGED <<at, retired>>
        /\ UNCHANGED <<code, heap, gathered, flushed, eot, neot, queue>>

-----------------------------------------------------------------------------
(* eot_program: the target's slot, or the next one, once the last render   *)
(* of the target it had is done.                                           *)
SlotsOf(t) == {s \in DOMAIN eot : s < neot /\ eot[s].target = t}
NextSlot == neot % MaxEot

SlotAny(t) == IF SlotsOf(t) # {} THEN SlotsOf(t) ELSE {NextSlot}     \* mutant
Slot(t) ==
    IF SlotsOf(t) # {} THEN SlotsOf(t)
    ELSE {s \in {NextSlot} : eot[s].fence = 0}

(* sgx_frame_render in sgx_batch_flush_at, under frame_lock; the kernel    *)
(* may refuse it.  Bound: neot, which the modulus alone uses, past MaxEot. *)
Flush(c, t) ==
    /\ gathered[c] # {} /\ c \notin flushed /\ Last < MaxQueued
    /\ \E s \in Slot(t), sent \in BOOLEAN :
          /\ eot' = [eot EXCEPT ![s] = [target |-> t,
                                        fence |-> IF sent THEN Last + 1 ELSE @.fence]]
          /\ neot' = IF SlotsOf(t) # {} THEN neot
                     ELSE IF neot + 1 < 2 * MaxEot THEN neot + 1 ELSE neot + 1 - MaxEot
          /\ queue' = IF sent THEN Append(queue, [draws |-> gathered[c], slot |-> s, target |-> t])
                      ELSE queue
    /\ gathered' = [gathered EXCEPT ![c] = {}]
    /\ flushed' = flushed \cup {c}
    /\ UNCHANGED <<code, at, heap, retired, buried>>

(* ... and its bury(), after the lock was let go of and taken again.       *)
FlushBuries(c) ==
    /\ c \in flushed
    /\ Retire(buried[c])
    /\ buried' = [buried EXCEPT ![c] = {}]
    /\ flushed' = flushed \ {c}
    /\ UNCHANGED <<code, heap, gathered, eot, neot, queue>>

(* The first render of the queue is done, and its fences with it. *)
Sooner(n) == IF n = 0 THEN 0 ELSE n - 1
RenderDone ==
    /\ queue # <<>>
    /\ queue' = Tail(queue)
    /\ retired' = {[r EXCEPT !.fence = Sooner(@)] : r \in retired}
    /\ eot' = [s \in DOMAIN eot |-> [eot[s] EXCEPT !.fence = Sooner(@)]]
    /\ UNCHANGED <<code, at, heap, gathered, buried, flushed, neot>>

PlacesNext ==
    \/ \E p \in Progs : Draw(p) \/ Bury(p)
    \/ \E c \in Ctxs : FlushBuries(c) \/ \E t \in Targets : Flush(c, t)
    \/ RenderDone

PlacesSpec == PlacesInit /\ [][PlacesNext]_placesVars

-----------------------------------------------------------------------------
(* No place is lost or had twice: it is in the heap, a program's, or       *)
(* waiting for a render.                                                   *)
PlacesTypeOK ==
    /\ code \in [Places -> Progs \cup {Vacant}] /\ at \in [Progs -> Places \cup {Vacant}]
    /\ \A r \in retired : r.fence \in 0..Last
    /\ \A l \in Places :
          LET holders == {p \in Progs : at[p] = l} \cup {r \in retired : r.place = l}
          IN  IF l \in heap THEN holders = {} ELSE \E h \in holders : holders = {h}

(* A program stays where it is while a gathered draw or a render that is   *)
(* not done runs it: "its programs live until the gathered draws, which    *)
(* may use them, are rendered; then their places in GPU memory are free    *)
(* once the render is done" (sgx_context.c).                               *)
CodeStays ==
    \A d \in (UNION {gathered[c] : c \in Ctxs}) \cup (UNION {queue[i].draws : i \in DOMAIN queue}) :
        code[d.place] = d.prog

(* A render's end-of-tile program is its own target's until it is done.    *)
EotStays == \A i \in DOMAIN queue : eot[queue[i].slot].target = queue[i].target
=============================================================================
