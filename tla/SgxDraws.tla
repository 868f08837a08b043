------------------------------ MODULE SgxDraws ------------------------------
(***************************************************************************)
(* What a gallium driver promises of the buffers and textures that draws   *)
(* read: a render shows each of its draws the content the resource had     *)
(* when the draw was made, however late it runs and whatever is written    *)
(* since.  A write changes a resource at once and never waits for the GPU. *)
(*                                                                         *)
(* SgxBuffers is the driver that keeps the promise: its property           *)
(* DrawsKept says that it implements this specification.                   *)
(***************************************************************************)
EXTENDS Sequences

CONSTANTS Ctxs,    \* contexts
          Res,     \* buffers and textures
          Parts,   \* the parts a resource is written and read in
          Values   \* what a part may hold

VARIABLES content,   \* [Res -> [Parts -> Values]]
          gathered,  \* [Ctxs -> Seq of views], the draws of the next render
          sent,      \* Seq of Seq of views: the renders handed to the GPU
          shown      \* what the render that runs shows its draws (<<>>: none)

vars == <<content, gathered, sent, shown>>

(* What a draw sees of some parts of a resource. *)
View(r, parts) == [p \in parts |-> content[r][p]]

Init ==
    /\ content \in [Res -> [Parts -> Values]]
    /\ gathered = [c \in Ctxs |-> <<>>]
    /\ sent = <<>>
    /\ shown = <<>>

Change(r) ==
    /\ \E new \in [Parts -> Values] : content' = [content EXCEPT ![r] = new]
    /\ shown' = <<>>
    /\ UNCHANGED <<gathered, sent>>

Draw(c, r) ==
    /\ \E parts \in SUBSET Parts :
          gathered' = [gathered EXCEPT ![c] = Append(@, View(r, parts))]
    /\ shown' = <<>>
    /\ UNCHANGED <<content, sent>>

Send(c) ==
    /\ sent' = Append(sent, gathered[c])
    /\ gathered' = [gathered EXCEPT ![c] = <<>>]
    /\ shown' = <<>>
    /\ UNCHANGED content

(* The kernel refuses a render: its draws are lost. *)
Lose(c) ==
    /\ gathered' = [gathered EXCEPT ![c] = <<>>]
    /\ shown' = <<>>
    /\ UNCHANGED <<content, sent>>

Show ==
    /\ sent # <<>>
    /\ shown' = Head(sent)
    /\ sent' = Tail(sent)
    /\ UNCHANGED <<content, gathered>>

(* It is over. *)
Over == shown' = <<>> /\ UNCHANGED <<content, gathered, sent>>

Next ==
    \/ \E r \in Res : Change(r)
    \/ \E c \in Ctxs : Send(c) \/ Lose(c) \/ \E r \in Res : Draw(c, r)
    \/ Show \/ Over

Spec == Init /\ [][Next]_vars
=============================================================================
