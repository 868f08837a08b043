---------------------------- MODULE MCSgxRender ----------------------------
(* Small instances of SgxRender for TLC. *)
EXTENDS SgxRender, TLC

CONSTANTS f1, f2, j1, j2, d1, kpbo, upb

OneFile == {f1}
TwoFiles == {f1, f2}
TwoJobs == {j1, j2}
TwoPbs == {kpbo, upb}
OneDet == {d1}

(* A client with the kernel's parameter buffer, and one with a buffer of   *)
(* its own, which waits for a page flip first.                             *)
MCShapes ==
    {[file |-> f1, pb |-> kpbo, det |-> d1, bos |-> {d1}, sync |-> FALSE],
     [file |-> f2, pb |-> upb, det |-> d1, bos |-> {d1}, sync |-> TRUE]}

(* One client, with either parameter buffer. *)
OneFileShapes ==
    [file : {f1}, pb : TwoPbs, det : {d1}, bos : {{d1}}, sync : {FALSE}]

(* Submissions are interchangeable. *)
JobSymmetry == Permutations(Jobs)

(* The starts are told apart by whether there was another since, and by    *)
(* the bound on debugfs: the model compares boots with nothing else.       *)
Boots == IF boots < MaxDebugBoots THEN boots ELSE MaxDebugBoots
View ==
    <<Boots, pb.serial, pb.boots = boots, kpb.img, kpb.boots = None, kpb.boots = boots,
      lock, boot_result, bootpc, bootwork, files, jobVars, stopped, run, tdr,
      active, watch, timer, polled, rekick, gpuVars>>
=============================================================================
