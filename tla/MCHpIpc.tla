------------------------------- MODULE MCHpIpc -------------------------------
(* hp-ipc with two connections, three descriptors and three packs.         *)
EXTENDS HpIpc

(* What the run leaves out of the product of the three parts: packs are    *)
(* saved while clients are orderly; the second connection comes while main *)
(* waits for its keys, and one pack at most is saved for it; main does not *)
(* exit while the second packet of a pack is due; of several packs only    *)
(* the first has two packets, and the client's thread is in recv and       *)
(* leaves no socket open; no part fails to stop once a client was there;   *)
(* and a signal does not end the process once a pack was saved.            *)
Window ==
  /\ accepted > 1 => main.what = "run" /\ getter = "frame"
  /\ packed > 0 \/ enc.pc # "idle" => Orderly /\ (main.what = "run" \/ left < 2)
  /\ packed > 1 => /\ main.what = "run" /\ left < 2 /\ disorder = {}
                   /\ \/ accepted = 1 /\ thread[1].pc = "recv"
                      \/ accepted = 2 /\ packed = 2 /\ thread[2].pc \in {"none", "recv"}
  /\ main.what # "run" => accepted = 0 \/ ~stuck
  /\ crashed => packed = 0

=============================================================================
