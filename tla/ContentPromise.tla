--------------------------- MODULE ContentPromise ---------------------------
(***************************************************************************)
(* What the content service promises of the objects it keeps, without the  *)
(* service: uploads, scans, bindings, redactions, expiries and cleanups    *)
(* move an object only forward, a verdict and a binding are given once,    *)
(* and nothing is active without a verdict that allows reading.            *)
(***************************************************************************)
EXTENDS ContentObject

CONSTANT Contents

VARIABLE object

Init == object = [c \in Contents |-> Absent]

Successors(state) ==
  CASE state = "none" -> {"uploading"}
    [] state = "uploading" -> {"active", "orphaned"}
    [] state = "active" -> {"orphaned", "redacted", "expired"}
    [] state \in {"orphaned", "redacted", "expired"} -> {"deleted"}
    [] OTHER -> {}

(* One object from one state of the service to the next.                   *)
Moves(o, p) ==
  /\ p.state \in {o.state} \cup Successors(o.state)
  /\ p.state = "none" => p = o
  /\ o.scan # "pending" => p.scan = o.scan
  /\ p.state = "active" => AllowsRead(p.scan)
  /\ o.event # None => p.event = o.event
  /\ p.event # o.event => o.state = "active" /\ p.state = "active"
  /\ o.due => p.due

Next ==
  /\ object' \in [Contents -> Object]
  /\ \A c \in Contents : Moves(object[c], object'[c])

Spec == Init /\ [][Next]_object
=============================================================================
