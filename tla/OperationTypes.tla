---------------------------- MODULE OperationTypes ----------------------------
(***************************************************************************)
(* What one operation of a Go resource client is, as a record.  A resource *)
(* client has no state of its own: each of its methods checks arguments,    *)
(* builds an address and a body, and hands them to the transport.  The      *)
(* tables (AgentControlOps, NodeOps, ControlPlaneOps) are sets of these    *)
(* records, and Operations is the machine that runs them.                  *)
(*                                                                         *)
(*   group, name  the sub-client and the method                             *)
(*   verb, path   the request; ":id" and ":sub" stand for arguments, and an *)
(*                address that ends in a slash ends in "".  When the body    *)
(*                names the action, the name is the last segment.           *)
(*   needs        the arguments the method refuses to do without            *)
(*   does         what the server does: nothing ("read"), "make" one more,  *)
(*                "set", "drop" it, "wipe" them all, bring it "up" or        *)
(*                "down", "act", do it "once" and say so when it is already   *)
(*                done, or answer a conflict then ("start")                  *)
(*   host         the tenant node or the control plane                      *)
(*   via          the transport method; "unread" is a JSON call that         *)
(*                discards its answer                                       *)
(*   names        the body carries the username the handle was made with    *)
(*   soft         a failure the server reports inside a 2xx is returned      *)
(*                with a nil error                                          *)
(***************************************************************************)
EXTENDS Sequences, SequencesExt

Holes == {":id", ":sub"}

Effects == {"read", "make", "set", "drop", "wipe", "up", "down", "act",
            "once", "start"}

Row(group, name, verb, path, needs, does) ==
  [group |-> group, name |-> name, verb |-> verb, path |-> path,
   needs |-> needs, does |-> does, host |-> "node", via |-> "json",
   names |-> FALSE, soft |-> FALSE]

\* The arguments an address is built from.
HolesOf(path) == ToSet(path) \cap Holes

Arguments(o) == o.needs \cup HolesOf(o.path)

\* The bug of a method without its `if id == ""`.
Unguarded(S) == S

\* if id == "" { return nil, errors.New("... is required") }, the first lines
\* of every method whose address holds an id.
Guarded(S) == {[o EXCEPT !.needs = Arguments(o)] : o \in S}

Needing(args, S) == {[o EXCEPT !.needs = @ \cup args] : o \in S}
Under(base, S) == {[o EXCEPT !.path = base \o @] : o \in S}
ControlPlane(S) == {[o EXCEPT !.host = "control"] : o \in S}
By(method, S) == {[o EXCEPT !.via = method] : o \in S}
NamesUser(S) == {[o EXCEPT !.names = TRUE] : o \in S}
SoftFailing(S) == {[o EXCEPT !.soft = TRUE] : o \in S}

\* The methods that parse their answer.  A nil `out` discards it, a download
\* takes the bytes that come, and a stream hands the open body on.
Decodes(o) == o.via \in {"json", "multipart"}

-----------------------------------------------------------------------------
(* Where a request goes when an argument of its address is empty.          *)

Collection(path) ==
  IF path # <<>> /\ Last(path) = "" THEN Front(path) ELSE path

\* An empty last argument leaves the address of the collection, which other
\* operations are served at; one in the middle leaves an address nobody has.
ServedInstead(o, ops) ==
  IF o.path # <<>> /\ Last(o.path) \in Holes
  THEN {q \in ops : q.verb = o.verb /\ q.host = o.host
                     /\ Collection(q.path) = Front(o.path)}
  ELSE {}
=============================================================================
