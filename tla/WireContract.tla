---------------------------- MODULE WireContract ----------------------------
(***************************************************************************)
(* What every client of the SDK promises about one call of its wire        *)
(* contract, whatever its language: a call is put on the wire a bounded    *)
(* number of times, it spends at most one credential exchange, the server  *)
(* acts at most once per transmission (possibly after the client has given *)
(* up on it), and a call that reports success was acted upon.              *)
(*                                                                         *)
(* GoTransport, TsTransport and PyTransport are shown to implement it, each *)
(* with its own Budget.                                                    *)
(***************************************************************************)
EXTENDS Naturals

CONSTANTS
  Calls,    (* the calls an application makes                              *)
  Budget    (* how many times one call may be transmitted, a natural number *)

VARIABLES
  phase,      (* "idle", "open" or "closed", per call                      *)
  sends,      (* transmissions of the call                                 *)
  effects,    (* times the server acted on it                              *)
  exchanges,  (* credential exchanges it triggered                         *)
  outcome     (* what the caller was told                                  *)

vars == <<phase, sends, effects, exchanges, outcome>>

Outcome == {"none", "success", "failure"}

TypeOK ==
  /\ phase \in [Calls -> {"idle", "open", "closed"}]
  /\ sends \in [Calls -> 0..Budget]
  /\ effects \in [Calls -> 0..Budget]
  /\ exchanges \in [Calls -> 0..1]
  /\ outcome \in [Calls -> Outcome]

Init ==
  /\ phase = [c \in Calls |-> "idle"]
  /\ sends = [c \in Calls |-> 0]
  /\ effects = [c \in Calls |-> 0]
  /\ exchanges = [c \in Calls |-> 0]
  /\ outcome = [c \in Calls |-> "none"]

Begin(c) ==
  /\ phase[c] = "idle"
  /\ phase' = [phase EXCEPT ![c] = "open"]
  /\ UNCHANGED <<sends, effects, exchanges, outcome>>

\* The first transmission may be the first that is seen of a call.
Send(c) ==
  /\ phase[c] # "closed"
  /\ sends[c] < Budget
  /\ sends' = [sends EXCEPT ![c] = @ + 1]
  /\ phase' = [phase EXCEPT ![c] = "open"]
  /\ UNCHANGED <<effects, exchanges, outcome>>

Effect(c) ==
  /\ effects[c] < sends[c]
  /\ effects' = [effects EXCEPT ![c] = @ + 1]
  /\ UNCHANGED <<phase, sends, exchanges, outcome>>

Exchange(c) ==
  /\ phase[c] = "open"
  /\ exchanges[c] = 0
  /\ exchanges' = [exchanges EXCEPT ![c] = @ + 1]
  /\ UNCHANGED <<phase, sends, effects, outcome>>

Return(c) ==
  /\ phase[c] # "closed"
  /\ phase' = [phase EXCEPT ![c] = "closed"]
  /\ \E o \in {"success", "failure"} :
        /\ o = "success" => phase[c] = "open" /\ effects[c] > 0
        /\ outcome' = [outcome EXCEPT ![c] = o]
  /\ UNCHANGED <<sends, effects, exchanges>>

Next ==
  \E c \in Calls : Begin(c) \/ Send(c) \/ Effect(c) \/ Exchange(c) \/ Return(c)

Spec == Init /\ [][Next]_vars
=============================================================================
