--------------------------- MODULE NodeDiscovery ----------------------------
(***************************************************************************)
(* How a client finds the tenant node its node-scoped calls go to.  Four    *)
(* designs of one contract, by the client that has them:                    *)
(*   "typescript"  ensureNodeUrl, a promise shared by the callers           *)
(*   "python"      Client.ensure_node_url, threads that lock only to read   *)
(*                 and to store                                             *)
(*   "java"        ensureNodeUrl under the client's monitor (the C++ client *)
(*                 is the same code on one thread)                          *)
(*   "go"          no discovery: the URL is fixed when the client is built  *)
(*                 (Python's AsyncClient is of this kind)                   *)
(*                                                                         *)
(* A lookup is one call through the client's transport; that it returns is  *)
(* what GoTransport, TsTransport and PyTransport are about.                 *)
(***************************************************************************)
EXTENDS Naturals, Sequences

CONSTANTS
  Callers,     (* tasks or threads that make node-scoped calls             *)
  NoCaller,
  Direct,      (* callers of methods that do not resolve the node first    *)
  Rounds,      (* node-scoped calls each caller makes                      *)
  SDKs,        (* the designs to consider                                  *)
  Hosts,       (* addresses of nodes                                       *)
  Blank,       (* no address: an empty string, an unset URL                *)
  Absent,      (* the key is not in the record                             *)
  Control,     (* the control plane's URL                                  *)
  Given,       (* node URLs the client may be constructed with             *)
  Settable,    (* URLs the application passes to setNodeURL                *)
  Listings,    (* node listings the control plane may answer with          *)
  MaxEdits     (* bound: changes of listing, and of URL by setNodeURL      *)

Field == {"custom_domain_name", "load_balancer", "public_ip"}

Record == [is_default_node : BOOLEAN, url : Hosts \cup {Blank},
           address : [Field -> Hosts \cup {Blank, Absent}]]

ASSUME DiscoveryAssumption ==
  /\ NoCaller \notin Callers
  /\ Direct \subseteq Callers
  /\ Rounds \in Nat
  /\ MaxEdits \in Nat
  /\ SDKs \subseteq {"typescript", "python", "java", "go"}
  /\ {Blank, Absent, Control} \cap Hosts = {}
  /\ Control # Blank /\ Blank # Absent
  /\ Given \subseteq Hosts \cup {Blank}
  /\ Settable \subseteq Hosts
  /\ Listings \subseteq Seq(Record)

VARIABLES
  sdk,       (* the client's design                                        *)
  listing,   (* the control plane's node records                           *)
  nodeURL,   (* the client's node URL, Blank until it is known             *)
  leader,    (* the owner of nodeUrlPending, or of the monitor             *)
  pc,        (* where each caller is                                       *)
  round,     (* node-scoped calls it has begun                             *)
  answer,    (* the listing its lookup was answered with                   *)
  got,       (* the URL ensureNodeUrl returned to it                       *)
  target,    (* the base URL its last call was sent to                     *)
  edits,     (* changes of the listing so far                              *)
  sets,      (* calls of setNodeURL so far                                 *)
  given,     (* the URL the client was constructed with                    *)
  read,      (* history: listings the lookups were answered with           *)
  returned   (* history: URLs ensureNodeUrl has returned                   *)

clientVars == <<nodeURL, leader, round, got, target, returned>>
serverVars == <<listing, edits, answer, read>>
vars == <<sdk, listing, nodeURL, leader, pc, round, answer, got, target, edits,
          sets, given, read, returned>>

-----------------------------------------------------------------------------
(* Which record, and which of its addresses.                               *)

\* The order of the three address fields.
Preferred(address) ==
  LET ok(f) == address[f] \notin {Blank, Absent} IN
  IF ok("custom_domain_name") THEN address["custom_domain_name"]
  ELSE IF ok("load_balancer") THEN address["load_balancer"]
  ELSE IF ok("public_ip") THEN address["public_ip"]
  ELSE Blank

\* The bug of reading the flag under another name: it is never set.
FirstIndex(nodes) == 1

\* The first record marked as the default, or else the first record.
DefaultIndex(nodes) ==
  IF \E i \in DOMAIN nodes : nodes[i].is_default_node
  THEN CHOOSE i \in DOMAIN nodes :
         /\ nodes[i].is_default_node
         /\ \A j \in 1..(i - 1) : ~nodes[j].is_default_node
  ELSE 1

\* TypeScript takes the field `url` of a record without any of the three.
AddressOf(node) ==
  IF sdk = "typescript" /\ Preferred(node.address) = Blank
  THEN node.url ELSE Preferred(node.address)

\* The parsing clients read the addresses of that record.
PickRecord(nodes) ==
  IF nodes = <<>> THEN Blank ELSE AddressOf(nodes[DefaultIndex(nodes)])

\* Json.field on the text from record i on: the value of the first key found,
\* in whatever record that is.
ScanField(nodes, i, f) ==
  IF \E j \in i..Len(nodes) : nodes[j].address[f] # Absent
  THEN nodes[CHOOSE j \in i..Len(nodes) :
               /\ nodes[j].address[f] # Absent
               /\ \A k \in i..(j - 1) : nodes[k].address[f] = Absent].address[f]
  ELSE Blank

\* The text-scanning clients (Java, C++).
PickScan(nodes) ==
  Preferred([f \in Field |-> ScanField(nodes, DefaultIndex(nodes), f)])

Pick(nodes) == IF sdk = "java" THEN PickScan(nodes) ELSE PickRecord(nodes)

-----------------------------------------------------------------------------
(* Types and initial state.                                                *)

PC == {"idle", "wire", "answered", "wait", "stored", "got", "done"}

URL == Hosts \cup {Blank}

\* What each variable ranges over.
TypeOK ==
  /\ sdk \in SDKs
  /\ listing \in Listings
  /\ nodeURL \in URL
  /\ leader \in Callers \cup {NoCaller}
  /\ pc \in [Callers -> PC]
  /\ round \in [Callers -> 0..Rounds]
  /\ answer \in [Callers -> Listings]
  /\ got \in [Callers -> URL]
  /\ target \in [Callers -> URL \cup {Control}]
  /\ edits \in 0..MaxEdits
  /\ sets \in 0..MaxEdits
  /\ given \in Given
  /\ read \subseteq Listings
  /\ returned \subseteq URL

\* The URL given to the constructor, or loaded from the credentials file.
InitialURL == given

Init ==
  /\ sdk \in SDKs
  /\ listing \in Listings
  /\ given \in Given
  /\ nodeURL = InitialURL
  /\ leader = NoCaller
  /\ pc = [c \in Callers |-> "idle"]
  /\ round = [c \in Callers |-> 0]
  /\ answer = [c \in Callers |-> listing]
  /\ got = [c \in Callers |-> Blank]
  /\ target = [c \in Callers |-> Blank]
  /\ edits = 0
  /\ sets = 0
  /\ read = {}
  /\ returned = {}

-----------------------------------------------------------------------------
(* The callers.                                                            *)

\* The node-scoped call of c is over, with or without having been sent.
EndOfCall(c) == IF round[c] < Rounds THEN "idle" ELSE "done"

Starts(c) ==
  /\ pc[c] = "idle" /\ round[c] < Rounds
  /\ round' = [round EXCEPT ![c] = @ + 1]

\* The base URL of a node-scoped path.
BaseURL == IF sdk = "typescript" /\ nodeURL = Blank THEN Control ELSE nodeURL

\* Methods that use the URL as it is; Java resolves it in every call.
DirectCall(c) == c \in Direct /\ sdk # "java"

SendDirect(c) ==
  /\ DirectCall(c)
  /\ Starts(c)
  /\ target' = [target EXCEPT ![c] = BaseURL]
  /\ pc' = [pc EXCEPT ![c] = IF round[c] + 1 < Rounds THEN "idle" ELSE "done"]
  /\ UNCHANGED <<sdk, serverVars, nodeURL, leader, got, returned, sets, given>>

\* The bug of starting a lookup without looking for one in flight.
Alone == TRUE

\* Java's monitor is free, or TypeScript's nodeUrlPending unset; nothing keeps
\* the other clients' callers apart.
NonePending == sdk \in {"typescript", "java"} => leader = NoCaller

\* The URL is known: no lookup.
Cached(c) ==
  /\ ~DirectCall(c)
  /\ nodeURL # Blank
  /\ sdk = "java" => NonePending
  /\ Starts(c)
  /\ got' = [got EXCEPT ![c] = nodeURL]
  /\ returned' = returned \cup {nodeURL}
  /\ pc' = [pc EXCEPT ![c] = "got"]
  /\ UNCHANGED <<sdk, serverVars, nodeURL, leader, target, sets, given>>

\* The lookup is sent; it is pending, or the monitor held, until it returns.
Lookup(c) ==
  /\ ~DirectCall(c)
  /\ nodeURL = Blank /\ sdk # "go"
  /\ NonePending
  /\ Starts(c)
  /\ leader' = IF sdk = "python" THEN leader ELSE c
  /\ pc' = [pc EXCEPT ![c] = "wire"]
  /\ UNCHANGED <<sdk, serverVars, nodeURL, got, target, returned, sets, given>>

\* The promise in flight is awaited.
Join(c) ==
  /\ ~DirectCall(c)
  /\ nodeURL = Blank /\ sdk = "typescript"
  /\ ~NonePending
  /\ Starts(c)
  /\ pc' = [pc EXCEPT ![c] = "wait"]
  /\ UNCHANGED <<sdk, serverVars, nodeURL, leader, got, target, returned, sets, given>>

\* GetWorkerHealth without a node URL is an error; nothing is sent.
Refuse(c) ==
  /\ ~DirectCall(c)
  /\ nodeURL = Blank /\ sdk = "go"
  /\ Starts(c)
  /\ pc' = [pc EXCEPT ![c] = IF round[c] + 1 < Rounds THEN "idle" ELSE "done"]
  /\ UNCHANGED <<sdk, serverVars, nodeURL, leader, got, target, returned, sets, given>>

\* External: the control plane answers with the records as they are now.
Answer(c) ==
  /\ pc[c] = "wire"
  /\ answer' = [answer EXCEPT ![c] = listing]
  /\ read' = read \cup {listing}
  /\ pc' = [pc EXCEPT ![c] = "answered"]
  /\ UNCHANGED <<sdk, listing, edits, clientVars, sets, given>>

\* The callers that await the lookup of c.
Party(c) == {c} \cup {d \in Callers : pc[d] = "wait"}

\* The bug of a promise that is kept when it is rejected.
KeepsLeader(c) == leader

\* finally, or the end of the synchronized method.
LeaderAfter(c) == IF sdk = "python" THEN leader ELSE NoCaller

\* The call fails, or there is no record, or none with an address: every caller
\* that awaits it gets the error, and the next one looks up again.
LookupFails(c) ==
  /\ pc[c] \in {"wire", "answered"}
  /\ leader' = LeaderAfter(c)
  /\ pc' = [d \in Callers |-> IF d \in Party(c) THEN EndOfCall(d) ELSE pc[d]]
  /\ UNCHANGED <<sdk, serverVars, nodeURL, round, got, target, returned, sets, given>>

\* The address is stored and, but for Python, returned to all who await it.
Resolve(c) ==
  LET url == Pick(answer[c]) IN
  /\ pc[c] = "answered" /\ url # Blank
  /\ nodeURL' = url
  /\ leader' = LeaderAfter(c)
  /\ IF sdk = "python"
     THEN /\ pc' = [pc EXCEPT ![c] = "stored"]
          /\ UNCHANGED <<got, returned>>
     ELSE /\ pc' = [d \in Callers |-> IF d \in Party(c) THEN "got" ELSE pc[d]]
          /\ got' = [d \in Callers |-> IF d \in Party(c) THEN url ELSE got[d]]
          /\ returned' = returned \cup {url}
  /\ UNCHANGED <<sdk, serverVars, round, target, sets, given>>

\* return self.node_url, after the lock is released.
ReturnStored(c) ==
  /\ pc[c] = "stored"
  /\ got' = [got EXCEPT ![c] = nodeURL]
  /\ returned' = returned \cup {nodeURL}
  /\ pc' = [pc EXCEPT ![c] = "got"]
  /\ UNCHANGED <<sdk, serverVars, nodeURL, leader, round, target, sets, given>>

\* The URL is read again, not taken from ensureNodeUrl.
Send(c) ==
  /\ pc[c] = "got"
  /\ target' = [target EXCEPT ![c] = BaseURL]
  /\ pc' = [pc EXCEPT ![c] = EndOfCall(c)]
  /\ UNCHANGED <<sdk, serverVars, nodeURL, leader, round, got, returned, sets, given>>

-----------------------------------------------------------------------------
(* The application and the account.                                        *)

\* VxCloud.setNodeURL, between two steps of the event loop.
SetNodeURL(url) ==
  /\ sdk = "typescript" /\ sets < MaxEdits
  /\ nodeURL' = url
  /\ sets' = sets + 1
  /\ UNCHANGED <<sdk, serverVars, leader, pc, round, got, target, returned, given>>

\* A node is added, removed or made the default.
Relist(nodes) ==
  /\ edits < MaxEdits /\ nodes # listing
  /\ listing' = nodes
  /\ edits' = edits + 1
  /\ UNCHANGED <<sdk, clientVars, pc, answer, read, sets, given>>

ClientStep(c) ==
  \/ SendDirect(c) \/ Cached(c) \/ Lookup(c) \/ Join(c) \/ Refuse(c)
  \/ ReturnStored(c) \/ Send(c)

LookupStep(c) == Answer(c) \/ LookupFails(c) \/ Resolve(c)

Next ==
  \/ \E c \in Callers : ClientStep(c) \/ LookupStep(c)
  \/ \E url \in Settable : SetNodeURL(url)
  \/ \E nodes \in Listings : Relist(nodes)

Spec == Init /\ [][Next]_vars

\* A lookup returns, with an answer or an error: it is a call of the transport.
FairSpec ==
  Spec /\ \A c \in Callers : WF_vars(ClientStep(c)) /\ WF_vars(LookupStep(c))

-----------------------------------------------------------------------------
(* Properties.                                                             *)

\* Callers of ensureNodeUrl share one lookup (client.ts: they "must not each
\* fire their own"), and nobody waits for a lookup that is over.
OneLookup ==
  sdk \in {"typescript", "java"} =>
    \A c \in Callers :
      /\ pc[c] \in {"wire", "answered"} <=> leader = c
      /\ pc[c] = "wait" => leader # NoCaller

\* Unless the application switches nodes, all callers of one client are sent to
\* one node, however often the account's default changes meanwhile.  Threads of
\* the Python client may disagree: each stores what its own lookup found.
OneNodeForAll ==
  sdk # "python" /\ sets = 0 => \A u, v \in returned : u = v

\* A node URL given to the constructor wins over discovery, for resolving and
\* direct calls alike: it is never even looked up.
GivenWins ==
  given # Blank /\ sets = 0 =>
    /\ read = {} /\ returned \subseteq {given}
    /\ \A c \in Callers : target[c] \in {Blank, given}

\* A record marked as the default, or the first record of a listing without.
IsTheDefault(nodes, i) ==
  \/ nodes[i].is_default_node
  \/ i = 1 /\ \A j \in DOMAIN nodes : ~nodes[j].is_default_node

\* The address adopted is the one of the record the control plane called the
\* default, in a listing it answered a lookup with.
FromDefault ==
  nodeURL # Blank /\ given = Blank /\ sets = 0 =>
    \E nodes \in read : \E i \in DOMAIN nodes :
      IsTheDefault(nodes, i) /\ nodeURL = AddressOf(nodes[i])

Complete(nodes) ==
  \A i \in DOMAIN nodes : \A f \in Field : nodes[i].address[f] # Absent

\* The parsing clients always adopt the default node; the scanning ones do so
\* when no record leaves an address key out.
AdoptsDefault ==
  (sdk = "java" => \A nodes \in read : Complete(nodes)) => FromDefault

\* A known URL changes only when the application sets another, by a TypeScript
\* lookup that was overtaken by setNodeURL, or by a Python thread whose lookup
\* another thread's overtook.
URLIsKept ==
  [][nodeURL # Blank /\ nodeURL' # nodeURL =>
       \/ sets' > sets
       \/ sdk = "typescript" /\ sets > 0 /\ leader # NoCaller
       \/ sdk = "python" /\ \E c \in Callers : pc[c] = "answered"]_vars

\* Every call returns, whether lookups fail or not: a failed one leaves no
\* pending promise and no held monitor behind.
EveryCallReturns == <>(\A c \in Callers : pc[c] = "done")

-----------------------------------------------------------------------------
(* The inductive invariant behind the theorems of NodeDiscoveryProofs.      *)

\* Only the design that has it uses a place to wait, or a second read.
DesignInv ==
  /\ sets > 0 => sdk = "typescript"
  /\ \A c \in Callers :
       /\ pc[c] = "wait" => sdk = "typescript"
       /\ pc[c] = "stored" => sdk = "python" /\ nodeURL # Blank
       /\ pc[c] \in {"wire", "answered"} => sdk # "go" /\ given = Blank

\* While nobody has called setNodeURL: a shared lookup is only in flight before
\* the URL is known, and what callers were told is what is stored.
SharedInv ==
  sdk # "python" /\ sets = 0 =>
    /\ nodeURL # Blank => \A c \in Callers : pc[c] \notin {"wire", "answered"}
    /\ returned \subseteq {nodeURL} \ {Blank}

\* What a lookup was answered with is on record; a given URL is in force.
ReadInv ==
  /\ \A c \in Callers : pc[c] = "answered" => answer[c] \in read
  /\ given # Blank => nodeURL # Blank /\ (sets = 0 => nodeURL = given)

\* The inductive invariant.
IInv == TypeOK /\ OneLookup /\ DesignInv /\ SharedInv /\ ReadInv /\ GivenWins

-----------------------------------------------------------------------------
(* The variant behind EveryCallReturns.                                    *)

\* How far a node-scoped call is from its end.
Place(l) ==
  IF l = "wire" THEN 4 ELSE IF l = "answered" THEN 3
  ELSE IF l \in {"wait", "stored"} THEN 2 ELSE IF l = "got" THEN 1 ELSE 0

\* The steps a caller can still take.
Work(c) == 5 * (Rounds - round[c]) + Place(pc[c])

WorkIsBounded == \A c \in Callers : Work(c) \in 0..(5 * Rounds)

\* Every move of a caller brings it nearer to its end, its own and the end of a
\* lookup it awaits, failed or not; nothing that others do sets it back.
WorkFalls ==
  [][\A c \in Callers :
       /\ Work(c)' <= Work(c)
       /\ pc'[c] # pc[c] \/ round'[c] # round[c] => Work(c)' < Work(c)]_vars

\* A caller that waits, waits for one that is on its way.
WaitIsServed ==
  \A c \in Callers :
    pc[c] = "wait" => \E d \in Callers : pc[d] \in {"wire", "answered"}

-----------------------------------------------------------------------------
(* What a comment says and the code does not do.                           *)

\* vxsdk.cpp: "Pick the default node (or the first) and read its address
\* field."
ScanFindsTheDefault == sdk = "java" => FromDefault
=============================================================================
