------------------------ MODULE NodeDiscoveryProofs -------------------------
(***************************************************************************)
(* Theorems about NodeDiscovery: type correctness, the shared lookup, one   *)
(* node for all callers, the precedence of a given URL, and the default     *)
(* node, for any number of callers, calls and listings.                    *)
(***************************************************************************)
EXTENDS NodeDiscovery, NaturalsInduction, WellFoundedInduction, TLAPS

-----------------------------------------------------------------------------
(* Picking a record.                                                       *)

\* A non-empty set of numbers has a least one.
LEMMA Least ==
  ASSUME NEW T \in SUBSET Nat, T # {}
  PROVE  \E m \in T : \A k \in T : m <= k
<1> DEFINE R == OpToRel(<, Nat)
<1>1. \A x, y \in Nat : x < y => <<x, y>> \in R
  BY Zenon DEF OpToRel
<1>2. IsWellFoundedOn(R, Nat)
  BY NatLessThanWellFounded
<1> HIDE DEF R
<1>3. PICK m \in T : \A k \in T : ~ (<<k, m>> \in R)
  BY <1>2, WFMin
<1>4. \A k \in T : ~ (k < m)
  BY Zenon, <1>1, <1>3
<1>5. \A k \in T : m <= k
  BY <1>4
<1> QED
  BY <1>5

\* The index picked is one of the default, or of the first record.
LEMMA DefaultIsListed ==
  ASSUME NEW nodes \in Seq(Record), nodes # <<>>
  PROVE  /\ DefaultIndex(nodes) \in 1..Len(nodes)
         /\ IsTheDefault(nodes, DefaultIndex(nodes))
<1> DEFINE T == {i \in DOMAIN nodes : nodes[i].is_default_node}
<1>1. Len(nodes) \in Nat /\ Len(nodes) >= 1 /\ DOMAIN nodes = 1..Len(nodes)
  OBVIOUS
<1>2. CASE T = {}
  BY <1>1, <1>2 DEF DefaultIndex, IsTheDefault
<1>3. CASE T # {}
  <2>1. PICK m \in T : \A k \in T : m <= k
    <3>1. T \in SUBSET Nat
      BY <1>1
    <3> HIDE DEF T
    <3> QED
      BY <3>1, <1>3, Least
  <2>2. /\ m \in DOMAIN nodes /\ nodes[m].is_default_node
        /\ \A j \in 1..(m - 1) : ~nodes[j].is_default_node
    <3>1. ASSUME NEW j \in 1..(m - 1), nodes[j].is_default_node PROVE FALSE
      <4>1. m \in 1..Len(nodes)
        BY <1>1
      <4>2. j \in 1..Len(nodes) /\ j < m
        BY <1>1, <4>1
      <4>3. j \in T
        BY <1>1, <3>1, <4>2
      <4> QED
        BY <1>1, <2>1, <4>2, <4>3
    <3> QED
      BY <2>1, <3>1
  <2> QED
    BY <1>1, <2>2 DEF DefaultIndex, IsTheDefault
<1> QED
  BY <1>2, <1>3

\* The value a scan finds is one a record has, or no address.
LEMMA ScanFinds ==
  ASSUME NEW nodes \in Seq(Record), NEW i \in 1..Len(nodes), NEW f \in Field
  PROVE  ScanField(nodes, i, f) \in Hosts \cup {Blank, Absent}
<1> DEFINE T == {j \in i..Len(nodes) : nodes[j].address[f] # Absent}
<1>1. Len(nodes) \in Nat /\ DOMAIN nodes = 1..Len(nodes) /\ i \in Nat /\ i >= 1
  OBVIOUS
<1>2. \A j \in i..Len(nodes) : nodes[j] \in Record
  BY <1>1
<1>3. \A j \in i..Len(nodes) : nodes[j].address[f] \in Hosts \cup {Blank, Absent}
  BY <1>2 DEF Record
<1>4. CASE T = {}
  BY <1>4 DEF ScanField
<1>5. CASE T # {}
  <2>1. PICK m \in T : \A k \in T : m <= k
    <3>1. T \in SUBSET Nat
      BY <1>1
    <3> HIDE DEF T
    <3> QED
      BY <3>1, <1>5, Least
  <2>2. /\ m \in i..Len(nodes) /\ nodes[m].address[f] # Absent
        /\ \A k \in i..(m - 1) : nodes[k].address[f] = Absent
    <3>1. ASSUME NEW k \in i..(m - 1), nodes[k].address[f] # Absent PROVE FALSE
      <4>1. m \in i..Len(nodes)
        OBVIOUS
      <4>2. k \in i..Len(nodes) /\ k < m
        BY <1>1, <4>1
      <4>3. k \in T
        BY <3>1, <4>2
      <4> QED
        BY <1>1, <2>1, <4>2, <4>3
    <3> QED
      BY <2>1, <3>1
  <2> QED
    BY <1>3, <2>2 DEF ScanField
<1> QED
  BY <1>4, <1>5

\* The preferred address is never a key that is not there.
LEMMA PreferredIsURL ==
  ASSUME NEW address \in [Field -> Hosts \cup {Blank, Absent}]
  PROVE  Preferred(address) \in URL
BY DEF Preferred, URL, Field

\* Whatever the listing, what is picked is an address or no address.
LEMMA PickIsURL ==
  ASSUME NEW nodes \in Listings
  PROVE  PickRecord(nodes) \in URL /\ PickScan(nodes) \in URL
<1>1. nodes \in Seq(Record)
  BY DiscoveryAssumption
<1>2. CASE nodes = <<>>
  <2>1. Len(nodes) = 0 /\ DOMAIN nodes = {} /\ 1..Len(nodes) = {}
    BY <1>2
  <2>2. DefaultIndex(nodes) = 1
    BY <2>1 DEF DefaultIndex
  <2>3. \A f \in Field : ScanField(nodes, 1, f) = Blank
    BY <2>1 DEF ScanField
  <2>4. [f \in Field |-> ScanField(nodes, DefaultIndex(nodes), f)]
           \in [Field -> Hosts \cup {Blank, Absent}]
    BY <2>2, <2>3
  <2>5. PickScan(nodes) \in URL
    BY <2>4, PreferredIsURL DEF PickScan
  <2> QED
    BY <1>2, <2>5 DEF PickRecord, URL
<1>3. CASE nodes # <<>>
  <2>1. DefaultIndex(nodes) \in 1..Len(nodes)
    BY <1>1, <1>3, DefaultIsListed
  <2>2. nodes[DefaultIndex(nodes)] \in Record
    BY <1>1, <2>1
  <2>3. nodes[DefaultIndex(nodes)].address \in [Field -> Hosts \cup {Blank, Absent}]
    BY <2>2 DEF Record
  <2>4. PickRecord(nodes) \in URL
    BY <1>3, <2>2, <2>3, PreferredIsURL DEF PickRecord, AddressOf, Record, URL
  <2>5. [f \in Field |-> ScanField(nodes, DefaultIndex(nodes), f)]
           \in [Field -> Hosts \cup {Blank, Absent}]
    BY <1>1, <2>1, ScanFinds
  <2>6. PickScan(nodes) \in URL
    BY <2>5, PreferredIsURL DEF PickScan
  <2> QED
    BY <2>4, <2>6
<1> QED
  BY <1>2, <1>3

\* On complete records a scan stays in the record it starts from, and the
\* scanning clients pick what the parsing ones do.
LEMMA ScanAgrees ==
  ASSUME NEW nodes \in Seq(Record), Complete(nodes), nodes # <<>>, sdk = "java"
  PROVE  PickScan(nodes) = PickRecord(nodes)
<1> DEFINE d == DefaultIndex(nodes)
<1>1. Len(nodes) \in Nat /\ DOMAIN nodes = 1..Len(nodes)
  OBVIOUS
<1>2. d \in 1..Len(nodes)
  BY DefaultIsListed
<1>3. ASSUME NEW f \in Field
      PROVE  ScanField(nodes, d, f) = nodes[d].address[f]
  <2> HIDE DEF d
  <2>1. d \in d..Len(nodes) /\ \A k \in d..(d - 1) : FALSE
    BY <1>1, <1>2
  <2>2. nodes[d].address[f] # Absent
    BY <1>1, <1>2 DEF Complete
  <2>3. ASSUME NEW j \in d..Len(nodes), j # d,
               \A k \in d..(j - 1) : nodes[k].address[f] = Absent
        PROVE  FALSE
    <3>1. d \in Nat /\ j \in Nat /\ d <= j
      BY <1>1, <1>2
    <3>2. d <= j - 1
      BY <2>3, <3>1
    <3>3. d \in d..(j - 1)
      BY <3>1, <3>2
    <3> QED
      BY <2>2, <2>3, <3>3
  <2>4. d = CHOOSE j \in d..Len(nodes) :
               /\ nodes[j].address[f] # Absent
               /\ \A k \in d..(j - 1) : nodes[k].address[f] = Absent
    BY <2>1, <2>2, <2>3
  <2>5. \E j \in d..Len(nodes) : nodes[j].address[f] # Absent
    BY <2>1, <2>2
  <2> QED
    BY <2>4, <2>5 DEF ScanField
<1>4. nodes[d] \in Record
  BY <1>1, <1>2
<1>5. [f \in Field |-> ScanField(nodes, d, f)] = nodes[d].address
  BY <1>3, <1>4 DEF Record
<1> QED
  BY <1>5 DEF PickScan, PickRecord, AddressOf

-----------------------------------------------------------------------------
(* Type correctness.                                                       *)

LEMMA InitTypeOK == Init => TypeOK
  BY DiscoveryAssumption DEF Init, TypeOK, InitialURL, URL, PC

LEMMA NextTypeOK == TypeOK /\ [Next]_vars => TypeOK'
<1> SUFFICES ASSUME TypeOK, [Next]_vars PROVE TypeOK'
  OBVIOUS
<1> USE DiscoveryAssumption
<1>1. ASSUME NEW c \in Callers, ClientStep(c) PROVE TypeOK'
  <2>1. BaseURL \in URL \cup {Control}
    BY DEF TypeOK, BaseURL, URL
  <2>2. CASE SendDirect(c)
    BY <2>1, <2>2 DEF TypeOK, SendDirect, Starts, PC, serverVars
  <2>3. CASE Cached(c)
    BY <2>3 DEF TypeOK, Cached, Starts, PC, serverVars
  <2>4. CASE Lookup(c)
    BY <2>4 DEF TypeOK, Lookup, Starts, PC, serverVars
  <2>5. CASE Join(c)
    BY <2>5 DEF TypeOK, Join, Starts, PC, serverVars
  <2>6. CASE Refuse(c)
    BY <2>6 DEF TypeOK, Refuse, Starts, PC, serverVars
  <2>7. CASE ReturnStored(c)
    BY <2>7 DEF TypeOK, ReturnStored, PC, serverVars
  <2>8. CASE Send(c)
    BY <2>1, <2>8 DEF TypeOK, Send, EndOfCall, PC, serverVars
  <2> QED
    BY <1>1, <2>2, <2>3, <2>4, <2>5, <2>6, <2>7, <2>8 DEF ClientStep
<1>2. ASSUME NEW c \in Callers, LookupStep(c) PROVE TypeOK'
  <2>1. CASE Answer(c)
    BY <2>1 DEF TypeOK, Answer, PC, clientVars
  <2>2. CASE LookupFails(c)
    BY <2>2 DEF TypeOK, LookupFails, LeaderAfter, EndOfCall, PC, serverVars
  <2>3. CASE Resolve(c)
    <3>1. Pick(answer[c]) \in URL
      BY PickIsURL DEF TypeOK, Pick
    <3> QED
      BY <2>3, <3>1 DEF TypeOK, Resolve, LeaderAfter, PC, serverVars
  <2> QED
    BY <1>2, <2>1, <2>2, <2>3 DEF LookupStep
<1>3. ASSUME NEW url \in Settable, SetNodeURL(url) PROVE TypeOK'
  BY <1>3 DEF TypeOK, SetNodeURL, URL, serverVars
<1>4. ASSUME NEW nodes \in Listings, Relist(nodes) PROVE TypeOK'
  BY <1>4 DEF TypeOK, Relist, clientVars
<1>5. CASE UNCHANGED vars
  BY <1>5 DEF TypeOK, vars
<1> QED
  BY <1>1, <1>2, <1>3, <1>4, <1>5 DEF Next

\* Every variable keeps its type; in particular no caller begins more calls
\* than it makes, and the URL is always a node's address or not known.
THEOREM TypeCorrect == Spec => []TypeOK
<1> QED
  BY InitTypeOK, NextTypeOK, PTL DEF Spec

-----------------------------------------------------------------------------
(* The inductive invariant.                                                *)

LEMMA InitIInv == Init => IInv
<1> SUFFICES ASSUME Init PROVE IInv
  OBVIOUS
<1> USE DiscoveryAssumption
<1>1. TypeOK
  BY InitTypeOK
<1>2. OneLookup /\ DesignInv /\ SharedInv /\ ReadInv /\ GivenWins
  BY DEF Init, InitialURL, OneLookup, DesignInv, SharedInv, ReadInv, GivenWins
<1> QED
  BY <1>1, <1>2 DEF IInv

\* What the invariant says besides the types.
Strong == OneLookup /\ DesignInv /\ SharedInv /\ ReadInv /\ GivenWins

LEMMA ClientStepStrong ==
  ASSUME TypeOK, Strong, NEW c \in Callers, ClientStep(c)
  PROVE  Strong'
<1> USE DiscoveryAssumption DEF Strong
<1>1. CASE SendDirect(c)
  BY <1>1 DEF TypeOK, SendDirect, Starts, BaseURL, OneLookup, DesignInv, SharedInv,
       ReadInv, GivenWins, serverVars
<1>2. CASE Cached(c)
  BY <1>2 DEF TypeOK, Cached, Starts, OneLookup, DesignInv, SharedInv,
       ReadInv, GivenWins, serverVars
<1>3. CASE Lookup(c)
  BY <1>3 DEF TypeOK, Lookup, Starts, NonePending, OneLookup, DesignInv, SharedInv,
       ReadInv, GivenWins, serverVars
<1>4. CASE Join(c)
  BY <1>4 DEF TypeOK, Join, Starts, NonePending, OneLookup, DesignInv, SharedInv,
       ReadInv, GivenWins, serverVars
<1>5. CASE Refuse(c)
  BY <1>5 DEF TypeOK, Refuse, Starts, OneLookup, DesignInv, SharedInv,
       ReadInv, GivenWins, serverVars
<1>6. CASE ReturnStored(c)
  BY <1>6 DEF TypeOK, ReturnStored, OneLookup, DesignInv, SharedInv,
       ReadInv, GivenWins, serverVars
<1>7. CASE Send(c)
  BY <1>7 DEF TypeOK, Send, EndOfCall, BaseURL, OneLookup, DesignInv, SharedInv,
       ReadInv, GivenWins, serverVars
<1> QED
  BY <1>1, <1>2, <1>3, <1>4, <1>5, <1>6, <1>7 DEF ClientStep

LEMMA LookupStepStrong ==
  ASSUME TypeOK, Strong, NEW c \in Callers, LookupStep(c)
  PROVE  Strong'
<1> USE DiscoveryAssumption DEF Strong
<1>1. CASE Answer(c)
  BY <1>1 DEF TypeOK, Answer, OneLookup, DesignInv, SharedInv, ReadInv, GivenWins,
       clientVars
<1>2. CASE LookupFails(c)
  BY <1>2 DEF TypeOK, LookupFails, LeaderAfter, EndOfCall, Party, OneLookup,
       DesignInv, SharedInv, ReadInv, GivenWins, serverVars
<1>3. CASE Resolve(c)
  <2>1. OneLookup'
    BY <1>3 DEF TypeOK, Resolve, LeaderAfter, Party, OneLookup, serverVars
  <2>2. DesignInv'
    BY <1>3 DEF TypeOK, Resolve, Party, DesignInv, serverVars
  <2>3. SharedInv'
    BY <1>3 DEF TypeOK, Resolve, Party, OneLookup, DesignInv, SharedInv, serverVars
  <2>4. ReadInv'
    BY <1>3 DEF TypeOK, Resolve, Party, DesignInv, ReadInv, serverVars
  <2>5. GivenWins'
    BY <1>3 DEF TypeOK, Resolve, DesignInv, GivenWins, serverVars
  <2> QED
    BY <2>1, <2>2, <2>3, <2>4, <2>5
<1> QED
  BY <1>1, <1>2, <1>3 DEF LookupStep

LEMMA NextIInv == IInv /\ [Next]_vars => IInv'
<1> SUFFICES ASSUME IInv, [Next]_vars PROVE IInv'
  OBVIOUS
<1> USE DiscoveryAssumption
<1>1. TypeOK /\ Strong /\ TypeOK'
  BY NextTypeOK DEF IInv, Strong
<1> SUFFICES Strong'
  BY <1>1 DEF IInv, Strong
<1>2. CASE \E c \in Callers : ClientStep(c) \/ LookupStep(c)
  BY <1>1, <1>2, ClientStepStrong, LookupStepStrong
<1>3. ASSUME NEW url \in Settable, SetNodeURL(url) PROVE Strong'
  BY <1>1, <1>3 DEF Strong, TypeOK, SetNodeURL, OneLookup, DesignInv, SharedInv,
       ReadInv, GivenWins, serverVars
<1>4. ASSUME NEW nodes \in Listings, Relist(nodes) PROVE Strong'
  BY <1>1, <1>4 DEF Strong, Relist, OneLookup, DesignInv, SharedInv, ReadInv,
       GivenWins, clientVars
<1>5. CASE UNCHANGED vars
  BY <1>1, <1>5 DEF Strong, vars, OneLookup, DesignInv, SharedInv, ReadInv, GivenWins
<1> QED
  BY <1>2, <1>3, <1>4, <1>5 DEF Next

\* The shared lookup, what each design's callers may be doing, and what has been
\* read and returned, hold together in every reachable state.
THEOREM Invariance == Spec => []IInv
<1> QED
  BY InitIInv, NextIInv, PTL DEF Spec

\* However many callers need the node at once, ensureNodeUrl and the Java
\* monitor make one lookup at a time, and nobody waits for one that is over.
THEOREM LookupIsShared == Spec => []OneLookup
<1>1. IInv => OneLookup
  BY DEF IInv
<1> QED
  BY <1>1, Invariance, PTL

\* A client that shares its lookup sends all its callers to one node.
THEOREM CallersAgree == Spec => []OneNodeForAll
<1>1. IInv => OneNodeForAll
  BY DEF IInv, SharedInv, OneNodeForAll
<1> QED
  BY <1>1, Invariance, PTL

\* A node URL given to the constructor is the only one used, and discovery is
\* never started.
THEOREM GivenURLWins == Spec => []GivenWins
<1>1. IInv => GivenWins
  BY DEF IInv
<1> QED
  BY <1>1, Invariance, PTL

-----------------------------------------------------------------------------
(* The default node, and the stored URL.                                   *)

LEMMA AdoptsDefaultStep ==
  ASSUME IInv, AdoptsDefault, [Next]_vars
  PROVE  AdoptsDefault'
<1> USE DiscoveryAssumption
<1>1. ASSUME NEW c \in Callers, Resolve(c) PROVE AdoptsDefault'
  <2>1. answer[c] \in read /\ answer[c] \in Seq(Record) /\ read' = read /\ sdk' = sdk
    BY <1>1 DEF IInv, TypeOK, ReadInv, Resolve, serverVars
  <2>2. ASSUME sdk = "java" => Complete(answer[c])
        PROVE  nodeURL' = PickRecord(answer[c])
    <3>1. CASE sdk # "java"
      BY <1>1, <3>1 DEF Resolve, Pick
    <3>2. CASE sdk = "java" /\ answer[c] # <<>>
      BY <1>1, <2>1, <2>2, <3>2, ScanAgrees DEF Resolve, Pick
    <3>3. CASE sdk = "java" /\ answer[c] = <<>>
      <4>1. Len(answer[c]) = 0 /\ DOMAIN answer[c] = {}
        BY <3>3
      <4>2. DefaultIndex(answer[c]) = 1 /\ 1..0 = {}
        BY <4>1 DEF DefaultIndex
      <4>3. \A f \in Field : ScanField(answer[c], 1, f) = Blank
        BY <4>1, <4>2 DEF ScanField
      <4>4. PickScan(answer[c]) = Blank
        BY <4>2, <4>3 DEF PickScan, Preferred, Field
      <4> QED
        BY <1>1, <3>3, <4>4 DEF Resolve, Pick
    <3> QED
      BY <3>1, <3>2, <3>3
  <2>3. CASE answer[c] = <<>>
    BY <2>1, <2>2, <2>3 DEF AdoptsDefault, FromDefault, PickRecord
  <2>4. CASE answer[c] # <<>>
    <3>1. PICK i \in DOMAIN answer[c] :
            /\ IsTheDefault(answer[c], i)
            /\ PickRecord(answer[c]) = AddressOf(answer[c][i])
      <4>1. DOMAIN answer[c] = 1..Len(answer[c])
        BY <2>1
      <4> QED
        BY <2>1, <2>4, <4>1, DefaultIsListed DEF PickRecord
    <3>2. ASSUME sdk = "java" => Complete(answer[c]) PROVE FromDefault'
      BY <2>1, <2>2, <3>1, <3>2 DEF FromDefault, AddressOf
    <3> QED
      BY <2>1, <3>2 DEF AdoptsDefault
  <2> QED
    BY <2>3, <2>4
<1>2. ASSUME nodeURL' = nodeURL, given' = given, sets' = sets, sdk' = sdk,
             read \subseteq read'
      PROVE  AdoptsDefault'
  BY <1>2 DEF AdoptsDefault, FromDefault, AddressOf
<1>3. ASSUME NEW url \in Settable, SetNodeURL(url) PROVE AdoptsDefault'
  BY <1>3 DEF IInv, TypeOK, SetNodeURL, AdoptsDefault, FromDefault
<1>4. ASSUME NEW c \in Callers, ClientStep(c) PROVE AdoptsDefault'
  BY <1>2, <1>4 DEF ClientStep, SendDirect, Cached, Lookup, Join, Refuse,
       ReturnStored, Send, serverVars
<1>5. ASSUME NEW c \in Callers, Answer(c) \/ LookupFails(c) PROVE AdoptsDefault'
  BY <1>2, <1>5 DEF Answer, LookupFails, serverVars, clientVars
<1>6. ASSUME NEW nodes \in Listings, Relist(nodes) PROVE AdoptsDefault'
  BY <1>2, <1>6 DEF Relist, clientVars
<1>7. CASE UNCHANGED vars
  BY <1>2, <1>7 DEF vars
<1> QED
  BY <1>1, <1>3, <1>4, <1>5, <1>6, <1>7 DEF Next, LookupStep

\* What a lookup adopts is the address of the account's default node; for the
\* clients that scan the text, provided that every record has all its keys.
THEOREM DefaultIsAdopted == Spec => []AdoptsDefault
<1>1. Init => AdoptsDefault
  BY DEF Init, InitialURL, AdoptsDefault, FromDefault
<1> QED
  BY <1>1, AdoptsDefaultStep, Invariance, PTL DEF Spec

\* A known URL is replaced only by the application, or by a lookup that was
\* overtaken while in flight.
THEOREM URLChangesOnlySo == Spec => URLIsKept
<1>1. ASSUME IInv, [Next]_vars
      PROVE  nodeURL # Blank /\ nodeURL' # nodeURL =>
               \/ sets' > sets
               \/ sdk = "typescript" /\ sets > 0 /\ leader # NoCaller
               \/ sdk = "python" /\ \E c \in Callers : pc[c] = "answered"
  <2> USE DiscoveryAssumption
  <2>1. ASSUME NEW c \in Callers, Resolve(c), nodeURL # Blank, sdk # "python"
        PROVE  sdk = "typescript" /\ sets > 0 /\ leader # NoCaller
    <3>1. sets # 0 /\ sets \in Nat
      BY <2>1, <1>1 DEF IInv, TypeOK, SharedInv, Resolve
    <3>2. sdk = "typescript"
      BY <3>1, <1>1 DEF IInv, DesignInv
    <3> QED
      BY <2>1, <3>1, <3>2, <1>1 DEF IInv, OneLookup, Resolve
  <2>2. ASSUME NEW c \in Callers, Resolve(c) PROVE pc[c] = "answered"
    BY <2>2 DEF Resolve
  <2>3. ASSUME NEW url \in Settable, SetNodeURL(url) PROVE sets' > sets
    BY <2>3, <1>1 DEF SetNodeURL, IInv, TypeOK
  <2>4. ASSUME NEW c \in Callers, ClientStep(c) PROVE nodeURL' = nodeURL
    BY <2>4 DEF ClientStep, SendDirect, Cached, Lookup, Join, Refuse, ReturnStored, Send
  <2>5. ASSUME NEW c \in Callers, Answer(c) \/ LookupFails(c) PROVE nodeURL' = nodeURL
    BY <2>5 DEF Answer, LookupFails, clientVars
  <2>6. ASSUME NEW nodes \in Listings, Relist(nodes) PROVE nodeURL' = nodeURL
    BY <2>6 DEF Relist, clientVars
  <2>7. CASE UNCHANGED vars
    BY <2>7 DEF vars
  <2> QED
    BY <1>1, <2>1, <2>2, <2>3, <2>4, <2>5, <2>6, <2>7 DEF Next, LookupStep
<1> QED
  BY <1>1, Invariance, PTL DEF Spec, URLIsKept

-----------------------------------------------------------------------------
(* Every call winds down.                                                  *)

\* The variant is a number.
LEMMA WorkType ==
  ASSUME TypeOK, NEW d \in Callers
  PROVE  Place(pc[d]) \in 0..4 /\ Work(d) \in Nat
<1>1. round[d] \in 0..Rounds /\ Rounds \in Nat
  BY DiscoveryAssumption DEF TypeOK
<1>2. Place(pc[d]) \in 0..4
  BY DEF Place
<1> QED
  BY <1>1, <1>2 DEF Work

\* A step lowers the variant of every caller it moves and leaves the others alone.
LEMMA WorkStep ==
  ASSUME TypeOK, Next, NEW d \in Callers
  PROVE  \/ pc'[d] = pc[d] /\ round'[d] = round[d]
         \/ round'[d] = round[d] /\ Place(pc'[d]) < Place(pc[d])
         \/ round'[d] = round[d] + 1 /\ Place(pc[d]) = 0
<1> USE DEF TypeOK, Place, PC
<1>1. ASSUME NEW c \in Callers, ClientStep(c), c # d
      PROVE  pc'[d] = pc[d] /\ round'[d] = round[d]
  BY <1>1 DEF ClientStep, SendDirect, Cached, Lookup, Join, Refuse, ReturnStored, Send, Starts
<1>2. CASE SendDirect(d) \/ Cached(d) \/ Lookup(d) \/ Join(d) \/ Refuse(d)
  <2>1. pc[d] = "idle" /\ round' = [round EXCEPT ![d] = @ + 1]
    BY <1>2 DEF SendDirect, Cached, Lookup, Join, Refuse, Starts
  <2> QED
    BY <2>1
<1>3. CASE ReturnStored(d)
  BY <1>3 DEF ReturnStored
<1>4. CASE Send(d)
  BY <1>4 DEF Send, EndOfCall
<1>5. ASSUME NEW c \in Callers, Answer(c)
      PROVE  round' = round /\ (pc'[d] = pc[d] \/ Place(pc'[d]) < Place(pc[d]))
  BY <1>5 DEF Answer, clientVars
<1>6. ASSUME NEW c \in Callers, LookupFails(c) \/ Resolve(c)
      PROVE  round' = round /\ (pc'[d] = pc[d] \/ Place(pc'[d]) < Place(pc[d]))
  <2>1. CASE d \in Party(c)
    <3>1. pc[d] \in {"wire", "answered", "wait"}
      BY <1>6, <2>1 DEF Party, LookupFails, Resolve
    <3>2. round' = round
      BY <1>6 DEF LookupFails, Resolve
    <3>3. CASE LookupFails(c)
      BY <2>1, <3>1, <3>2, <3>3 DEF LookupFails, EndOfCall
    <3>4. CASE Resolve(c) /\ sdk # "python"
      BY <2>1, <3>1, <3>2, <3>4 DEF Resolve
    <3>5. CASE Resolve(c) /\ sdk = "python"
      BY <2>1, <3>1, <3>2, <3>5 DEF Resolve
    <3> QED
      BY <1>6, <3>3, <3>4, <3>5
  <2>2. CASE d \notin Party(c)
    <3>1. d # c
      BY <2>2 DEF Party
    <3> QED
      BY <1>6, <2>2, <3>1 DEF LookupFails, Resolve
  <2> QED
    BY <2>1, <2>2
<1>7. ASSUME NEW url \in Settable, SetNodeURL(url)
      PROVE  pc' = pc /\ round' = round
  BY <1>7 DEF SetNodeURL
<1>8. ASSUME NEW nodes \in Listings, Relist(nodes)
      PROVE  pc' = pc /\ round' = round
  BY <1>8 DEF Relist, clientVars
<1>9. ASSUME NEW c \in Callers, ClientStep(c) \/ LookupStep(c)
      PROVE  \/ ClientStep(c) /\ c # d
             \/ SendDirect(d) \/ Cached(d) \/ Lookup(d) \/ Join(d) \/ Refuse(d)
             \/ ReturnStored(d) \/ Send(d)
             \/ Answer(c) \/ LookupFails(c) \/ Resolve(c)
  BY Zenon, <1>9 DEF ClientStep, LookupStep
<1> QED
  BY <1>1, <1>2, <1>3, <1>4, <1>5, <1>6, <1>7, <1>8, <1>9 DEF Next

\* What a step does to the variant, in numbers.
LEMMA WorkFallsStep ==
  ASSUME TypeOK, TypeOK', Next, NEW d \in Callers
  PROVE  /\ Work(d)' <= Work(d)
         /\ pc'[d] # pc[d] \/ round'[d] # round[d] => Work(d)' < Work(d)
<1>1. /\ round[d] \in Nat /\ round'[d] \in Nat /\ Rounds \in Nat
      /\ Place(pc[d]) \in 0..4
  BY DiscoveryAssumption, WorkType DEF TypeOK
<1>2. Place(pc'[d]) \in 0..4
  BY DEF Place
<1>3. /\ Work(d) = 5 * (Rounds - round[d]) + Place(pc[d])
      /\ Work(d)' = 5 * (Rounds - round'[d]) + Place(pc'[d])
  BY DEF Work, Place
<1> QED
  BY <1>1, <1>2, <1>3, WorkStep

\* Every call of every caller takes a bounded number of steps, and nobody waits for
\* a lookup that is over: what EveryCallReturns rests on beside fairness, for any
\* number of callers and calls, failing lookups and new listings in between.
THEOREM CallsWindDown == Spec => [](WorkIsBounded /\ WaitIsServed) /\ WorkFalls
<1>1. Init => WorkIsBounded
  <2> SUFFICES ASSUME Init, NEW d \in Callers PROVE Work(d) \in 0..(5 * Rounds)
    BY DEF WorkIsBounded
  <2>1. round[d] = 0 /\ Place(pc[d]) = 0 /\ Rounds \in Nat
    BY DiscoveryAssumption DEF Init, Place
  <2> QED
    BY <2>1 DEF Work
<1>2. ASSUME TypeOK, TypeOK', WorkIsBounded, [Next]_vars PROVE WorkIsBounded'
  <2> SUFFICES ASSUME NEW d \in Callers PROVE Work(d)' \in 0..(5 * Rounds)
    BY DEF WorkIsBounded
  <2>1. Work(d) \in 0..(5 * Rounds) /\ Rounds \in Nat
    BY <1>2, DiscoveryAssumption DEF WorkIsBounded
  <2>2. Work(d)' \in Nat
    <3>1. round'[d] \in 0..Rounds
      BY <1>2 DEF TypeOK
    <3>2. Place(pc'[d]) \in 0..4
      BY DEF Place
    <3>3. Work(d)' = 5 * (Rounds - round'[d]) + Place(pc'[d])
      BY DEF Work, Place
    <3> QED
      BY <2>1, <3>1, <3>2, <3>3
  <2>3. CASE Next
    BY <1>2, <2>1, <2>2, <2>3, WorkFallsStep
  <2>4. CASE UNCHANGED vars
    BY <2>1, <2>4 DEF vars, Work, Place
  <2> QED
    BY <1>2, <2>3, <2>4
<1>3. ASSUME TypeOK, TypeOK', [Next]_vars
      PROVE  [\A c \in Callers :
                /\ Work(c)' <= Work(c)
                /\ pc'[c] # pc[c] \/ round'[c] # round[c] => Work(c)' < Work(c)]_vars
  BY <1>3, WorkFallsStep
<1>4. IInv => TypeOK /\ WaitIsServed
  <2> SUFFICES ASSUME IInv PROVE WaitIsServed
    BY DEF IInv
  <2>1. OneLookup /\ DesignInv /\ TypeOK
    BY DEF IInv
  <2>2. ASSUME NEW c \in Callers, pc[c] = "wait"
        PROVE  leader \in Callers /\ pc[leader] \in {"wire", "answered"}
    BY <2>1, <2>2 DEF OneLookup, DesignInv, TypeOK
  <2> QED
    BY <2>2 DEF WaitIsServed
<1> QED
  BY <1>1, <1>2, <1>3, <1>4, Invariance, PTL DEF Spec, WorkFalls
=============================================================================
