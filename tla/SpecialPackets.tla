--------------------------- MODULE SpecialPackets ----------------------------
(***************************************************************************)
(* ARP requests, gratuitous ARPs and pings of one port.  A command raises   *)
(* a request flag; every transmit queue looks at the flags each time round  *)
(* its loop and, when one is set, sends a packet for each sequence slot and *)
(* one for the single-packet slot, then clears all the flags at once.  Each *)
(* test, the filling of the shared ping template and the final clear are    *)
(* separate steps: queues and commands run between them.                    *)
(***************************************************************************)
EXTENDS Naturals

CONSTANTS
  SpecialQueues,  \* the transmit queues of the port
  SeqCnt,         \* pinfo->seqCnt: sequence slots in use
  MaxRequests     \* bound on the requests of a behaviour

ASSUME SpecialAssumption == SeqCnt \in Nat /\ MaxRequests \in Nat

Kinds == {"garp", "arp", "ping"}
Slots == 0 .. SeqCnt          \* SeqCnt stands for SINGLE_PKT, served last

VARIABLES
  requested,    \* the request bits of port_flags
  stage,        \* where each queue is in pktgen_send_special
  slot,         \* the slot it is serving
  template,     \* the slot seq_pkt[SPECIAL_PKT] was last copied from
  pinging,      \* is the ping command between its copy and its flag?
  requests,     \* requests made so far
  \* history
  owed,         \* slots not yet sent for the last request of each kind
  excused       \* kinds whose last request met a known way to be lost

requestVars == <<requested, pinging, requests>>
serveVars   == <<stage, slot, template>>
oweVars     == <<owed, excused>>
specialVars == <<requestVars, serveVars, oweVars>>

SpecialTypeOK ==
  /\ requested \subseteq Kinds
  /\ stage \in [SpecialQueues -> {"out", "garp", "arp", "ping", "build", "clear"}]
  /\ slot \in [SpecialQueues -> Slots] /\ template \in Slots
  /\ pinging \in BOOLEAN /\ requests \in 0 .. MaxRequests
  /\ owed \in [Kinds -> SUBSET Slots] /\ excused \subseteq Kinds

SpecialInit ==
  /\ requested = {} /\ pinging = FALSE /\ requests = 0
  /\ stage = [q \in SpecialQueues |-> "out"]
  /\ slot = [q \in SpecialQueues |-> 0] /\ template = SeqCnt
  /\ owed = [k \in Kinds |-> {}] /\ excused = {}

Serving == \E q \in SpecialQueues : stage[q] # "out"

\* Is a queue about to send what the template holds?
Building(others) == \E q \in others : stage[q] = "build"

-----------------------------------------------------------------------------
(* The commands. *)

\* A flag raised while a queue is serving may be cleared before it is tested.
Raise(k) ==
  /\ requests < MaxRequests
  /\ requests' = requests + 1
  /\ requested' = requested \union {k}
  /\ owed' = [owed EXCEPT ![k] = Slots]
  /\ excused' = IF Serving THEN excused \union {k} ELSE excused \ {k}

\* pktgen_send_arp_requests.
RequestArp(k) ==
  /\ ~pinging /\ k \in {"garp", "arp"}
  /\ Raise(k)
  /\ UNCHANGED <<serveVars, pinging>>

\* pktgen_ping4 first fills the template from the single-packet slot ...
PreparePing ==
  /\ ~pinging /\ requests < MaxRequests
  /\ pinging' = TRUE /\ template' = SeqCnt
  /\ excused' = IF Building(SpecialQueues) THEN excused \union {"ping"} ELSE excused
  /\ UNCHANGED <<requested, requests, stage, slot, owed>>

\* ... then raises the flag.
RequestPing ==
  /\ pinging /\ pinging' = FALSE
  /\ Raise("ping")
  /\ UNCHANGED serveVars

-----------------------------------------------------------------------------
(* A transmit queue: pktgen_send_special. *)

GoOn(q, label) == stage' = [stage EXCEPT ![q] = label]

\* Nothing is requested most of the time and the queue does not enter.
Enter(q) ==
  /\ stage[q] = "out" /\ requested # {}
  /\ GoOn(q, "garp") /\ slot' = [slot EXCEPT ![q] = 0]
  /\ UNCHANGED <<requestVars, template, oweVars>>

\* The packet leaves, or sp_mp has no mbuf left and it is dropped.
Send(k, s, passedOver) ==
  \/ owed' = [owed EXCEPT ![k] = @ \ {s}] /\ excused' = excused \union passedOver
  \/ excused' = excused \union passedOver \union {k} /\ UNCHANGED owed

\* A gratuitous ARP takes the place of a plain one ("else if").
TestGarp(q) ==
  /\ stage[q] = "garp"
  /\ IF "garp" \in requested
       THEN Send("garp", slot[q], requested \intersect {"arp"}) /\ GoOn(q, "ping")
       ELSE GoOn(q, "arp") /\ UNCHANGED oweVars
  /\ UNCHANGED <<requestVars, slot, template>>

TestArp(q) ==
  /\ stage[q] = "arp"
  /\ IF "arp" \in requested THEN Send("arp", slot[q], {}) ELSE UNCHANGED oweVars
  /\ GoOn(q, "ping")
  /\ UNCHANGED <<requestVars, slot, template>>

\* The sequence slots in order, then the single-packet slot, then the clear.
SkipSingle(q) == slot[q] + 1 >= SeqCnt /\ SeqCnt > 0             \* mutant
LastSlot(q) == slot[q] = SeqCnt

NextSlot(q) ==
  IF LastSlot(q)
    THEN GoOn(q, "clear") /\ UNCHANGED slot
    ELSE GoOn(q, "garp") /\ slot' = [slot EXCEPT ![q] = @ + 1]

\* pktgen_send_ping4 gets an mbuf, then copies the slot into the template,
\* over whatever another queue or the command put there ...
TestPing(q) ==
  /\ stage[q] = "ping"
  /\ \/ /\ "ping" \notin requested
        /\ NextSlot(q) /\ UNCHANGED <<template, oweVars>>
     \/ /\ "ping" \in requested
        /\ NextSlot(q) /\ excused' = excused \union {"ping"}
        /\ UNCHANGED <<template, owed>>
     \/ /\ "ping" \in requested
        /\ template' = slot[q] /\ GoOn(q, "build")
        /\ excused' = IF Building(SpecialQueues \ {q})
                        THEN excused \union {"ping"} ELSE excused
        /\ UNCHANGED <<slot, owed>>
  /\ UNCHANGED requestVars

\* ... and sends what the template holds by then.
SendPing(q) ==
  /\ stage[q] = "build"
  /\ owed' = [owed EXCEPT !["ping"] = @ \ {template}]
  /\ NextSlot(q)
  /\ UNCHANGED <<requestVars, template, excused>>

ClearRequests(q) ==
  /\ stage[q] = "clear"
  /\ requested' = {}
  /\ GoOn(q, "out")
  /\ UNCHANGED <<pinging, requests, slot, template, oweVars>>

SpecialQueue(q) ==
  \/ Enter(q) \/ TestGarp(q) \/ TestArp(q) \/ TestPing(q)
  \/ SendPing(q) \/ ClearRequests(q)

SpecialUser ==
  \/ \E k \in Kinds : RequestArp(k)
  \/ PreparePing
  \/ RequestPing

SpecialNext == SpecialUser \/ \E q \in SpecialQueues : SpecialQueue(q)

SpecialSpec == SpecialInit /\ [][SpecialNext]_specialVars

-----------------------------------------------------------------------------
(* A request is answered for every slot before its flag goes away, unless  *)
(* it was made while a queue was serving an earlier one, the special pool  *)
(* was empty, a gratuitous ARP took its place, or two writers shared the   *)
(* ping template: these are the only ways to lose one.                     *)
NoRequestLost ==
  \A k \in Kinds \ (requested \union excused) : owed[k] = {}
=============================================================================
