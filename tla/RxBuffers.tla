------------------------------ MODULE RxBuffers ------------------------------
(***************************************************************************)
(* Who owns the mbufs of a receive queue.  The NIC fills mbufs of the       *)
(* receive pool; a burst of them is classified, which may answer an ARP     *)
(* request with a copy from the special pool and a ping with the received   *)
(* mbuf itself, then dumped and captured by copying, then freed.  The NIC   *)
(* frees what it has transmitted.  Freeing puts an mbuf in its own pool.    *)
(***************************************************************************)
EXTENDS Naturals, Sequences, FiniteSets

CONSTANTS
  RxMbufs,      \* mbufs of the receive pool
  SpMbufs,      \* mbufs of the special pool
  RxBurst,      \* rx_burst
  Inputs        \* kinds of packets that arrive: plain, arp and ping

ASSUME RxAssumption ==
  /\ RxMbufs \cap SpMbufs = {} /\ RxBurst \in Nat
  /\ Inputs \subseteq {"plain", "arp", "ping"}

Mbufs == RxMbufs \cup SpMbufs

VARIABLES
  pooled,     \* how often each mbuf is in its pool
  posted,     \* mbufs the NIC may fill
  inBurst,    \* mbufs of the burst in hand and the kinds of their packets
  classified, \* how many of them have been classified
  sending,    \* how often each mbuf is in the transmit ring
  answering   \* PROCESS_INPUT_PKTS and ICMP_ECHO_ENABLE_FLAG

mbufVars == <<pooled, posted, inBurst, classified, sending, answering>>

RxTypeOK ==
  /\ pooled \in [Mbufs -> Nat] /\ sending \in [Mbufs -> Nat]
  /\ posted \subseteq RxMbufs
  /\ inBurst \in Seq([mbuf : Mbufs, kind : Inputs]) /\ Len(inBurst) <= RxBurst
  /\ classified \in 0 .. Len(inBurst) /\ answering \in BOOLEAN

RxInit ==
  /\ pooled = [m \in Mbufs |-> 1] /\ posted = {} /\ inBurst = <<>> /\ classified = 0
  /\ sending = [m \in Mbufs |-> 0] /\ answering = FALSE

\* the NIC takes an mbuf from the receive pool
Post == \E m \in RxMbufs :
  /\ pooled[m] > 0
  /\ pooled' = [pooled EXCEPT ![m] = pooled[m] - 1]
  /\ posted' = posted \cup {m}
  /\ UNCHANGED <<inBurst, classified, sending, answering>>

\* rte_eth_rx_burst hands over mbufs it has filled
PollBurst == \E n \in 1 .. RxBurst : \E b \in [1 .. n -> [mbuf : posted, kind : Inputs]] :
  /\ inBurst = <<>>
  /\ \A i, j \in 1 .. n : b[i].mbuf = b[j].mbuf => i = j
  /\ inBurst' = b /\ classified' = 0
  /\ posted' = posted \ {b[i].mbuf : i \in 1 .. n}
  /\ UNCHANGED <<pooled, sending, answering>>

\* mutant of AnswerArp: the request itself is turned round
TurnRound(m) == sending' = [sending EXCEPT ![m] = sending[m] + 1] /\ UNCHANGED pooled

\* pktgen_process_arp: the answer is a copy, unless the special pool is empty
AnswerArp(m) ==
  \/ \E s \in SpMbufs :
       /\ pooled[s] > 0
       /\ pooled' = [pooled EXCEPT ![s] = pooled[s] - 1]
       /\ sending' = [sending EXCEPT ![s] = sending[s] + 1]
  \/ (\A s \in SpMbufs : pooled[s] = 0) /\ UNCHANGED <<pooled, sending>>

\* pktgen_process_ping4: the answer is the request, "No need to free mbuf as it was reused"
AnswerPing(m) == sending' = [sending EXCEPT ![m] = sending[m] + 1] /\ UNCHANGED pooled

\* pktgen_packet_classify of the next packet of the burst
Classify ==
  /\ classified < Len(inBurst)
  /\ LET p == inBurst[classified + 1]
     IN  CASE answering /\ p.kind = "arp"  -> AnswerArp(p.mbuf)
           [] answering /\ p.kind = "ping" -> AnswerPing(p.mbuf)
           [] OTHER -> UNCHANGED <<pooled, sending>>
  /\ classified' = classified + 1
  /\ UNCHANGED <<posted, inBurst, answering>>

\* rte_pktmbuf_free_bulk of the whole burst
FreeBurst ==
  /\ inBurst # <<>> /\ classified = Len(inBurst)
  /\ pooled' = [m \in Mbufs |->
                  pooled[m] + Cardinality({i \in 1 .. Len(inBurst) : inBurst[i].mbuf = m})]
  /\ inBurst' = <<>> /\ classified' = 0
  /\ UNCHANGED <<posted, sending, answering>>

\* the NIC has transmitted an mbuf and frees it
Transmitted == \E m \in Mbufs :
  /\ sending[m] > 0
  /\ sending' = [sending EXCEPT ![m] = sending[m] - 1]
  /\ pooled' = [pooled EXCEPT ![m] = pooled[m] + 1]
  /\ UNCHANGED <<posted, inBurst, classified, answering>>

\* enable and disable: process and icmp
SetAnswering == answering' = ~answering /\ UNCHANGED <<pooled, posted, inBurst, classified, sending>>

RxNext == Post \/ PollBurst \/ Classify \/ FreeBurst \/ Transmitted \/ SetAnswering

RxSpec == RxInit /\ [][RxNext]_mbufVars
-----------------------------------------------------------------------------
\* An mbuf of the burst that has been given to the transmit ring belongs to the ring.
InHand(m) == sending[m] = 0 /\ \E i \in 1 .. Len(inBurst) : inBurst[i].mbuf = m

Owners(m) ==
  pooled[m] + sending[m] + (IF m \in posted THEN 1 ELSE 0) + (IF InHand(m) THEN 1 ELSE 0)

(* Every mbuf has one owner: a pool, the NIC's receive or transmit ring, or *)
(* the burst in hand.  None is freed while somebody uses it, none leaks.    *)
OwnedOnce == \A m \in Mbufs : Owners(m) = 1
=============================================================================
