-------------------------- MODULE UsbDeviceProofs --------------------------
(***************************************************************************)
(* Requests on the data pipes of the emulated USB device, for every number *)
(* of pipes, endpoints, requests and bytes: each request the host waits    *)
(* for is known to the device, and the device answers no other.            *)
(***************************************************************************)
EXTENDS UsbBulkSystem, SequenceTheorems, WellFoundedInduction, TLAPS

(* A set of numbers that is not empty has a least element: being less is
   well-founded. *)
LEMMA LeastNumber ==
  ASSUME NEW S \in SUBSET Nat, S # {}
  PROVE  \E m \in S : \A k \in S : m <= k
<1> DEFINE Below == {p \in Nat \X Nat : p[1] < p[2]}
<1>1. IsWellFoundedOn(Below, Nat)
  BY NatLessThanWellFounded, Zenon DEF OpToRel
<1>2. \A k, m \in Nat : k < m => <<k, m>> \in Below
  OBVIOUS
<1> HIDE DEF Below
<1>3. \E m \in S : \A k \in S : <<k, m>> \notin Below
  BY <1>1, WFMin
<1>4. \A k, m \in S : <<k, m>> \notin Below => m <= k
  <2>1. \A k, m \in S : k \in Nat /\ m \in Nat
    OBVIOUS
  <2>2. \A k, m \in Nat : ~(k < m) => m <= k
    OBVIOUS
  <2> QED
    BY <1>2, <2>1, <2>2, Zenon
<1> QED
  BY <1>3, <1>4

(* The records of endpointControl and of the requests being answered. *)
Shapes ==
  /\ epc \in [tx : [Pipes -> EndpointControl], rx : [Pipes -> EndpointControl]]
  /\ in = [ep \in InEps |-> [seq |-> in[ep].seq, len |-> in[ep].len,
                             data |-> in[ep].data]]
  /\ \A ep \in InEps : in[ep].seq \in Seqs \cup {NoSeq}
  /\ urb \in [Seqs -> [st : {"free", "waiting", "spurious"}, ep : InEps]]

(* What the device holds of a request and what the host knows of it agree, *)
(* in both directions.  No request with data for the device is ever made   *)
(* on a data pipe. *)
Matched ==
  /\ outSeq = NoSeq
  /\ \A ep \in InEps : in[ep].seq # NoSeq =>
       /\ Waiting(in[ep].seq)
       /\ urb[in[ep].seq].ep = ep
  /\ \A n \in Seqs : Waiting(n) => in[urb[n].ep].seq = n

IInv == Shapes /\ Matched /\ NoSpuriousAnswer

requestVars == <<epc, in, outSeq, urb>>

LEMMA SeqsAreNotNoSeq == NoSeq \notin Seqs /\ 0 \notin Eps
BY UsbAssumption DEF NoSeq

LEMMA FreeUrbType == FreeUrb \in [st : {"free", "waiting", "spurious"}, ep : InEps]
BY DEF FreeUrb, InEps

LEMMA InitIInv == BulkInit => IInv
<1> SUFFICES ASSUME BulkInit PROVE IInv
  OBVIOUS
<1>1. Shapes
  BY FreeUrbType DEF BulkInit, Quiet, Shapes, NoIn
<1>2. \A n \in Seqs : urb[n].st = "free"
  BY DEF BulkInit, Quiet, FreeUrb
<1>3. Matched
  BY <1>2 DEF BulkInit, Quiet, Matched, NoIn, Waiting
<1> QED
  BY <1>1, <1>2, <1>3 DEF IInv, NoSpuriousAnswer

(* Most accesses leave the requests alone. *)
LEMMA RequestsUntouched ==
  ASSUME IInv, UNCHANGED requestVars
  PROVE  IInv'
BY DEF IInv, Shapes, Matched, NoSpuriousAnswer, Waiting, requestVars

(* Remapping an endpoint does not forget a request: it waits under its     *)
(* endpoint number. *)
LEMMA RemappedIInv ==
  ASSUME IInv, NEW dir \in {"tx", "rx"}, NEW p \in Pipes, NEW en \in BOOLEAN,
         NEW ep \in Eps, WriteEPC(dir, p, en, ep)
  PROVE  IInv'
<1>1. UNCHANGED <<in, outSeq, urb>>
  BY DEF WriteEPC, usbipVars
<1>2. [en |-> en, ep |-> ep] \in EndpointControl
  BY DEF EndpointControl
<1>3. epc' \in [tx : [Pipes -> EndpointControl], rx : [Pipes -> EndpointControl]]
  BY <1>2 DEF WriteEPC, IInv, Shapes
<1> QED
  BY <1>1, <1>3 DEF IInv, Shapes, Matched, NoSpuriousAnswer, Waiting

(* A reset ends every connection with the requests it carried. *)
LEMMA ResetIInv ==
  ASSUME IInv, reset
  PROVE  IInv'
<1>1. \A n \in Seqs : urb'[n].st = "free"
  BY DEF reset, FreeUrb
<1>2. Shapes'
  BY FreeUrbType DEF reset, IInv, Shapes, NoIn
<1>3. Matched'
  BY <1>1 DEF reset, Matched, NoIn, Waiting
<1> QED
  BY <1>1, <1>2, <1>3 DEF IInv, NoSpuriousAnswer

LEMMA NoInShape ==
  /\ NoIn = [seq |-> NoIn.seq, len |-> NoIn.len, data |-> NoIn.data]
  /\ NoIn.seq = NoSeq
BY DEF NoIn

LEMMA CollectedShape ==
  ASSUME NEW r, NEW f, r = [seq |-> r.seq, len |-> r.len, data |-> r.data]
  PROVE  \E d : Collected(r, f) = [seq |-> r.seq, len |-> r.len, data |-> d]
<1> DEFINE d == r.data \o SubSeq(f.q, 1, Fitting(r, f))
<1>1. Collected(r, f) = [r EXCEPT !.data = d]
  BY DEF Collected
<1> HIDE DEF d
<1>2. \A s, l, x, y : [[seq |-> s, len |-> l, data |-> x] EXCEPT !.data = y]
                        = [seq |-> s, len |-> l, data |-> y]
  OBVIOUS
<1>3. [r EXCEPT !.data = d] = [seq |-> r.seq, len |-> r.len, data |-> d]
  BY <1>2
<1> QED
  BY <1>1, <1>3

(* The request at ep is answered: the host was waiting for it, and no      *)
(* other endpoint held it. *)
LEMMA AnsweredIInv ==
  ASSUME IInv, NEW ep \in InEps, in[ep].seq # NoSeq,
         in' = [in EXCEPT ![ep] = NoIn],
         urb' = [urb EXCEPT ![in[ep].seq] = Answered(in[ep].seq)],
         UNCHANGED <<epc, outSeq>>
  PROVE  IInv'
<1> DEFINE n == in[ep].seq
<1>1. n \in Seqs /\ Waiting(n) /\ urb[n].ep = ep
  BY DEF IInv, Shapes, Matched
<1>2. urb' = [urb EXCEPT ![n] = FreeUrb]
  BY <1>1 DEF Answered, Waiting
<1>3. \A e \in InEps : in'[e] = IF e = ep THEN NoIn ELSE in[e]
  BY DEF IInv, Shapes
<1>4. \A m \in Seqs : urb'[m] = IF m = n THEN FreeUrb ELSE urb[m]
  BY <1>2 DEF IInv, Shapes
<1>5. Shapes'
  <2>1. urb' \in [Seqs -> [st : {"free", "waiting", "spurious"}, ep : InEps]]
    BY <1>2, FreeUrbType DEF IInv, Shapes
  <2>2. \A e \in InEps :
          /\ in'[e] = [seq |-> in'[e].seq, len |-> in'[e].len,
                       data |-> in'[e].data]
          /\ in'[e].seq \in Seqs \cup {NoSeq}
    BY <1>3, NoInShape DEF IInv, Shapes
  <2>3. in' = [e \in InEps |-> in'[e]]
    BY DEF IInv, Shapes
  <2> QED
    BY <2>1, <2>2, <2>3 DEF IInv, Shapes
<1>6. Matched'
  <2>1. \A e \in InEps : in'[e].seq # NoSeq => e # ep /\ in'[e].seq # n
    BY <1>1, <1>3, NoInShape DEF IInv, Matched
  <2>2. \A e \in InEps : in'[e].seq # NoSeq =>
          /\ urb'[in'[e].seq].st = "waiting" /\ urb'[in'[e].seq].ep = e
    BY <1>3, <1>4, <2>1 DEF IInv, Shapes, Matched, Waiting
  <2>3. ASSUME NEW m \in Seqs, urb'[m].st = "waiting"
        PROVE  in'[urb'[m].ep].seq = m
    <3>1. m # n /\ urb'[m] = urb[m]
      BY <1>4, <2>3 DEF FreeUrb
    <3>2. in[urb[m].ep].seq = m /\ urb[m].ep \in InEps
      BY <2>3, <3>1 DEF IInv, Shapes, Matched, Waiting
    <3> QED
      BY <1>3, <3>1, <3>2
  <2> QED
    BY <2>2, <2>3 DEF IInv, Matched, Waiting
<1> QED
  BY <1>4, <1>5, <1>6 DEF IInv, NoSpuriousAnswer, FreeUrb

(* The request at ep waits for more data. *)
LEMMA StillWaitingIInv ==
  ASSUME IInv, NEW ep \in InEps, NEW f,
         in' = [in EXCEPT ![ep] = Collected(in[ep], f)],
         UNCHANGED <<epc, outSeq, urb>>
  PROVE  IInv'
<1>1. in[ep] = [seq |-> in[ep].seq, len |-> in[ep].len, data |-> in[ep].data]
  BY DEF IInv, Shapes
<1>2. \A e \in InEps :
        /\ in'[e].seq = in[e].seq
        /\ in'[e] = [seq |-> in'[e].seq, len |-> in'[e].len,
                     data |-> in'[e].data]
  <2> TAKE e \in InEps
  <2>1. PICK d : Collected(in[ep], f)
                   = [seq |-> in[ep].seq, len |-> in[ep].len, data |-> d]
    BY <1>1, CollectedShape
  <2>2. in'[e] = IF e = ep THEN [seq |-> in[ep].seq, len |-> in[ep].len,
                                 data |-> d]
                 ELSE in[e]
    BY <2>1 DEF IInv, Shapes
  <2>3. CASE e = ep
    BY <2>2, <2>3
  <2>4. CASE e # ep
    BY <2>2, <2>4 DEF IInv, Shapes
  <2> QED
    BY <2>3, <2>4
<1>3. in' = [e \in InEps |-> in'[e]]
  BY DEF IInv, Shapes
<1>4. Shapes'
  BY <1>2, <1>3 DEF IInv, Shapes
<1>5. /\ \A e \in InEps : in'[e].seq = in[e].seq
      /\ \A n \in Seqs : urb[n].ep \in InEps
  BY <1>2 DEF IInv, Shapes
<1>6. Matched'
  BY <1>5 DEF IInv, Matched, Waiting
<1> QED
  BY <1>4, <1>6 DEF IInv, NoSpuriousAnswer

(* TXCx either answers the request at its endpoint, or adds to it, or      *)
(* leaves every request alone. *)
LEMMA TransmitIInv ==
  ASSUME IInv, NEW p \in Pipes, NEW en \in BOOLEAN, NEW flush \in BOOLEAN,
         NEW isLast \in BOOLEAN, WriteTXC(p, en, flush, isLast)
  PROVE  IInv'
<1> DEFINE f == IF flush THEN Pipe!EmptyFifo ELSE txFifo[p]
           ep == epc.tx[p].ep
           r == in[ep]
           done == Len(Collected(r, f).data) = r.len \/ isLast
<1>1. ep \in InEps
  BY DEF IInv, Shapes, EndpointControl, InEps
<1>2. UNCHANGED <<epc, outSeq>>
  BY DEF WriteTXC
<1>3. CASE en /\ server /\ r.seq # NoSeq
  <2>1. /\ Collect(p, ep, r, f, isLast)
        /\ IF done THEN Answer(r.seq, ep, Collected(r, f).data)
           ELSE UNCHANGED <<urb, reply>>
    BY <1>3 DEF WriteTXC
  <2>2. r = [seq |-> r.seq, len |-> r.len, data |-> r.data]
    BY <1>1 DEF IInv, Shapes
  <2>3. PICK d : Collected(r, f) = [seq |-> r.seq, len |-> r.len, data |-> d]
    BY <2>2, CollectedShape, Zenon
  <2>4. Collected(r, f).len = r.len
    BY <2>3
  <2>5. in' = [in EXCEPT ![ep] = IF done THEN NoIn ELSE Collected(r, f)]
    <3>1. in' = [in EXCEPT ![ep] =
                   IF Len(Collected(r, f).data) = Collected(r, f).len \/ isLast
                   THEN NoIn ELSE Collected(r, f)]
      BY <2>1, Zenon DEF Collect
    <3>2. done <=> Len(Collected(r, f).data) = Collected(r, f).len \/ isLast
      BY <2>4
    <3> QED
      BY <3>1, <3>2
  <2> HIDE DEF done
  <2>6. CASE done
    <3>1. /\ in' = [in EXCEPT ![ep] = NoIn]
          /\ urb' = [urb EXCEPT ![r.seq] = Answered(r.seq)]
      BY <2>1, <2>5, <2>6 DEF Answer
    <3> QED
      BY <1>1, <1>2, <1>3, <3>1, AnsweredIInv
  <2>7. CASE ~done
    <3>1. /\ in' = [in EXCEPT ![ep] = Collected(in[ep], f)]
          /\ UNCHANGED urb
      BY <2>1, <2>5, <2>7
    <3> QED
      BY <1>1, <1>2, <3>1, StillWaitingIInv
  <2> QED
    BY <2>6, <2>7
<1>4. CASE ~(en /\ server /\ r.seq # NoSeq)
  <2>1. UNCHANGED <<in, urb>>
    BY <1>4 DEF WriteTXC
  <2> QED
    BY <1>2, <2>1, RequestsUntouched DEF requestVars
<1> QED
  BY <1>3, <1>4

(* A new request is held under its number until it is answered. *)
LEMMA SubmittedIInv ==
  ASSUME IInv, NEW n \in Seqs, NEW ep \in Eps, NEW r, NEW l, NEW d,
         MaySubmit(n, ep),
         r = [seq |-> n, len |-> l, data |-> d],
         in' = [in EXCEPT ![ep] = r],
         urb' = Submitted(n, ep),
         UNCHANGED <<epc, outSeq>>
  PROVE  IInv'
<1>1. /\ ep \in InEps
      /\ urb[n].st = "free"
      /\ n # NoSeq
  BY SeqsAreNotNoSeq DEF MaySubmit, FreeUrb, InEps
<1>2. /\ \A e \in InEps : in'[e] = IF e = ep THEN r ELSE in[e]
      /\ in' = [e \in InEps |-> in'[e]]
  BY DEF IInv, Shapes
<1>3. \A m \in Seqs :
        urb'[m] = IF m = n THEN [st |-> "waiting", ep |-> ep] ELSE urb[m]
  BY DEF Submitted, IInv, Shapes
<1>4. Shapes'
  <2>1. urb' \in [Seqs -> [st : {"free", "waiting", "spurious"}, ep : InEps]]
    BY <1>1 DEF Submitted, IInv, Shapes
  <2>2. r = [seq |-> r.seq, len |-> r.len, data |-> r.data] /\ r.seq = n
    OBVIOUS
  <2>3. \A e \in InEps :
          /\ in'[e] = [seq |-> in'[e].seq, len |-> in'[e].len,
                       data |-> in'[e].data]
          /\ in'[e].seq \in Seqs \cup {NoSeq}
    <3> TAKE e \in InEps
    <3>1. CASE e = ep
      BY <1>2, <2>2, <3>1
    <3>2. CASE e # ep
      BY <1>2, <3>2 DEF IInv, Shapes
    <3> QED
      BY <3>1, <3>2
  <2> QED
    BY <1>2, <2>1, <2>3 DEF IInv, Shapes
<1>5. Matched'
  <2>1. r.seq = n
    OBVIOUS
  <2>2. \A m \in Seqs : urb[m].st = "waiting" =>
          /\ m # n
          /\ urb[m].ep \in InEps
          /\ urb[m].ep # ep
          /\ in[urb[m].ep].seq = m
    BY <1>1 DEF MaySubmit, Waiting, IInv, Shapes, Matched
  <2>3. \A e \in InEps : e # ep /\ in[e].seq # NoSeq =>
          /\ in[e].seq \in Seqs
          /\ in[e].seq # n
          /\ urb[in[e].seq].st = "waiting"
          /\ urb[in[e].seq].ep = e
    BY <1>1 DEF Waiting, IInv, Shapes, Matched
  <2>4. ASSUME NEW e \in InEps, in'[e].seq # NoSeq
        PROVE  urb'[in'[e].seq].st = "waiting" /\ urb'[in'[e].seq].ep = e
    <3>1. CASE e = ep
      BY <1>2, <1>3, <2>1, <3>1
    <3>2. CASE e # ep
      BY <1>2, <1>3, <2>3, <2>4, <3>2
    <3> QED
      BY <3>1, <3>2
  <2>5. ASSUME NEW m \in Seqs, urb'[m].st = "waiting"
        PROVE  in'[urb'[m].ep].seq = m
    <3>1. CASE m = n
      BY <1>1, <1>2, <1>3, <2>1, <3>1
    <3>2. CASE m # n
      BY <1>2, <1>3, <2>2, <2>5, <3>2
    <3> QED
      BY <3>1, <3>2
  <2> QED
    BY <2>4, <2>5 DEF IInv, Matched, Waiting
<1> QED
  BY <1>3, <1>4, <1>5 DEF IInv, NoSpuriousAnswer

(* An endpoint a host may submit to holds no request. *)
LEMMA IdleEndpoint ==
  ASSUME IInv, NEW n \in Seqs, NEW ep \in Eps, MaySubmit(n, ep)
  PROVE  in[ep].seq = NoSeq
BY DEF IInv, Shapes, Matched, MaySubmit, InEps

(* A request that is answered at once leaves its endpoint idle. *)
LEMMA AnsweredAtOnceIInv ==
  ASSUME IInv, NEW ep \in InEps, in[ep].seq = NoSeq,
         in' = [in EXCEPT ![ep] = NoIn],
         UNCHANGED <<epc, outSeq, urb>>
  PROVE  IInv'
<1>1. \A e \in InEps :
        /\ in'[e].seq = in[e].seq
        /\ in'[e] = [seq |-> in'[e].seq, len |-> in'[e].len,
                     data |-> in'[e].data]
  <2> TAKE e \in InEps
  <2>1. CASE e = ep
    BY <2>1, NoInShape DEF IInv, Shapes
  <2>2. CASE e # ep
    BY <2>2 DEF IInv, Shapes
  <2> QED
    BY <2>1, <2>2
<1>2. in' = [e \in InEps |-> in'[e]]
  BY DEF IInv, Shapes
<1>3. Shapes'
  BY <1>1, <1>2 DEF IInv, Shapes
<1>4. /\ \A e \in InEps : in'[e].seq = in[e].seq
      /\ \A n \in Seqs : urb[n].ep \in InEps
  BY <1>1 DEF IInv, Shapes
<1>5. Matched'
  BY <1>4 DEF IInv, Matched, Waiting
<1> QED
  BY <1>3, <1>5 DEF IInv, NoSpuriousAnswer

LEMMA InIInv ==
  ASSUME IInv, NEW n \in Seqs, NEW ep \in Eps, NEW len \in InLens,
         usbipIn(n, ep, len)
  PROVE  IInv'
<1> DEFINE p == First(Mapped("tx", ep))
           r == NewIn(n, len)
           got == Collected(r, txFifo[p])
           done == Len(got.data) = len \/ p \in last
<1>1. MaySubmit(n, ep) /\ UNCHANGED <<epc, outSeq>>
  BY DEF usbipIn, controlVars
<1>2. ep \in InEps /\ in[ep].seq = NoSeq
  BY <1>1, IdleEndpoint DEF InEps
<1>3. PICK d : got = [seq |-> n, len |-> len, data |-> d]
  BY CollectedShape DEF NewIn
<1>4. CASE p \in enable.tx
  <2>1. /\ in' = [in EXCEPT ![ep] = IF done THEN NoIn ELSE got]
        /\ urb' = IF done THEN urb ELSE Submitted(n, ep)
    BY <1>3, <1>4 DEF usbipIn, Collect
  <2>2. CASE done
    BY <1>1, <1>2, <2>1, <2>2, AnsweredAtOnceIInv
  <2>3. CASE ~done
    BY <1>1, <1>3, <2>1, <2>3, SubmittedIInv
  <2> QED
    BY <2>2, <2>3
<1>5. CASE p \notin enable.tx
  <2>1. in' = [in EXCEPT ![ep] = r] /\ urb' = Submitted(n, ep)
    BY <1>5 DEF usbipIn
  <2> QED
    BY <1>1, <2>1, SubmittedIInv DEF NewIn
<1> QED
  BY <1>4, <1>5

(* Giving up a request that waits frees the endpoint that held it; giving  *)
(* up one that was answered changes nothing. *)
LEMMA UnlinkIInv ==
  ASSUME IInv, NEW n \in Seqs, usbipUnlink(n)
  PROVE  IInv'
<1> DEFINE held == {ep \in InEps : in[ep].seq = n}
<1>1. n # NoSeq /\ urb' = [urb EXCEPT ![n] = FreeUrb]
  BY SeqsAreNotNoSeq DEF usbipUnlink
<1>2. UNCHANGED <<epc, outSeq>>
  BY SeqsAreNotNoSeq DEF usbipUnlink, controlVars, IInv, Matched
<1>3. CASE held = {}
  <2>1. UNCHANGED in
    BY <1>3 DEF usbipUnlink
  <2>2. \A m \in Seqs : urb'[m] = IF m = n THEN FreeUrb ELSE urb[m]
    BY <1>1 DEF IInv, Shapes
  <2>3. Shapes'
    BY <1>1, <1>2, <2>1, FreeUrbType DEF IInv, Shapes
  <2>4. Matched'
    <3>1. \A e \in InEps : in[e].seq # NoSeq => in[e].seq \in Seqs \ {n}
      BY <1>3 DEF IInv, Shapes
    <3>2. \A m \in Seqs : urb'[m].st = "waiting" => m # n
      BY <2>2 DEF FreeUrb
    <3> QED
      BY <1>2, <2>1, <2>2, <3>1, <3>2 DEF IInv, Matched, Waiting
  <2> QED
    BY <2>2, <2>3, <2>4 DEF IInv, NoSpuriousAnswer, FreeUrb
<1>4. CASE held # {}
  <2>1. PICK e \in InEps : in[e].seq = n
    BY <1>4
  <2>2. urb[n].ep = e /\ Waiting(n)
    BY <1>1, <2>1 DEF IInv, Matched
  <2>3. held = {e}
    BY <1>1, <2>1, <2>2 DEF IInv, Matched
  <2>4. First(held) = e
    <3>1. e \in Int
      BY UsbAssumption DEF InEps
    <3> QED
      BY <2>3, <3>1 DEF First
  <2>5. in' = [in EXCEPT ![e] = NoIn]
    BY <1>4, <2>4 DEF usbipUnlink
  <2>6. urb' = [urb EXCEPT ![in[e].seq] = Answered(in[e].seq)]
    BY <1>1, <2>1, <2>2 DEF Answered, Waiting
  <2> QED
    BY <1>1, <1>2, <2>1, <2>5, <2>6, AnsweredIInv
<1> QED
  BY <1>3, <1>4

LEMMA FirmwareIInv ==
  ASSUME IInv, Firmware
  PROVE  IInv'
<1> USE RequestsUntouched DEF requestVars, controlVars, usbipVars
<1>1. ASSUME NEW m \in {NoMasks, AllMasks}, WriteMasks(m)
      PROVE  IInv'
  BY <1>1 DEF WriteMasks
<1>2. CASE reset
  BY <1>2, ResetIInv
<1>3. CASE ServiceInterrupt
  BY <1>3 DEF ServiceInterrupt
<1>10. CASE ReadNAKEV
  BY <1>10 DEF ReadNAKEV
<1>4. ASSUME NEW p \in Pipes, ReadTXS(p)
      PROVE  IInv'
  BY <1>4 DEF ReadTXS
<1>5. ASSUME NEW p \in Pipes, ReadRXS(p)
      PROVE  IInv'
  BY <1>5 DEF ReadRXS
<1>6. ASSUME NEW p \in Pipes, ReadRXD(p)
      PROVE  IInv'
  BY <1>6 DEF ReadRXD
<1>7. ASSUME NEW p \in Pipes, NEW en \in BOOLEAN, NEW flush \in BOOLEAN,
             NEW isLast \in BOOLEAN, WriteTXC(p, en, flush, isLast)
      PROVE  IInv'
  BY <1>7, TransmitIInv
<1>8. ASSUME NEW p \in Pipes, NEW en \in BOOLEAN, NEW flush \in BOOLEAN,
             WriteRXC(p, en, flush)
      PROVE  IInv'
  BY <1>8 DEF WriteRXC
<1>9. ASSUME NEW p \in Pipes, NEW dir \in {"tx", "rx"}, NEW en \in BOOLEAN,
             NEW ep \in Eps, WriteEPC(dir, p, en, ep)
      PROVE  IInv'
  BY <1>9, RemappedIInv
<1> QED
  BY <1>1, <1>2, <1>3, <1>4, <1>5, <1>6, <1>7, <1>8, <1>9, <1>10
     DEF Firmware

LEMMA HostIInv ==
  ASSUME IInv, Host
  PROVE  IInv'
<1>1. CASE Attach
  BY <1>1, RequestsUntouched DEF Attach, requestVars, devVars
<1>2. CASE Detach
  BY <1>2, RequestsUntouched DEF Detach, requestVars, devVars
<1>3. ASSUME NEW n \in Seqs, NEW ep \in Eps, NEW len \in InLens,
             usbipIn(n, ep, len)
      PROVE  IInv'
  BY <1>3, InIInv
<1>4. ASSUME NEW n \in Seqs, NEW ep \in Eps, NEW data \in OutData,
             usbipOut(n, ep, data)
      PROVE  IInv'
  BY <1>4, RequestsUntouched DEF usbipOut, requestVars, controlVars, usbipVars
<1>5. ASSUME NEW n \in Seqs, usbipUnlink(n)
      PROVE  IInv'
  BY <1>5, UnlinkIInv
<1> QED
  BY <1>1, <1>2, <1>3, <1>4, <1>5 DEF Host

LEMMA IInvInductive == IInv /\ [BulkNext]_bulkVars => IInv'
<1> SUFFICES ASSUME IInv, [BulkNext]_bulkVars PROVE IInv'
  OBVIOUS
<1>1. ASSUME NEW p \in Pipes, SendByte(p)
      PROVE  IInv'
  BY <1>1, RequestsUntouched
     DEF SendByte, WriteTXD, requestVars, controlVars, usbipVars
<1>2. CASE Firmware
  BY <1>2, FirmwareIInv
<1>3. CASE Host
  BY <1>3, HostIInv
<1>4. CASE UNCHANGED bulkVars
  BY <1>4, RequestsUntouched DEF bulkVars, vars, devVars, hostVars, requestVars
<1> QED
  BY <1>1, <1>2, <1>3, <1>4 DEF BulkNext

THEOREM RequestsMatched == BulkSpec => []IInv
BY InitIInv, IInvInductive, PTL DEF BulkSpec

(* On the data pipes usbip_client_reply() is only called for a request the *)
(* host waits for, whatever the firmware writes to TXCx and EPCx, and      *)
(* whatever is unlinked or reset in between. *)
THEOREM NoSpuriousAnswerAlways == BulkSpec => []NoSpuriousAnswer
<1>1. IInv => NoSpuriousAnswer
  BY DEF IInv
<1> QED
  BY <1>1, RequestsMatched, PTL

(* ... and usbipInSeqnum still holds every request the host waits for.     *)
THEOREM NoLostUrbAlways == BulkSpec => []NoLostUrb
<1>1. IInv => NoLostUrb
  BY DEF IInv, Matched, NoLostUrb
<1> QED
  BY <1>1, RequestsMatched, PTL

-----------------------------------------------------------------------------
(* The order of the data.  Of a sequence that ascends, any part, and what  *)
(* is left when a part is taken out, ascends as well. *)

Ascending(s) == \A i, j \in 1 .. Len(s) : i < j => s[i] < s[j]

LEMMA AscendingIncreases ==
  ASSUME NEW s \in Seq(Nat), Ascending(s)
  PROVE  Increasing(s)
BY DEF Ascending, Increasing

LEMMA FirstPart ==
  ASSUME NEW x \in Seq(Nat), NEW y \in Seq(Nat), Ascending(x \o y)
  PROVE  Ascending(x)
<1>1. /\ Len(x) \in Nat /\ Len(y) \in Nat /\ Len(x \o y) = Len(x) + Len(y)
      /\ \A i \in 1 .. Len(x) + Len(y) :
           (x \o y)[i] = IF i <= Len(x) THEN x[i] ELSE y[i - Len(x)]
  BY ConcatProperties
<1> SUFFICES ASSUME NEW i \in 1 .. Len(x), NEW j \in 1 .. Len(x), i < j
             PROVE  x[i] < x[j]
  BY DEF Ascending
<1>2. /\ i \in 1 .. Len(x \o y) /\ j \in 1 .. Len(x \o y)
      /\ (x \o y)[i] = x[i] /\ (x \o y)[j] = x[j]
  BY <1>1
<1> QED
  BY <1>2 DEF Ascending

LEMMA SecondPart ==
  ASSUME NEW x \in Seq(Nat), NEW y \in Seq(Nat), Ascending(x \o y)
  PROVE  Ascending(y)
<1>1. /\ Len(x) \in Nat /\ Len(y) \in Nat /\ Len(x \o y) = Len(x) + Len(y)
      /\ \A i \in 1 .. Len(x) + Len(y) :
           (x \o y)[i] = IF i <= Len(x) THEN x[i] ELSE y[i - Len(x)]
  BY ConcatProperties
<1> SUFFICES ASSUME NEW i \in 1 .. Len(y), NEW j \in 1 .. Len(y), i < j
             PROVE  y[i] < y[j]
  BY DEF Ascending
<1>2. /\ Len(x) + i \in 1 .. Len(x \o y) /\ Len(x) + j \in 1 .. Len(x \o y)
      /\ (x \o y)[Len(x) + i] = y[i] /\ (x \o y)[Len(x) + j] = y[j]
      /\ Len(x) + i < Len(x) + j
  BY <1>1
<1> QED
  BY <1>2 DEF Ascending

LEMMA WithoutMiddle ==
  ASSUME NEW x \in Seq(Nat), NEW y \in Seq(Nat), NEW z \in Seq(Nat),
         Ascending(x \o (y \o z))
  PROVE  Ascending(x \o z)
<1> DEFINE w == x \o (y \o z)
           v == x \o z
           m(i) == IF i <= Len(x) THEN i ELSE i + Len(y)
<1>1. /\ Len(x) \in Nat /\ Len(y) \in Nat /\ Len(z) \in Nat
      /\ y \o z \in Seq(Nat) /\ Len(y \o z) = Len(y) + Len(z)
      /\ \A i \in 1 .. Len(y) + Len(z) :
           (y \o z)[i] = IF i <= Len(y) THEN y[i] ELSE z[i - Len(y)]
  BY ConcatProperties
<1>2. /\ Len(w) = Len(x) + (Len(y) + Len(z))
      /\ \A i \in 1 .. Len(x) + (Len(y) + Len(z)) :
           w[i] = IF i <= Len(x) THEN x[i] ELSE (y \o z)[i - Len(x)]
  BY <1>1, ConcatProperties
<1>3. /\ Len(v) = Len(x) + Len(z)
      /\ \A i \in 1 .. Len(x) + Len(z) :
           v[i] = IF i <= Len(x) THEN x[i] ELSE z[i - Len(x)]
  BY ConcatProperties
<1> HIDE DEF w, v
<1>4. ASSUME NEW i \in 1 .. Len(v)
      PROVE  m(i) \in 1 .. Len(w) /\ v[i] = w[m(i)]
  <2>1. i \in 1 .. Len(x) + Len(z) /\ m(i) \in 1 .. Len(x) + (Len(y) + Len(z))
    BY <1>1, <1>3
  <2>2. CASE i <= Len(x)
    BY <1>2, <1>3, <2>1, <2>2
  <2>3. CASE ~(i <= Len(x))
    <3>1. /\ m(i) - Len(x) = (i - Len(x)) + Len(y)
          /\ (i - Len(x)) + Len(y) \in 1 .. Len(y) + Len(z)
          /\ ~((i - Len(x)) + Len(y) <= Len(y)) /\ ~(m(i) <= Len(x))
          /\ ((i - Len(x)) + Len(y)) - Len(y) = i - Len(x)
      BY <1>1, <2>1, <2>3
    <3>2. w[m(i)] = (y \o z)[(i - Len(x)) + Len(y)]
      BY <1>2, <2>1, <3>1
    <3>3. (y \o z)[(i - Len(x)) + Len(y)] = z[i - Len(x)]
      BY <1>1, <3>1
    <3> QED
      BY <1>2, <1>3, <2>1, <2>3, <3>2, <3>3
  <2> QED
    BY <2>2, <2>3
<1> SUFFICES ASSUME NEW i \in 1 .. Len(v), NEW j \in 1 .. Len(v), i < j
             PROVE  v[i] < v[j]
  BY DEF Ascending, v
<1>5. m(i) < m(j)
  BY <1>1
<1>6. Ascending(w)
  BY DEF w
<1> QED
  BY <1>4, <1>5, <1>6 DEF Ascending

LEMMA NextNumber ==
  ASSUME NEW n \in Nat, NEW s \in Seq(1 .. n), Ascending(s)
  PROVE  Ascending(Append(s, n + 1))
<1> DEFINE t == Append(s, n + 1)
<1>1. /\ Len(s) \in Nat /\ Len(t) = Len(s) + 1 /\ t[Len(s) + 1] = n + 1
      /\ \A i \in 1 .. Len(s) : t[i] = s[i] /\ s[i] \in 1 .. n
  OBVIOUS
<1> HIDE DEF t
<1> SUFFICES ASSUME NEW i \in 1 .. Len(s) + 1, NEW j \in 1 .. Len(s) + 1, i < j
             PROVE  t[i] < t[j]
  BY <1>1 DEF Ascending, t
<1>2. i \in 1 .. Len(s)
  BY <1>1
<1>3. CASE j = Len(s) + 1
  BY <1>1, <1>2, <1>3
<1>4. CASE j \in 1 .. Len(s)
  BY <1>1, <1>2, <1>4 DEF Ascending
<1>5. j = Len(s) + 1 \/ j \in 1 .. Len(s)
  BY <1>1
<1> QED
  BY <1>3, <1>4, <1>5

(* What a request takes from a FIFO, and what it leaves there.             *)
Cut(q, k, x, y) == Len(x) = k /\ q = x \o y

LEMMA TakenAndLeft ==
  ASSUME NEW S, NEW q \in Seq(S), NEW k \in 0 .. Len(q), NEW f, f.q = q
  PROVE  /\ SubSeq(q, 1, k) \in Seq(S) /\ Drop(f, k).q \in Seq(S)
         /\ Cut(q, k, SubSeq(q, 1, k), Drop(f, k).q)
<1> DEFINE x == SubSeq(q, 1, k)
           y == SubSeq(q, k + 1, Len(q))
<1>1. Len(q) \in Nat /\ \A i \in 1 .. Len(q) : q[i] \in S
  OBVIOUS
<1>2. x \in Seq(S) /\ Len(x) = k /\ \A i \in 1 .. k : x[i] = q[i]
  <2>1. \A i \in 1 .. k : q[i] \in S
    BY <1>1
  <2>2. /\ x \in Seq(S)
        /\ Len(x) = IF 1 <= k THEN k - 1 + 1 ELSE 0
        /\ \A i \in 1 .. k - 1 + 1 : x[i] = q[1 + i - 1]
    BY <2>1, SubSeqProperties
  <2> QED
    BY <1>1, <2>2
<1>3. y \in Seq(S) /\ Len(y) = Len(q) - k /\ \A i \in 1 .. Len(q) - k : y[i] = q[k + i]
  <2>1. \A i \in k + 1 .. Len(q) : q[i] \in S
    BY <1>1
  <2>2. /\ y \in Seq(S)
        /\ Len(y) = IF k + 1 <= Len(q) THEN Len(q) - (k + 1) + 1 ELSE 0
        /\ \A i \in 1 .. Len(q) - (k + 1) + 1 : y[i] = q[(k + 1) + i - 1]
    BY <1>1, <2>1, SubSeqProperties
  <2> QED
    BY <1>1, <2>2
<1> HIDE DEF x, y
<1>4. q = x \o y
  <2>1. /\ x \o y \in Seq(S) /\ Len(x \o y) = Len(x) + Len(y)
        /\ \A i \in 1 .. Len(x) + Len(y) :
             (x \o y)[i] = IF i <= Len(x) THEN x[i] ELSE y[i - Len(x)]
    BY <1>2, <1>3, ConcatProperties, Zenon
  <2>2. Len(x \o y) = Len(q)
    BY <1>1, <1>2, <1>3, <2>1
  <2>3. ASSUME NEW i \in 1 .. Len(q)
        PROVE  q[i] = (x \o y)[i]
    <3>1. CASE i <= k
      BY <1>1, <1>2, <1>3, <2>1, <3>1
    <3>2. CASE ~(i <= k)
      <4>1. i - k \in 1 .. Len(q) - k /\ k + (i - k) = i
        BY <1>1, <3>2
      <4> QED
        BY <1>1, <1>2, <1>3, <2>1, <3>2, <4>1
    <3> QED
      BY <3>1, <3>2
  <2> QED
    BY <2>1, <2>2, <2>3, SeqEqual
<1>5. y = Drop(f, k).q
  <2>1. CASE k = 0
    <3>1. x = << >>
      BY <1>2, <2>1
    <3>2. q = y
      BY <1>3, <1>4, <3>1, ConcatEmptySeq
    <3> QED
      BY <2>1, <3>2 DEF Drop
  <2>2. CASE k # 0
    BY <2>2 DEF Drop, y
  <2> QED
    BY <2>1, <2>2
<1> QED
  BY <1>2, <1>3, <1>4, <1>5 DEF Cut, x

-----------------------------------------------------------------------------
(* Each endpoint number is only ever given to the FIFO that owns it.       *)
OwnPipe(owner) == \A p \in Pipes : owner[epc.tx[p].ep] = p

(* The bytes on their way to a host, from what it was last given to what   *)
(* is still in the FIFO.  Without the numbers being bounded by sent the    *)
(* next byte written would not be known to follow them, and without the    *)
(* lengths a request might take bytes twice. *)
Ordered(owner) ==
  /\ sent \in Nat
  /\ DOMAIN reply = InEps /\ DOMAIN txFifo = Pipes
  /\ \A p \in Pipes : txFifo[p].q \in Seq(1 .. sent)
  /\ \A ep \in Eps : /\ reply[ep] \in Seq(1 .. sent)
                     /\ in[ep].data \in Seq(1 .. sent)
                     /\ in[ep].len \in Nat
                     /\ Len(in[ep].data) <= in[ep].len
  /\ \A ep \in Eps : owner[ep] \in Pipes =>
       Ascending(reply[ep] \o in[ep].data \o txFifo[owner[ep]].q)

orderVars == <<sent, reply, in, txFifo>>

LEMMA OrderUntouched ==
  ASSUME NEW owner, Ordered(owner), UNCHANGED orderVars
  PROVE  Ordered(owner)'
BY DEF Ordered, orderVars

LEMMA NumbersAreNumbers ==
  ASSUME NEW n \in Nat, NEW s \in Seq(1 .. n)
  PROVE  s \in Seq(Nat) /\ s \in Seq(1 .. n + 1)
BY SeqMonotonic

LEMMA InitOrdered ==
  ASSUME NEW owner, BulkInit
  PROVE  Ordered(owner)
<1>1. << >> \in Seq(1 .. 0) /\ Len(<< >>) = 0 /\ << >> \o << >> \o << >> = << >>
  BY EmptySeq, ConcatEmptySeq
<1>2. Ascending(<< >>)
  BY DEF Ascending
<1>3. Pipe!EmptyFifo.q = << >> /\ NoIn.data = << >> /\ NoIn.len = 0
  BY DEF Pipe!EmptyFifo, NoIn
<1>4. Eps \subseteq InEps
  BY DEF InEps
<1>5. /\ sent = 0 /\ sent \in Nat /\ DOMAIN reply = InEps /\ DOMAIN txFifo = Pipes
      /\ \A p \in Pipes : txFifo[p].q = << >>
      /\ \A ep \in Eps : /\ reply[ep] = << >> /\ in[ep].data = << >>
                         /\ in[ep].len = 0
  BY <1>3, <1>4 DEF BulkInit, Quiet
<1>6. \A ep \in Eps : owner[ep] \in Pipes =>
         Ascending(reply[ep] \o in[ep].data \o txFifo[owner[ep]].q)
  BY <1>1, <1>2, <1>5
<1>7. /\ \A p \in Pipes : txFifo[p].q \in Seq(1 .. sent)
      /\ \A ep \in Eps : /\ reply[ep] \in Seq(1 .. sent)
                         /\ in[ep].data \in Seq(1 .. sent)
  BY <1>1, <1>5
<1>8. \A ep \in Eps : in[ep].len \in Nat /\ Len(in[ep].data) <= in[ep].len
  BY <1>1, <1>5
<1> QED
  BY <1>5, <1>6, <1>7, <1>8 DEF Ordered

LEMMA CollectedData ==
  ASSUME NEW r, NEW f, r = [seq |-> r.seq, len |-> r.len, data |-> r.data]
  PROVE  /\ Collected(r, f).data = r.data \o SubSeq(f.q, 1, Fitting(r, f))
         /\ Collected(r, f).len = r.len
<1> DEFINE d == r.data \o SubSeq(f.q, 1, Fitting(r, f))
<1>1. Collected(r, f) = [r EXCEPT !.data = d]
  BY DEF Collected
<1> HIDE DEF d
<1>2. \A s, l, x, y : /\ [[seq |-> s, len |-> l, data |-> x] EXCEPT !.data = y].data = y
                      /\ [[seq |-> s, len |-> l, data |-> x] EXCEPT !.data = y].len = l
  OBVIOUS
<1>3. [r EXCEPT !.data = d].data = d /\ [r EXCEPT !.data = d].len = r.len
  BY <1>2
<1> QED
  BY <1>1, <1>3 DEF d

LEMMA FittingFits ==
  ASSUME NEW S, NEW f, f.q \in Seq(S), NEW r, r.len \in Nat, NEW T,
         r.data \in Seq(T), Len(r.data) <= r.len
  PROVE  /\ Fitting(r, f) \in 0 .. Len(f.q)
         /\ Len(r.data) + Fitting(r, f) <= r.len
<1>1. Len(f.q) \in Nat /\ Len(r.data) \in Nat
  OBVIOUS
<1> QED
  BY <1>1 DEF Fitting, Least

LEMMA NatsAssociate ==
  ASSUME NEW x \in Seq(Nat), NEW y \in Seq(Nat), NEW z \in Seq(Nat)
  PROVE  x \o y \o z = x \o (y \o z)
BY ConcatAssociative, Z3

LEMMA MiddleAssociates ==
  ASSUME NEW x \in Seq(Nat), NEW z \in Seq(Nat)
  PROVE  \A y \in Seq(Nat) : x \o y \o z = x \o (y \o z)
BY NatsAssociate, Zenon

(* The bytes a \o b \o q, q being x \o y, when x is taken: by the request   *)
(* that holds b, by one that is answered with them, and by another one.    *)
LEMMA Regrouped ==
  ASSUME NEW a \in Seq(Nat), NEW b \in Seq(Nat), NEW x \in Seq(Nat),
         NEW y \in Seq(Nat)
  PROVE  Ascending(a \o b \o (x \o y)) =>
           /\ Ascending(a \o (b \o x) \o y)
           /\ Ascending((b \o x) \o << >> \o y)
           /\ Ascending(a \o b \o y)
<1>1. /\ a \o b \in Seq(Nat) /\ b \o x \in Seq(Nat) /\ x \o y \in Seq(Nat)
      /\ (b \o x) \o y \in Seq(Nat)
  BY ConcatProperties
<1>2. a \o b \o (x \o y) = a \o (b \o (x \o y))
  <2>1. \A z \in Seq(Nat) : a \o b \o z = a \o (b \o z)
    BY NatsAssociate, Zenon
  <2> QED
    BY <1>1, <2>1, Zenon
<1>3. b \o (x \o y) = (b \o x) \o y
  BY NatsAssociate, Zenon
<1>4. a \o (b \o x) \o y = a \o ((b \o x) \o y)
  <2>1. \A z \in Seq(Nat) : a \o z \o y = a \o (z \o y)
    BY MiddleAssociates, Zenon
  <2> QED
    BY <1>1, <2>1, Zenon
<1>6. (b \o x) \o << >> = b \o x
  BY <1>1, ConcatEmptySeq
<1> SUFFICES ASSUME Ascending(a \o b \o (x \o y))
             PROVE  /\ Ascending(a \o (b \o x) \o y)
                    /\ Ascending((b \o x) \o << >> \o y)
                    /\ Ascending(a \o b \o y)
  OBVIOUS
<1>5. Ascending(a \o ((b \o x) \o y))
  BY <1>2, <1>3
<1>7. Ascending((b \o x) \o y)
  BY <1>1, <1>5, SecondPart
<1>8. Ascending(a \o b \o y)
  BY <1>1, WithoutMiddle
<1> QED
  BY <1>4, <1>5, <1>6, <1>7, <1>8

(* A request moves bytes from the FIFO behind its endpoint to its answer.  *)
(* f is the FIFO after a flush, if there was one, and r the request, new   *)
(* or known.                                                               *)
LEMMA CollectingOrdered ==
  ASSUME NEW owner, Ordered(owner), NEW ep \in Eps, NEW p \in Pipes,
         owner[ep] = p,
         DOMAIN in = InEps,
         NEW r, r = [seq |-> r.seq, len |-> r.len, data |-> r.data],
         r.len \in Nat, r.data \in Seq(1 .. sent), Len(r.data) <= r.len,
         NEW f, f.q \in Seq(1 .. sent),
         Ascending(reply[ep] \o r.data \o f.q),
         \A e \in Eps : owner[e] = p => Ascending(reply[e] \o in[e].data \o f.q),
         NEW done \in BOOLEAN,
         txFifo' = [txFifo EXCEPT ![p] = Drop(f, Fitting(r, f))],
         in' = [in EXCEPT ![ep] = IF done THEN NoIn ELSE Collected(r, f)],
         reply' = IF done THEN [reply EXCEPT ![ep] = Collected(r, f).data]
                  ELSE reply,
         UNCHANGED sent
  PROVE  Ordered(owner)'
<1>1. sent \in Nat /\ DOMAIN reply = InEps /\ DOMAIN txFifo = Pipes /\ ep \in InEps
  BY DEF Ordered, InEps
<1>2. PICK k : k = Fitting(r, f)
  OBVIOUS
<1>3. k \in 0 .. Len(f.q) /\ Len(r.data) + k <= r.len
  BY <1>2, FittingFits
<1>4. PICK x, y : x = SubSeq(f.q, 1, k) /\ y = Drop(f, k).q
  OBVIOUS
<1>cut. /\ x \in Seq(1 .. sent) /\ y \in Seq(1 .. sent)
       /\ Len(x) = k /\ f.q = x \o y
  <2>1. /\ x \in Seq(1 .. sent) /\ y \in Seq(1 .. sent)
        /\ Cut(f.q, k, x, y)
    BY <1>3, <1>4, TakenAndLeft
  <2> QED
    BY <2>1 DEF Cut
<1>5. PICK got : got = Collected(r, f)
  OBVIOUS
<1>6. got.data = r.data \o x /\ got.len = r.len
  BY <1>2, <1>4, <1>5, CollectedData
<1>7. /\ \A e \in InEps : in'[e] = IF e = ep THEN IF done THEN NoIn ELSE got
                                   ELSE in[e]
      /\ \A e \in InEps : reply'[e] = IF done /\ e = ep THEN got.data ELSE reply[e]
      /\ \A q \in Pipes : txFifo'[q].q = IF q = p THEN y ELSE txFifo[q].q
      /\ DOMAIN reply' = InEps /\ DOMAIN txFifo' = Pipes
  BY <1>1, <1>2, <1>4, <1>5
<1>8. NoIn.data = << >> /\ NoIn.len = 0 /\ Len(<< >>) = 0
  BY DEF NoIn
<1>9. Eps \subseteq InEps
  BY DEF InEps
<1>10. \A e \in Eps : /\ reply[e] \in Seq(1 .. sent) /\ in[e].data \in Seq(1 .. sent)
                      /\ in[e].len \in Nat /\ Len(in[e].data) <= in[e].len
  BY DEF Ordered
<1>11. got.data \in Seq(1 .. sent) /\ Len(got.data) = Len(r.data) + k
  BY <1>6, <1>cut, ConcatProperties
<1>12. \A q \in Pipes : txFifo'[q].q \in Seq(1 .. sent)
  BY <1>7, <1>cut DEF Ordered
<1>13. ASSUME NEW e \in Eps
       PROVE  /\ reply'[e] \in Seq(1 .. sent) /\ in'[e].data \in Seq(1 .. sent)
              /\ in'[e].len \in Nat /\ Len(in'[e].data) <= in'[e].len
  <2>1. CASE e # ep
    <3>1. reply'[e] = reply[e] /\ in'[e] = in[e]
      BY <1>7, <1>9, <2>1
    <3> QED
      BY <1>10, <3>1
  <2>2. CASE e = ep /\ done
    <3>1. reply'[e] = got.data /\ in'[e] = NoIn
      BY <1>7, <1>9, <2>2
    <3>2. << >> \in Seq(1 .. sent)
      BY EmptySeq
    <3>3. reply'[e] \in Seq(1 .. sent)
      BY <1>11, <3>1
    <3>4. in'[e].data \in Seq(1 .. sent)
      BY <1>8, <3>1, <3>2
    <3>5. in'[e].len \in Nat /\ Len(in'[e].data) <= in'[e].len
      BY <1>8, <3>1
    <3> QED
      BY <3>3, <3>4, <3>5
  <2>3. CASE e = ep /\ ~done
    <3>1. reply'[e] = reply[e] /\ in'[e] = got
      BY <1>7, <1>9, <2>3
    <3> QED
      BY <1>3, <1>6, <1>10, <1>11, <3>1
  <2> QED
    BY <2>1, <2>2, <2>3
<1>14. \A s \in Seq(1 .. sent) : s \in Seq(Nat)
  BY <1>1, NumbersAreNumbers
<1>15. ASSUME NEW e \in Eps, owner[e] \in Pipes
       PROVE  Ascending(reply'[e] \o in'[e].data \o txFifo'[owner[e]].q)
  <2>1. CASE owner[e] # p
    <3>1. /\ reply'[e] = reply[e] /\ in'[e] = in[e]
          /\ txFifo'[owner[e]].q = txFifo[owner[e]].q
      BY <1>7, <1>9, <1>15, <2>1
    <3> QED
      BY <1>15, <3>1 DEF Ordered
  <2>2. CASE owner[e] = p
    <3>1. txFifo'[owner[e]].q = y /\ x \in Seq(Nat) /\ y \in Seq(Nat)
      BY <1>7, <1>14, <1>cut, <2>2
    <3>2. CASE e # ep
      <4>1. reply'[e] = reply[e] /\ in'[e] = in[e]
        BY <1>7, <1>9, <3>2
      <4>2. Ascending(reply[e] \o in[e].data \o (x \o y))
        BY <1>cut, <2>2
      <4>3. reply[e] \in Seq(Nat) /\ in[e].data \in Seq(Nat)
        BY <1>10, <1>14
      <4>4. Ascending(reply[e] \o in[e].data \o y)
        BY <3>1, <4>2, <4>3, Regrouped
      <4> QED
        BY <3>1, <4>1, <4>4
    <3>3. CASE e = ep
      <4>1. Ascending(reply[ep] \o r.data \o (x \o y))
        BY <1>cut
      <4>2. reply[ep] \in Seq(Nat) /\ r.data \in Seq(Nat)
        BY <1>10, <1>14
      <4>3. /\ Ascending(reply[ep] \o (r.data \o x) \o y)
            /\ Ascending((r.data \o x) \o << >> \o y)
        BY <3>1, <4>1, <4>2, Regrouped
      <4>4. CASE done
        <5>1. reply'[e] = r.data \o x /\ in'[e].data = << >>
          BY <1>6, <1>7, <1>8, <1>9, <3>3, <4>4
        <5> QED
          BY <3>1, <4>3, <5>1
      <4>5. CASE ~done
        <5>1. reply'[e] = reply[ep] /\ in'[e].data = r.data \o x
          BY <1>6, <1>7, <1>9, <3>3, <4>5
        <5> QED
          BY <3>1, <4>3, <5>1
      <4> QED
        BY <4>4, <4>5
    <3> QED
      BY <3>2, <3>3
  <2> QED
    BY <2>1, <2>2
<1> QED
  BY <1>1, <1>7, <1>12, <1>13, <1>15 DEF Ordered

LEMMA Reassociated ==
  ASSUME NEW x \in Seq(Nat), NEW y \in Seq(Nat), NEW z \in Seq(Nat)
  PROVE  Ascending(x \o y \o z) <=> Ascending(x \o (y \o z))
<1>1. x \o y \o z = x \o (y \o z)
  BY NatsAssociate
<1> QED
  BY <1>1

(* Of what is on its way, any of the three parts may be thrown away.       *)
LEMMA PartsLeft ==
  ASSUME NEW a \in Seq(Nat), NEW b \in Seq(Nat), NEW q \in Seq(Nat),
         Ascending(a \o b \o q),
         NEW c \in {a, << >>}, NEW d \in {b, << >>}, NEW r \in {q, << >>}
  PROVE  Ascending(c \o d \o r)
<1>1. << >> \in Seq(Nat)
  BY EmptySeq
<1>2. c \in Seq(Nat) /\ d \in Seq(Nat) /\ r \in Seq(Nat)
  BY <1>1
<1>3. /\ a \o b \in Seq(Nat) /\ a \o d \in Seq(Nat) /\ d \o r \in Seq(Nat)
      /\ c \o d \in Seq(Nat) /\ b \o r \in Seq(Nat)
  BY <1>2, ConcatProperties
<1>4. Ascending(a \o b \o r)
  <2>1. CASE r = q
    BY <2>1
  <2>2. CASE r = << >>
    <3>1. (a \o b) \o r = a \o b
      BY <1>3, <2>2, ConcatEmptySeq
    <3>2. Ascending(a \o b)
      BY <1>3, FirstPart
    <3> QED
      BY <3>1, <3>2
  <2> QED
    BY <2>1, <2>2
<1>5. Ascending(a \o (d \o r))
  <2>1. Ascending(a \o (b \o r))
    BY <1>2, <1>4, Reassociated
  <2>2. CASE d = b
    BY <2>1, <2>2
  <2>3. CASE d = << >>
    <3>1. d \o r = r
      BY <1>2, <2>3, ConcatEmptySeq
    <3>2. Ascending(a \o r)
      BY <1>2, <2>1, WithoutMiddle
    <3> QED
      BY <3>1, <3>2
  <2> QED
    BY <2>2, <2>3
<1>6. Ascending(c \o (d \o r))
  <2>1. CASE c = a
    BY <1>5, <2>1
  <2>2. CASE c = << >>
    <3>1. c \o (d \o r) = d \o r
      BY <1>3, <2>2, ConcatEmptySeq
    <3>2. Ascending(d \o r)
      BY <1>3, <1>5, SecondPart
    <3> QED
      BY <3>1, <3>2
  <2> QED
    BY <2>1, <2>2
<1> QED
  BY <1>2, <1>6, Reassociated

LEMMA ThrownAwayOrdered ==
  ASSUME NEW owner, Ordered(owner), UNCHANGED sent,
         DOMAIN reply' = InEps, DOMAIN txFifo' = Pipes,
         \A p \in Pipes : txFifo'[p].q \in {txFifo[p].q, << >>},
         \A e \in Eps : reply'[e] \in {reply[e], << >>},
         \A e \in Eps : \/ in'[e] = in[e]
                        \/ in'[e].data = << >> /\ in'[e].len \in Nat
  PROVE  Ordered(owner)'
<1>1. << >> \in Seq(1 .. sent) /\ Len(<< >>) = 0 /\ sent \in Nat
  BY EmptySeq DEF Ordered
<1>2. \A s \in Seq(1 .. sent) : s \in Seq(Nat)
  BY <1>1, NumbersAreNumbers
<1>3. \A p \in Pipes : txFifo[p].q \in Seq(1 .. sent) /\ txFifo'[p].q \in Seq(1 .. sent)
  BY <1>1 DEF Ordered
<1>4. ASSUME NEW e \in Eps
      PROVE  /\ reply[e] \in Seq(1 .. sent) /\ reply'[e] \in Seq(1 .. sent)
             /\ in[e].data \in Seq(1 .. sent) /\ in'[e].data \in Seq(1 .. sent)
             /\ in'[e].len \in Nat /\ Len(in'[e].data) <= in'[e].len
             /\ in'[e].data \in {in[e].data, << >>}
  <2>1. /\ reply[e] \in Seq(1 .. sent) /\ in[e].data \in Seq(1 .. sent)
        /\ in[e].len \in Nat /\ Len(in[e].data) <= in[e].len
    BY DEF Ordered
  <2>2. reply'[e] \in Seq(1 .. sent)
    BY <1>1, <2>1
  <2>3. CASE in'[e] = in[e]
    BY <2>1, <2>2, <2>3
  <2>4. CASE in'[e].data = << >> /\ in'[e].len \in Nat
    <3>1. Len(in'[e].data) <= in'[e].len
      BY <1>1, <2>4
    <3>2. in'[e].data \in Seq(1 .. sent)
      BY <1>1, <2>4
    <3> QED
      BY <2>1, <2>2, <2>4, <3>1, <3>2
  <2> QED
    BY <2>3, <2>4
<1>5. ASSUME NEW e \in Eps, owner[e] \in Pipes
      PROVE  Ascending(reply'[e] \o in'[e].data \o txFifo'[owner[e]].q)
  <2>1. Ascending(reply[e] \o in[e].data \o txFifo[owner[e]].q)
    BY <1>5 DEF Ordered
  <2>2. /\ reply[e] \in Seq(Nat) /\ in[e].data \in Seq(Nat)
        /\ txFifo[owner[e]].q \in Seq(Nat)
    BY <1>2, <1>3, <1>4, <1>5
  <2>3. /\ reply'[e] \in {reply[e], << >>} /\ in'[e].data \in {in[e].data, << >>}
        /\ txFifo'[owner[e]].q \in {txFifo[owner[e]].q, << >>}
    BY <1>4, <1>5
  <2>4. PICK a, b, q, c, d, r :
          /\ a = reply[e] /\ b = in[e].data /\ q = txFifo[owner[e]].q
          /\ c = reply'[e] /\ d = in'[e].data /\ r = txFifo'[owner[e]].q
    OBVIOUS
  <2>5. Ascending(c \o d \o r)
    <3>1. /\ Ascending(a \o b \o q)
          /\ a \in Seq(Nat) /\ b \in Seq(Nat) /\ q \in Seq(Nat)
          /\ c \in {a, << >>} /\ d \in {b, << >>} /\ r \in {q, << >>}
      BY <2>1, <2>2, <2>3, <2>4
    <3> QED
      BY <3>1, PartsLeft
  <2> QED
    BY <2>4, <2>5
<1> QED
  BY <1>1, <1>3, <1>4, <1>5 DEF Ordered

(* The next byte the firmware writes.                                      *)
LEMMA AscendingOn ==
  ASSUME NEW n \in Nat, NEW w \in Seq(1 .. n), NEW q \in Seq(1 .. n),
         Ascending(w \o q)
  PROVE  Ascending(w \o Append(q, n + 1))
<1>1. q \in Seq(Nat) /\ w \in Seq(Nat) /\ << n + 1 >> \in Seq(Nat)
  BY NumbersAreNumbers
<1>2. Append(q, n + 1) = q \o << n + 1 >>
  BY <1>1, AppendIsConcat
<1>3. PICK v : v = w \o q
  OBVIOUS
<1>4. v \in Seq(1 .. n) /\ v \in Seq(Nat)
  BY <1>1, <1>3, ConcatProperties
<1>5. Append(v, n + 1) = v \o << n + 1 >>
  BY <1>1, <1>4, AppendIsConcat
<1>6. (w \o q) \o << n + 1 >> = w \o (q \o << n + 1 >>)
  BY <1>1, NatsAssociate
<1>7. Ascending(Append(v, n + 1))
  BY <1>3, <1>4, NextNumber
<1> QED
  BY <1>2, <1>3, <1>5, <1>6, <1>7

LEMMA SentOrdered ==
  ASSUME NEW owner, Ordered(owner), NEW p \in Pipes, SendByte(p)
  PROVE  Ordered(owner)'
<1>1. /\ sent' = sent + 1
      /\ txFifo' = [txFifo EXCEPT ![p] = IF @.full THEN @ ELSE Pipe!Push(@, sent + 1)]
      /\ UNCHANGED <<in, reply>>
  BY DEF SendByte, WriteTXD, usbipVars
<1>2. sent \in Nat /\ DOMAIN reply = InEps /\ DOMAIN txFifo = Pipes
  BY DEF Ordered
<1>3. \A s \in Seq(1 .. sent) : s \in Seq(1 .. sent + 1)
  BY <1>2, NumbersAreNumbers
<1>4. \A q \in Pipes : \/ txFifo'[q] = txFifo[q]
                       \/ txFifo'[q].q = Append(txFifo[q].q, sent + 1)
  <2>1. \A q \in Pipes : txFifo'[q] =
          IF q = p THEN IF txFifo[p].full THEN txFifo[p]
                        ELSE Pipe!Push(txFifo[p], sent + 1)
          ELSE txFifo[q]
    BY <1>1, <1>2
  <2>2. ~txFifo[p].full => Pipe!Push(txFifo[p], sent + 1).q = Append(txFifo[p].q, sent + 1)
    BY DEF Pipe!Push
  <2> QED
    BY <2>1, <2>2
<1>5. /\ \A q \in Pipes : txFifo[q].q \in Seq(1 .. sent)
      /\ \A e \in Eps : reply[e] \in Seq(1 .. sent) /\ in[e].data \in Seq(1 .. sent)
  BY DEF Ordered
<1>6. \A q \in Pipes : txFifo'[q].q \in Seq(1 .. sent')
  <2> SUFFICES ASSUME NEW q \in Pipes
               PROVE  txFifo'[q].q \in Seq(1 .. sent + 1)
    BY <1>1
  <2>1. txFifo[q].q \in Seq(1 .. sent + 1) /\ sent + 1 \in 1 .. sent + 1
    BY <1>2, <1>3, <1>5
  <2>2. Append(txFifo[q].q, sent + 1) \in Seq(1 .. sent + 1)
    BY <2>1, AppendProperties
  <2> QED
    BY <1>4, <2>1, <2>2
<1>7. ASSUME NEW e \in Eps, owner[e] \in Pipes
      PROVE  Ascending(reply'[e] \o in'[e].data \o txFifo'[owner[e]].q)
  <2>1. /\ Ascending(reply[e] \o in[e].data \o txFifo[owner[e]].q)
        /\ reply'[e] = reply[e] /\ in'[e] = in[e]
    BY <1>1, <1>7 DEF Ordered
  <2>2. CASE txFifo'[owner[e]] = txFifo[owner[e]]
    BY <2>1, <2>2
  <2>3. CASE txFifo'[owner[e]].q = Append(txFifo[owner[e]].q, sent + 1)
    <3>1. reply[e] \o in[e].data \in Seq(1 .. sent)
      BY <1>5, ConcatProperties
    <3>2. Ascending(reply[e] \o in[e].data \o Append(txFifo[owner[e]].q, sent + 1))
      BY <1>2, <1>5, <1>7, <2>1, <3>1, AscendingOn
    <3> QED
      BY <2>1, <2>3, <3>2
  <2> QED
    BY <1>4, <1>7, <2>2, <2>3
<1>8. \A e \in Eps : /\ reply'[e] \in Seq(1 .. sent') /\ in'[e].data \in Seq(1 .. sent')
                     /\ in'[e].len \in Nat /\ Len(in'[e].data) <= in'[e].len
  BY <1>1, <1>3, <1>5 DEF Ordered
<1>9. sent' \in Nat /\ DOMAIN reply' = InEps /\ DOMAIN txFifo' = Pipes
  BY <1>1, <1>2
<1> QED
  BY <1>6, <1>7, <1>8, <1>9 DEF Ordered

LEMMA TransmitOrdered ==
  ASSUME IInv, NEW owner, OwnPipe(owner), Ordered(owner),
         NEW p \in Pipes, NEW en \in BOOLEAN, NEW flush \in BOOLEAN,
         NEW isLast \in BOOLEAN, WriteTXC(p, en, flush, isLast), UNCHANGED sent
  PROVE  Ordered(owner)'
<1>1. PICK f : f = IF flush THEN Pipe!EmptyFifo ELSE txFifo[p]
  OBVIOUS
<1>2. PICK ep : ep = epc.tx[p].ep
  OBVIOUS
<1>3. ep \in Eps /\ ep \in InEps /\ owner[ep] = p
  BY <1>2 DEF IInv, Shapes, EndpointControl, InEps, OwnPipe
<1>4. f.q \in {txFifo[p].q, << >>}
  BY <1>1 DEF Pipe!EmptyFifo
<1>5. sent \in Nat /\ DOMAIN reply = InEps /\ DOMAIN txFifo = Pipes
  BY DEF Ordered
<1>6. CASE en /\ server /\ in[ep].seq # NoSeq
  <2>1. PICK r : r = in[ep]
    OBVIOUS
  <2>2. PICK done \in BOOLEAN : done <=> (Len(Collected(r, f).data) = r.len \/ isLast)
    OBVIOUS
  <2>3. /\ Collect(p, ep, r, f, isLast)
        /\ IF done THEN Answer(r.seq, ep, Collected(r, f).data)
           ELSE UNCHANGED <<urb, reply>>
    BY <1>1, <1>2, <1>6, <2>1, <2>2 DEF WriteTXC
  <2>4. /\ r = [seq |-> r.seq, len |-> r.len, data |-> r.data]
        /\ DOMAIN in = InEps
    BY <1>3, <2>1 DEF IInv, Shapes
  <2>5. done <=> (Len(Collected(r, f).data) = Collected(r, f).len \/ isLast)
    BY <2>2, <2>4, CollectedData
  <2>6. /\ txFifo' = [txFifo EXCEPT ![p] = Drop(f, Fitting(r, f))]
        /\ in' = [in EXCEPT ![ep] = IF done THEN NoIn ELSE Collected(r, f)]
        /\ reply' = IF done THEN [reply EXCEPT ![ep] = Collected(r, f).data]
                    ELSE reply
    BY <2>3, <2>5 DEF Collect, Answer
  <2>7. r.len \in Nat /\ r.data \in Seq(1 .. sent) /\ Len(r.data) <= r.len
    BY <1>3, <2>1 DEF Ordered
  <2>8. f.q \in Seq(1 .. sent)
    <3>1. txFifo[p].q \in Seq(1 .. sent) /\ << >> \in Seq(1 .. sent)
      BY EmptySeq DEF Ordered
    <3> QED
      BY <1>4, <3>1
  <2>9. ASSUME NEW e \in Eps, owner[e] = p
        PROVE  Ascending(reply[e] \o in[e].data \o f.q)
    <3>1. /\ reply[e] \in Seq(Nat) /\ in[e].data \in Seq(Nat)
          /\ txFifo[p].q \in Seq(Nat)
      BY <1>5, NumbersAreNumbers DEF Ordered
    <3>2. Ascending(reply[e] \o in[e].data \o txFifo[p].q)
      BY <2>9 DEF Ordered
    <3>3. reply[e] \in {reply[e], << >>} /\ in[e].data \in {in[e].data, << >>}
      OBVIOUS
    <3> QED
      BY <1>4, <3>1, <3>2, <3>3, PartsLeft
  <2>10. Ascending(reply[ep] \o r.data \o f.q)
    BY <1>3, <2>1, <2>9
  <2> QED
    BY <1>3, <2>4, <2>6, <2>7, <2>8, <2>9, <2>10, CollectingOrdered
<1>7. CASE ~(en /\ server /\ in[ep].seq # NoSeq)
  <2>1. txFifo' = [txFifo EXCEPT ![p] = f] /\ UNCHANGED <<in, reply>>
    BY <1>1, <1>2, <1>7 DEF WriteTXC
  <2>2. /\ \A q \in Pipes : txFifo'[q].q \in {txFifo[q].q, << >>}
        /\ DOMAIN txFifo' = Pipes /\ DOMAIN reply' = InEps
    BY <1>4, <1>5, <2>1
  <2> QED
    BY <2>1, <2>2, ThrownAwayOrdered
<1> QED
  BY <1>6, <1>7

LEMMA FirstIsIn ==
  ASSUME NEW S \in SUBSET Nat, S # {}
  PROVE  First(S) \in S
<1>1. \E m \in S : \A k \in S : m <= k
  BY LeastNumber
<1> QED
  BY <1>1 DEF First

LEMMA InOrdered ==
  ASSUME IInv, NEW owner, OwnPipe(owner), Ordered(owner),
         NEW n \in Seqs, NEW ep \in Eps, NEW len \in InLens,
         usbipIn(n, ep, len), UNCHANGED sent
  PROVE  Ordered(owner)'
<1>1. PICK p : p = First(Mapped("tx", ep))
  OBVIOUS
<1>2. p \in Pipes /\ owner[ep] = p
  <2>1. Mapped("tx", ep) \in SUBSET Nat /\ Mapped("tx", ep) # {}
    BY UsbAssumption DEF usbipIn, Mapped
  <2>2. p \in Mapped("tx", ep)
    BY <1>1, <2>1, FirstIsIn
  <2> QED
    BY <2>2 DEF Mapped, OwnPipe
<1>3. PICK r, f : r = NewIn(n, len) /\ f = txFifo[p]
  OBVIOUS
<1>4. /\ r = [seq |-> r.seq, len |-> r.len, data |-> r.data]
      /\ r.len = len /\ r.len \in Nat /\ r.data = << >>
  BY <1>3, BulkAssumption DEF NewIn
<1>5. /\ sent \in Nat /\ DOMAIN reply = InEps /\ DOMAIN txFifo = Pipes
      /\ DOMAIN in = InEps /\ ep \in InEps
  BY DEF Ordered, IInv, Shapes, InEps
<1>6. CASE p \in enable.tx
  <2>1. PICK done \in BOOLEAN : done <=> (Len(Collected(r, f).data) = len \/ p \in last)
    OBVIOUS
  <2>2. /\ Collect(p, ep, r, f, p \in last)
        /\ reply' = IF done THEN [reply EXCEPT ![ep] = Collected(r, f).data]
                    ELSE reply
    BY <1>1, <1>3, <1>6, <2>1 DEF usbipIn
  <2>3. done <=> (Len(Collected(r, f).data) = Collected(r, f).len \/ p \in last)
    BY <1>4, <2>1, CollectedData
  <2>4. /\ txFifo' = [txFifo EXCEPT ![p] = Drop(f, Fitting(r, f))]
        /\ in' = [in EXCEPT ![ep] = IF done THEN NoIn ELSE Collected(r, f)]
    BY <2>2, <2>3 DEF Collect
  <2>5. r.data \in Seq(1 .. sent) /\ Len(r.data) <= r.len
    <3>1. << >> \in Seq(1 .. sent) /\ Len(<< >>) = 0
      BY EmptySeq
    <3> QED
      BY <1>4, <3>1
  <2>6. f.q \in Seq(1 .. sent)
    BY <1>2, <1>3 DEF Ordered
  <2>7. \A e \in Eps : owner[e] = p => Ascending(reply[e] \o in[e].data \o f.q)
    BY <1>2, <1>3 DEF Ordered
  <2>8. Ascending(reply[ep] \o r.data \o f.q)
    <3>1. reply[ep] \in Seq(Nat) /\ in[ep].data \in Seq(Nat) /\ f.q \in Seq(Nat)
      BY <1>5, <2>6, NumbersAreNumbers DEF Ordered
    <3>2. /\ reply[ep] \in {reply[ep], << >>} /\ r.data \in {in[ep].data, << >>}
          /\ f.q \in {f.q, << >>}
      BY <1>4
    <3> QED
      BY <1>2, <2>7, <3>1, <3>2, PartsLeft
  <2> QED
    BY <1>2, <1>4, <1>5, <2>2, <2>4, <2>5, <2>6, <2>7, <2>8, CollectingOrdered
<1>7. CASE p \notin enable.tx
  <2>1. in' = [in EXCEPT ![ep] = r] /\ UNCHANGED <<txFifo, reply>>
    BY <1>1, <1>3, <1>7 DEF usbipIn
  <2>2. \A e \in Eps : in'[e] = in[e] \/ (in'[e].data = << >> /\ in'[e].len \in Nat)
    BY <1>4, <1>5, <2>1 DEF InEps
  <2> QED
    BY <1>5, <2>1, <2>2, ThrownAwayOrdered
<1> QED
  BY <1>6, <1>7

LEMMA StepOrdered ==
  ASSUME IInv, NEW owner, OwnPipe(owner), Ordered(owner), [BulkNext]_bulkVars
  PROVE  Ordered(owner)'
<1>1. ASSUME NEW p \in Pipes, SendByte(p)
      PROVE  Ordered(owner)'
  BY <1>1, SentOrdered
<1>2. ASSUME NEW p \in Pipes, NEW en \in BOOLEAN, NEW flush \in BOOLEAN,
             NEW isLast \in BOOLEAN, WriteTXC(p, en, flush, isLast), UNCHANGED sent
      PROVE  Ordered(owner)'
  BY <1>2, TransmitOrdered
<1>3. ASSUME NEW n \in Seqs, NEW ep \in Eps, NEW len \in InLens,
             usbipIn(n, ep, len), UNCHANGED sent
      PROVE  Ordered(owner)'
  BY <1>3, InOrdered
<1>4. NoIn.data = << >> /\ NoIn.len \in Nat /\ Eps \subseteq InEps
  BY DEF NoIn, InEps
<1>5. DOMAIN reply = InEps /\ DOMAIN txFifo = Pipes /\ DOMAIN in = InEps
  BY DEF Ordered, IInv, Shapes
<1>6. CASE reset /\ UNCHANGED sent
  BY <1>4, <1>5, <1>6, ThrownAwayOrdered DEF reset
<1>7. ASSUME NEW n \in Seqs, usbipUnlink(n), UNCHANGED sent
      PROVE  Ordered(owner)'
  <2>1. /\ UNCHANGED <<txFifo, reply>>
        /\ \/ UNCHANGED in
           \/ in' = [in EXCEPT ![First({ep \in InEps : in[ep].seq = n})] = NoIn]
    BY <1>7 DEF usbipUnlink, fifoVars
  <2>2. \A e \in Eps : in'[e] = in[e] \/ (in'[e].data = << >> /\ in'[e].len \in Nat)
    BY <1>4, <1>5, <2>1
  <2> QED
    BY <1>5, <1>7, <2>1, <2>2, ThrownAwayOrdered
<1>8. CASE Firmware /\ UNCHANGED sent
  <2> USE OrderUntouched DEF orderVars, usbipVars, fifoVars
  <2>1. ASSUME NEW m \in {NoMasks, AllMasks}, WriteMasks(m)
        PROVE  Ordered(owner)'
    BY <1>8, <2>1 DEF WriteMasks
  <2>2. CASE ServiceInterrupt
    BY <1>8, <2>2 DEF ServiceInterrupt
  <2>3. CASE ReadNAKEV
    BY <1>8, <2>3 DEF ReadNAKEV
  <2>4. ASSUME NEW p \in Pipes, ReadTXS(p)
        PROVE  Ordered(owner)'
    BY <1>8, <2>4 DEF ReadTXS
  <2>5. ASSUME NEW p \in Pipes, ReadRXS(p)
        PROVE  Ordered(owner)'
    BY <1>8, <2>5 DEF ReadRXS
  <2>6. ASSUME NEW p \in Pipes, ReadRXD(p)
        PROVE  Ordered(owner)'
    BY <1>8, <2>6 DEF ReadRXD
  <2>7. ASSUME NEW p \in Pipes, NEW en \in BOOLEAN, NEW flush \in BOOLEAN,
               WriteRXC(p, en, flush)
        PROVE  Ordered(owner)'
    BY <1>8, <2>7 DEF WriteRXC
  <2>8. ASSUME NEW p \in Pipes, NEW dir \in {"tx", "rx"}, NEW en \in BOOLEAN,
               NEW ep \in Eps, WriteEPC(dir, p, en, ep)
        PROVE  Ordered(owner)'
    BY <1>8, <2>8 DEF WriteEPC
  <2> QED
    BY <1>2, <1>6, <1>8, <2>1, <2>2, <2>3, <2>4, <2>5, <2>6, <2>7, <2>8
       DEF Firmware
<1>9. CASE Host /\ UNCHANGED sent
  <2>1. CASE Attach \/ Detach
    BY <1>9, <2>1, OrderUntouched DEF Attach, Detach, devVars, orderVars
  <2>2. ASSUME NEW n \in Seqs, NEW ep \in Eps, NEW data \in OutData,
               usbipOut(n, ep, data)
        PROVE  Ordered(owner)'
    BY <1>9, <2>2, OrderUntouched DEF usbipOut, usbipVars, orderVars
  <2> QED
    BY <1>3, <1>7, <1>9, <2>1, <2>2 DEF Host
<1>10. CASE UNCHANGED bulkVars
  BY <1>10, OrderUntouched DEF bulkVars, vars, devVars, hostVars, orderVars
<1> QED
  BY <1>1, <1>8, <1>9, <1>10 DEF BulkNext

LEMMA OrderedInOrder ==
  ASSUME IInv, NEW owner, OwnPipe(owner), Ordered(owner)
  PROVE  InDataInOrder
<1> SUFFICES ASSUME NEW p \in Pipes
             PROVE  Increasing(reply[epc.tx[p].ep] \o in[epc.tx[p].ep].data \o txFifo[p].q)
  BY DEF InDataInOrder
<1>1. PICK ep : ep = epc.tx[p].ep
  OBVIOUS
<1>2. ep \in Eps /\ owner[ep] = p
  BY <1>1 DEF IInv, Shapes, EndpointControl, OwnPipe
<1>3. /\ reply[ep] \in Seq(Nat) /\ in[ep].data \in Seq(Nat)
      /\ txFifo[p].q \in Seq(Nat)
  BY <1>2, NumbersAreNumbers DEF Ordered
<1>4. reply[ep] \o in[ep].data \o txFifo[p].q \in Seq(Nat)
  BY <1>3, ConcatProperties
<1>5. Ascending(reply[ep] \o in[ep].data \o txFifo[p].q)
  BY <1>2 DEF Ordered
<1> QED
  BY <1>1, <1>4, <1>5, AscendingIncreases

(* As long as no endpoint number is given to two FIFOs, what hosts are     *)
(* given of the bytes the firmware writes to TXDx keeps their order:       *)
(* nothing is given twice and nothing overtakes, whatever is flushed,      *)
(* unlinked, remapped or reset. *)
THEOREM DataKeepsItsOrder ==
  ASSUME NEW owner
  PROVE  BulkSpec /\ []OwnPipe(owner) => []InDataInOrder
<1>1. BulkInit => Ordered(owner)
  BY InitOrdered
<1>2. IInv /\ OwnPipe(owner) /\ Ordered(owner) /\ [BulkNext]_bulkVars => Ordered(owner)'
  BY StepOrdered
<1>3. IInv /\ OwnPipe(owner) /\ Ordered(owner) => InDataInOrder
  BY OrderedInOrder
<1> QED
  BY <1>1, <1>2, <1>3, RequestsMatched, PTL DEF BulkSpec

(* With one FIFO that is the case, however often it is remapped: this is   *)
(* the instance that the run checks.                                       *)
THEOREM OnePipeKeepsOrder ==
  ASSUME NEW p, Pipes = {p}
  PROVE  BulkSpec => []InDataInOrder
<1> DEFINE owner == [ep \in Eps |-> p]
<1>1. IInv => OwnPipe(owner)
  BY DEF IInv, Shapes, EndpointControl, OwnPipe
<1>2. BulkInit => Ordered(owner)
  BY InitOrdered
<1>3. IInv /\ Ordered(owner) /\ [BulkNext]_bulkVars => Ordered(owner)'
  BY <1>1, StepOrdered
<1>4. IInv /\ Ordered(owner) => InDataInOrder
  BY <1>1, OrderedInOrder
<1> HIDE DEF owner
<1> QED
  BY <1>2, <1>3, <1>4, RequestsMatched, PTL DEF BulkSpec

-----------------------------------------------------------------------------
(* Every access and every call that changes the events ends in             *)
(* updateInterrupt(), or leaves all masks closed: an event with its masks  *)
(* open has raised IRQ1. *)
SignalledStep == event' # event /\ Pending' # {} => irq'

LEMMA UpdateSignals ==
  ASSUME NEW ev, event' = ev, UpdateInterrupt(ev), UNCHANGED mask
  PROVE  SignalledStep
BY DEF SignalledStep, UpdateInterrupt, Pending

LEMMA SignalSignals ==
  ASSUME NEW needed, NEW ev, Signal(needed, IF needed THEN ev ELSE event), UNCHANGED mask
  PROVE  SignalledStep
<1>1. CASE needed
  BY <1>1, UpdateSignals DEF Signal
<1>2. CASE ~needed
  BY <1>2 DEF Signal, SignalledStep
<1> QED
  BY <1>1, <1>2

THEOREM EventsAreSignalled == BulkSpec => PendingSignalled
<1>1. ASSUME [BulkNext]_bulkVars
      PROVE  [SignalledStep]_vars
  <2>1. CASE UNCHANGED event
    BY <2>1 DEF SignalledStep
  <2>2. CASE reset
    <3>1. mask' = NoMasks
      BY <2>2 DEF reset
    <3>2. Pending' = {}
      BY <3>1 DEF Pending, NoMasks
    <3> QED
      BY <3>2 DEF SignalledStep
  <2>3. CASE ReadNAKEV
    BY <2>3, UpdateSignals DEF ReadNAKEV, controlVars
  <2>4. ASSUME NEW p \in Pipes, ReadTXS(p) \/ ReadRXS(p)
        PROVE  SignalledStep
    BY <2>4, UpdateSignals DEF ReadTXS, ReadRXS, controlVars
  <2>5. ASSUME NEW p \in Pipes, NEW en \in BOOLEAN, NEW flush \in BOOLEAN,
               NEW isLast \in BOOLEAN, WriteTXC(p, en, flush, isLast)
        PROVE  SignalledStep
    <3>1. /\ \E sentNow : Signal(sentNow, IF sentNow THEN Added("tx", p) ELSE event)
          /\ UNCHANGED mask
      BY <2>5 DEF WriteTXC
    <3> QED
      BY <3>1, SignalSignals
  <2>6. ASSUME NEW n \in Seqs, NEW ep \in Eps, NEW len \in InLens, usbipIn(n, ep, len)
        PROVE  SignalledStep
    <3>1. PICK p : p = First(Mapped("tx", ep))
      OBVIOUS
    <3>2. /\ UNCHANGED mask
          /\ p \in enable.tx => Signal(TRUE, Added("tx", p))
          /\ p \notin enable.tx => UNCHANGED event
      BY <2>6, <3>1 DEF usbipIn, controlVars
    <3>3. CASE p \in enable.tx
      BY <3>2, <3>3, UpdateSignals DEF Signal
    <3>4. CASE p \notin enable.tx
      BY <3>2, <3>4 DEF SignalledStep
    <3> QED
      BY <3>3, <3>4
  <2>7. ASSUME NEW n \in Seqs, NEW ep \in Eps, NEW data \in OutData, usbipOut(n, ep, data)
        PROVE  SignalledStep
    <3>1. PICK p : p = First(Mapped("rx", ep))
      OBVIOUS
    <3>2. UNCHANGED mask /\ Signal(TRUE, Added("rx", p))
      BY <2>7, <3>1 DEF usbipOut, controlVars
    <3> QED
      BY <3>2, UpdateSignals DEF Signal
  <2>8. ASSUME NEW p \in Pipes, SendByte(p)
        PROVE  UNCHANGED event
    BY <2>8 DEF SendByte, WriteTXD
  <2>9. CASE Firmware
    <3>1. ASSUME NEW p \in Pipes,
                 \/ ReadRXD(p)
                 \/ \E en, flush \in BOOLEAN : WriteRXC(p, en, flush)
                 \/ \E dir \in {"tx", "rx"}, en \in BOOLEAN, ep \in Eps :
                      WriteEPC(dir, p, en, ep)
          PROVE  UNCHANGED event
      BY <3>1 DEF ReadRXD, WriteRXC, WriteEPC
    <3>2. (\E m \in {NoMasks, AllMasks} : WriteMasks(m)) \/ ServiceInterrupt
            => UNCHANGED event
      BY DEF WriteMasks, ServiceInterrupt
    <3> QED
      BY <2>1, <2>2, <2>3, <2>4, <2>5, <2>9, <3>1, <3>2 DEF Firmware
  <2>10. CASE Host
    <3>1. Attach \/ Detach \/ (\E n \in Seqs : usbipUnlink(n)) => UNCHANGED event
      BY DEF Attach, Detach, devVars, usbipUnlink
    <3> QED
      BY <2>1, <2>6, <2>7, <2>10, <3>1 DEF Host
  <2> QED
    BY <1>1, <2>1, <2>8, <2>9, <2>10 DEF BulkNext, bulkVars
<1> QED
  BY <1>1, PTL DEF BulkSpec, PendingSignalled, SignalledStep
=============================================================================
