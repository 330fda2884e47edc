-------------------------- MODULE CpuSerialProofs --------------------------
(***************************************************************************)
(* The serial port of the emulated processor, for every length of a        *)
(* character and of an instruction, every message and every program: no    *)
(* event is predicted too late, and a message is sent in order.            *)
(***************************************************************************)
EXTENDS CpuSerialSystem, SequenceTheorems, WellFoundedInduction, TLAPS

(* A set of numbers that is not empty has a least element: being less is
   well-founded. *)
LEMMA LeastNumber ==
  ASSUME NEW S \in SUBSET Nat, S # {}
  PROVE  \E m \in S : \A k \in S : m <= k
<1> DEFINE Below == {p \in Nat \X Nat : p[1] < p[2]}
<1>1. IsWellFoundedOn(Below, Nat)
  BY NatLessThanWellFounded, Zenon DEF OpToRel
<1>2. \A k, m \in Nat : k < m => <<k, m>> \in Below
  OBVIOUS
<1> HIDE DEF Below
<1>3. \E m \in S : \A k \in S : <<k, m>> \notin Below
  BY <1>1, WFMin
<1>4. \A k, m \in S : <<k, m>> \notin Below => m <= k
  <2>1. \A k, m \in S : k \in Nat /\ m \in Nat
    OBVIOUS
  <2>2. \A k, m \in Nat : ~(k < m) => m <= k
    OBVIOUS
  <2> QED
    BY <1>2, <2>1, <2>2, Zenon
<1> QED
  BY <1>3, <1>4

WorldFields == {"sci", "dev", "req", "mem", "dma", "dtc"}

PortFields == {"sync", "scr", "ssr", "tdr", "rdr", "tx", "rx", "since", "next",
               "delayed"}

DevFields == {"wrote", "out", "made", "answers"}

Times == 0 .. CharCycles

IsWorld(w) ==
  /\ DOMAIN w = WorldFields /\ DOMAIN w.sci = PortFields
  /\ DOMAIN w.dev = DevFields
  /\ w.sci.tx \in Times /\ w.sci.rx \in Times /\ w.sci.next \in Times
  /\ w.sci.since \in Nat

(* What is predicted comes no later than the end of a character, and at    *)
(* once if an interrupt has been put off. *)
Timely(w) ==
  /\ w.sci.tx > 0 => w.sci.next <= w.sci.tx
  /\ w.sci.rx > 0 => w.sci.next <= w.sci.rx
  /\ w.sci.delayed # {} => w.sci.next = 0

(* What no operation of the port itself changes. *)
SamePort(v, w) ==
  /\ v.sci.since = w.sci.since /\ v.sci.sync = w.sci.sync
  /\ v.sci.scr = w.sci.scr
  /\ v.mem = w.mem /\ v.dma = w.dma /\ v.dtc = w.dtc

-----------------------------------------------------------------------------
(* The parts of update(). *)

LEMMA TimesAreNumbers ==
  /\ CharCycles \in Nat /\ CharCycles > 0 /\ CharCycles \in Times
  /\ Times \subseteq Nat /\ \A t \in Times : t <= CharCycles
BY SciAssumption DEF Times

LEMMA EarlierIs ==
  ASSUME NEW a \in Nat, NEW b \in Nat
  PROVE  /\ Earlier(a, b) \in Nat /\ Earlier(a, b) <= a
         /\ b > 0 => Earlier(a, b) <= b
BY DEF Earlier

LEMMA DevWriteKeeps ==
  ASSUME NEW w, IsWorld(w), NEW b
  PROVE  /\ IsWorld(DevWrite(w, b)) /\ SamePort(DevWrite(w, b), w)
         /\ DevWrite(w, b).sci = w.sci /\ DevWrite(w, b).req = w.req
         /\ DevWrite(w, b).dev.wrote = Append(w.dev.wrote, b)
BY DEF DevWrite, IsWorld, SamePort, WorldFields, DevFields

LEMMA InterruptKeeps ==
  ASSUME NEW w, IsWorld(w), NEW s
  PROVE  /\ IsWorld(interrupt(w, s)) /\ SamePort(interrupt(w, s), w)
         /\ interrupt(w, s).sci = w.sci /\ interrupt(w, s).dev = w.dev
BY DEF interrupt, IsWorld, SamePort, WorldFields

LEMMA NextUpdateIs ==
  ASSUME NEW w, IsWorld(w)
  PROVE  /\ NextUpdate(w) \in Times
         /\ w.sci.tx > 0 => NextUpdate(w) <= w.sci.tx
         /\ w.sci.rx > 0 => NextUpdate(w) <= w.sci.rx
         /\ w.sci.delayed # {} => NextUpdate(w) = 0
<1> DEFINE e == Earlier(CharCycles, w.sci.tx)
<1>1. w.sci.tx \in Nat /\ w.sci.rx \in Nat /\ CharCycles \in Nat
  BY TimesAreNumbers DEF IsWorld
<1>2. e \in Nat /\ e <= CharCycles /\ (w.sci.tx > 0 => e <= w.sci.tx)
  BY <1>1, EarlierIs
<1> HIDE DEF e
<1>3. /\ Earlier(e, w.sci.rx) \in Nat /\ Earlier(e, w.sci.rx) <= e
      /\ w.sci.rx > 0 => Earlier(e, w.sci.rx) <= w.sci.rx
  BY <1>1, <1>2, EarlierIs
<1>4. NextUpdate(w) = 0 \/ NextUpdate(w) = Earlier(e, w.sci.rx)
  BY DEF NextUpdate, e
<1>5. w.sci.delayed # {} => NextUpdate(w) = 0
  BY DEF NextUpdate
<1> QED
  BY <1>1, <1>2, <1>3, <1>4, <1>5 DEF Times

(* Whatever came before, the prediction is right after calcNextUpdate().   *)
LEMMA CalculatedIsTimely ==
  ASSUME NEW w, IsWorld(w)
  PROVE  /\ IsWorld(calcNextUpdate(w)) /\ SamePort(calcNextUpdate(w), w)
         /\ Timely(calcNextUpdate(w))
         /\ calcNextUpdate(w).sci.tx = w.sci.tx
         /\ calcNextUpdate(w).sci.rx = w.sci.rx
         /\ calcNextUpdate(w).sci.ssr = w.sci.ssr
         /\ calcNextUpdate(w).sci.tdr = w.sci.tdr
         /\ calcNextUpdate(w).sci.delayed = w.sci.delayed
         /\ calcNextUpdate(w).dev = w.dev
         /\ calcNextUpdate(w).req = w.req
<1>1. PICK n : n = NextUpdate(w)
  OBVIOUS
<1>2. calcNextUpdate(w) = [w EXCEPT !.sci.next = n]
  BY <1>1 DEF calcNextUpdate
<1>3. /\ n \in Times
      /\ w.sci.tx > 0 => n <= w.sci.tx
      /\ w.sci.rx > 0 => n <= w.sci.rx
      /\ w.sci.delayed # {} => n = 0
  BY <1>1, NextUpdateIs
<1> QED
  BY <1>2, <1>3 DEF IsWorld, SamePort, Timely, WorldFields, PortFields, DevFields


LEMMA FetchedIsTimely ==
  ASSUME NEW w, IsWorld(w)
  PROVE  /\ IsWorld(Fetched(w)) /\ SamePort(Fetched(w), w)
         /\ Timely(Fetched(w))
         /\ Fetched(w).sci.tx = w.sci.tx
         /\ w.sci.sync => Fetched(w).sci.rx = w.sci.rx
         /\ Fetched(w).sci.ssr = w.sci.ssr \cup {"RDRF"}
         /\ Fetched(w).sci.tdr = w.sci.tdr
         /\ Fetched(w).sci.delayed = Delayed(w, "RIE", "RXI")
         /\ Fetched(w).dev.wrote = w.dev.wrote
         /\ Fetched(w).req = w.req
<1> DEFINE v == [w EXCEPT
                   !.sci.rdr = IF canRead(w) THEN Head(w.dev.out) ELSE @,
                   !.dev.out = IF canRead(w) THEN Tail(@) ELSE @,
                   !.sci.ssr = @ \cup {"RDRF"},
                   !.sci.delayed = Delayed(w, "RIE", "RXI"),
                   !.sci.rx = IF w.sci.sync THEN @ ELSE CharCycles]
<1>1. Fetched(w) = calcNextUpdate(v)
  BY DEF Fetched
<1>2. PICK a : a = IF canRead(w) THEN Head(w.dev.out) ELSE w.sci.rdr
  OBVIOUS
<1>3. PICK b : b = IF canRead(w) THEN Tail(w.dev.out) ELSE w.dev.out
  OBVIOUS
<1>4. PICK d : d = Delayed(w, "RIE", "RXI")
  OBVIOUS
<1>5. PICK r : r = IF w.sci.sync THEN w.sci.rx ELSE CharCycles
  OBVIOUS
<1>6. /\ r \in Times /\ (w.sci.sync => r = w.sci.rx)
  BY <1>5, TimesAreNumbers DEF IsWorld
<1>7. v = [w EXCEPT !.sci.rdr = a, !.dev.out = b, !.sci.ssr = @ \cup {"RDRF"},
                    !.sci.delayed = d, !.sci.rx = r]
  <2>1. v = [w EXCEPT !.sci.rdr = IF canRead(w) THEN Head(w.dev.out) ELSE w.sci.rdr,
                      !.dev.out = IF canRead(w) THEN Tail(w.dev.out) ELSE w.dev.out,
                      !.sci.ssr = @ \cup {"RDRF"},
                      !.sci.delayed = Delayed(w, "RIE", "RXI"),
                      !.sci.rx = IF w.sci.sync THEN w.sci.rx ELSE CharCycles]
    BY DEF IsWorld, WorldFields, PortFields, DevFields
  <2> QED
    BY <1>2, <1>3, <1>4, <1>5, <2>1
<1> HIDE DEF v
<1>8. /\ IsWorld(v) /\ SamePort(v, w) /\ v.sci.tx = w.sci.tx
      /\ w.sci.sync => v.sci.rx = w.sci.rx
      /\ v.sci.ssr = w.sci.ssr \cup {"RDRF"} /\ v.sci.tdr = w.sci.tdr
      /\ v.sci.delayed = d
      /\ v.dev.wrote = w.dev.wrote /\ v.req = w.req
  BY <1>6, <1>7 DEF IsWorld, SamePort, WorldFields, PortFields, DevFields
<1> QED
  BY <1>1, <1>4, <1>8, CalculatedIsTimely DEF SamePort

LEMMA StartedIsTimely ==
  ASSUME NEW w, IsWorld(w)
  PROVE  /\ IsWorld(Started(w)) /\ SamePort(Started(w), w)
         /\ Timely(Started(w))
         /\ Started(w).sci.tx = CharCycles
         /\ Started(w).sci.rx = w.sci.rx
         /\ Started(w).sci.ssr = w.sci.ssr \cup {"TDRE"}
         /\ Started(w).sci.tdr = w.sci.tdr
         /\ Started(w).sci.delayed = Delayed(w, "TIE", "TXI")
         /\ Started(w).dev = w.dev
         /\ Started(w).req = w.req
<1>1. PICK d : d = Delayed(w, "TIE", "TXI")
  OBVIOUS
<1>2. PICK v : v = [w EXCEPT !.sci.ssr = @ \cup {"TDRE"}, !.sci.delayed = d,
                             !.sci.tx = CharCycles]
  OBVIOUS
<1>3. Started(w) = calcNextUpdate(v)
  BY <1>1, <1>2 DEF Started
<1>4. /\ IsWorld(v) /\ SamePort(v, w) /\ v.sci.tx = CharCycles
      /\ v.sci.rx = w.sci.rx
      /\ v.sci.ssr = w.sci.ssr \cup {"TDRE"} /\ v.sci.tdr = w.sci.tdr
      /\ v.sci.delayed = d
      /\ v.dev = w.dev /\ v.req = w.req
  BY <1>2, TimesAreNumbers DEF IsWorld, SamePort, WorldFields, PortFields, DevFields
<1> QED
  BY <1>1, <1>3, <1>4, CalculatedIsTimely DEF SamePort

(* A byte is fetched, or is lost.                                          *)
Heard(v, w) ==
  /\ IsWorld(v) /\ SamePort(v, w)
  /\ Timely(w) => Timely(v)
  /\ v.sci.tx = w.sci.tx
  /\ w.sci.sync => v.sci.rx = w.sci.rx
  /\ w.sci.ssr \subseteq v.sci.ssr /\ v.sci.ssr \subseteq w.sci.ssr \cup {"RDRF", "ORER"}
  /\ v.sci.tdr = w.sci.tdr
  /\ w.sci.delayed \subseteq v.sci.delayed
  /\ v.sci.delayed \subseteq Delayed(w, "RIE", "RXI")
  /\ On(w, "TE") \/ ~w.sci.sync => v.dev.wrote = w.dev.wrote
  /\ v.dev.wrote \in {w.dev.wrote, Append(w.dev.wrote, Junk)}
  /\ v.req = w.req

LEMMA NothingHeard ==
  ASSUME NEW w, IsWorld(w)
  PROVE  Heard(w, w)
BY DEF Heard, SamePort, Delayed

LEMMA doRXHears ==
  ASSUME NEW w, IsWorld(w)
  PROVE  Heard(doRX(w), w)
<1>1. CASE Flag(w, "RDRF")
  BY <1>1 DEF doRX, Heard, Delayed, IsWorld, SamePort, Timely, WorldFields, PortFields,
     DevFields
<1>2. CASE ~Flag(w, "RDRF")
  <2>1. PICK v : v = Asked(w)
    OBVIOUS
  <2>2. doRX(w) = Fetched(v)
    BY <1>2, <2>1 DEF doRX, Received
  <2>3. /\ IsWorld(v) /\ SamePort(v, w) /\ v.sci = w.sci /\ v.req = w.req
        /\ v.dev.wrote \in {w.dev.wrote, Append(w.dev.wrote, Junk)}
        /\ On(w, "TE") \/ ~w.sci.sync => v.dev.wrote = w.dev.wrote
    BY <2>1, DevWriteKeeps DEF Asked, SamePort
  <2>4. Delayed(v, "RIE", "RXI") = Delayed(w, "RIE", "RXI")
    BY <2>3 DEF Delayed, On
  <2>5. w.sci.delayed \subseteq Delayed(w, "RIE", "RXI")
    BY DEF Delayed
  <2> QED
    BY <2>2, <2>3, <2>4, <2>5, FetchedIsTimely DEF Heard, SamePort
<1> QED
  BY <1>1, <1>2

LEMMA AlsoReceivedHears ==
  ASSUME NEW w, IsWorld(w)
  PROVE  /\ Heard(AlsoReceived(w), w)
         /\ AlsoReceived(w).sci.rx = w.sci.rx
BY doRXHears, NothingHeard DEF AlsoReceived, Heard

(* The interrupts that can have been put off.                              *)
Pending(w) == Delayed(w, "TIE", "TXI") \cup Delayed(w, "RIE", "RXI")

(* The byte in TDR goes out.                                               *)
Sends(v, w) ==
  /\ IsWorld(v) /\ SamePort(v, w) /\ Timely(v)
  /\ v.sci.tx = CharCycles
  /\ v.sci.rx = w.sci.rx
  /\ w.sci.ssr \cup {"TDRE"} \subseteq v.sci.ssr
  /\ v.sci.ssr \subseteq w.sci.ssr \cup {"TDRE", "RDRF", "ORER"}
  /\ v.sci.tdr = w.sci.tdr
  /\ w.sci.delayed \subseteq v.sci.delayed
  /\ v.sci.delayed \subseteq Pending(w)
  /\ On(w, "TE") => v.dev.wrote = Append(w.dev.wrote, w.sci.tdr)
  /\ v.req = w.req

LEMMA doTXSends ==
  ASSUME NEW w, IsWorld(w)
  PROVE  Sends(doTX(w), w)
<1>1. PICK u : u = DevWrite(w, w.sci.tdr)
  OBVIOUS
<1>2. /\ IsWorld(u) /\ SamePort(u, w) /\ u.sci = w.sci /\ u.req = w.req
      /\ u.dev.wrote = Append(w.dev.wrote, w.sci.tdr)
  BY <1>1, DevWriteKeeps
<1>3. PICK v : v = Started(u)
  OBVIOUS
<1>4. /\ IsWorld(v) /\ SamePort(v, u) /\ Timely(v)
      /\ v.sci.tx = CharCycles /\ v.sci.rx = u.sci.rx
      /\ v.sci.ssr = u.sci.ssr \cup {"TDRE"} /\ v.sci.tdr = u.sci.tdr
      /\ v.sci.delayed = Delayed(u, "TIE", "TXI")
      /\ v.dev = u.dev /\ v.req = u.req
  BY <1>2, <1>3, StartedIsTimely
<1>5. Delayed(u, "TIE", "TXI") = Delayed(w, "TIE", "TXI")
  BY <1>2 DEF Delayed, On
<1>6. /\ w.sci.delayed \subseteq Delayed(w, "TIE", "TXI")
      /\ Delayed(v, "RIE", "RXI") \subseteq Pending(w)
      /\ Delayed(w, "TIE", "TXI") \subseteq Pending(w)
  BY <1>2, <1>4, <1>5 DEF Delayed, Pending, On, SamePort
<1>7. PICK x : x = AlsoReceived(v)
  OBVIOUS
<1>8. Heard(x, v) /\ x.sci.rx = v.sci.rx
  BY <1>4, <1>7, AlsoReceivedHears
<1>9. doTX(w) = x
  BY <1>1, <1>3, <1>7 DEF doTX
<1>10. On(w, "TE") => x.dev.wrote = v.dev.wrote
  BY <1>2, <1>4, <1>8 DEF Heard, On, SamePort
<1> QED
  BY <1>2, <1>4, <1>5, <1>6, <1>8, <1>9, <1>10 DEF Heard, Sends, SamePort

(* Time passes for the port: at most the byte in TDR goes out, and once.   *)
Quiet(v, w) ==
  /\ v.dev.wrote = w.dev.wrote
  /\ "TDRE" \in v.sci.ssr => "TDRE" \in w.sci.ssr
  /\ "TXI" \in v.sci.delayed => "TXI" \in w.sci.delayed
  /\ w.sci.sync /\ "RDRF" \in v.sci.ssr => "RDRF" \in w.sci.ssr

SentOn(v, w) ==
  /\ "TDRE" \notin w.sci.ssr /\ "TDRE" \in v.sci.ssr
  /\ v.dev.wrote = Append(w.dev.wrote, w.sci.tdr)

Lapse(v, w) ==
  /\ IsWorld(v) /\ SamePort(v, w)
  /\ v.sci.tdr = w.sci.tdr
  /\ w.sci.ssr \subseteq v.sci.ssr
  /\ v.sci.delayed \subseteq Pending(w)
  /\ On(w, "TE") => Quiet(v, w) \/ SentOn(v, w)
  /\ ~On(w, "TE") => /\ "TDRE" \in v.sci.ssr => "TDRE" \in w.sci.ssr
                     /\ "TXI" \in v.sci.delayed => "TXI" \in w.sci.delayed
                     /\ ~On(w, "RE") => /\ v.dev.wrote = w.dev.wrote
                                        /\ "RDRF" \in v.sci.ssr => "RDRF" \in w.sci.ssr
                     /\ w.dev.wrote \in Seq({Junk}) => v.dev.wrote \in Seq({Junk})
  /\ w.req \subseteq v.req /\ v.req \subseteq w.req \cup {"TEI"}
  /\ ~On(w, "TEIE") => v.req = w.req

LEMMA NoLapse ==
  ASSUME NEW w, IsWorld(w)
  PROVE  Lapse(w, w)
BY DEF Lapse, SamePort, Quiet, Pending, Delayed

LEMMA LapsesAdd ==
  ASSUME NEW w, NEW v, NEW u, Lapse(v, w), Lapse(u, v)
  PROVE  Lapse(u, w)
<1>1. On(w, "TE") => Quiet(u, w) \/ SentOn(u, w)
  BY DEF Lapse, SamePort, Quiet, SentOn, On
<1>2. u.sci.delayed \subseteq Pending(w)
  BY DEF Lapse, SamePort, Pending, Delayed, On
<1>3. /\ On(v, "TE") <=> On(w, "TE")
      /\ On(v, "RE") <=> On(w, "RE")
      /\ On(v, "TEIE") <=> On(w, "TEIE")
  BY DEF Lapse, SamePort, On
<1>4. ~On(w, "TE") => /\ "TDRE" \in u.sci.ssr => "TDRE" \in w.sci.ssr
                      /\ "TXI" \in u.sci.delayed => "TXI" \in w.sci.delayed
                      /\ ~On(w, "RE") => /\ u.dev.wrote = w.dev.wrote
                                         /\ "RDRF" \in u.sci.ssr => "RDRF" \in w.sci.ssr
                      /\ w.dev.wrote \in Seq({Junk}) => u.dev.wrote \in Seq({Junk})
  BY <1>3 DEF Lapse
<1>5. IsWorld(u) /\ SamePort(u, w)
  BY DEF Lapse, SamePort
<1> QED
  BY <1>1, <1>2, <1>3, <1>4, <1>5 DEF Lapse

LEMMA HearingIsLapse ==
  ASSUME NEW w, NEW v, IsWorld(w), Heard(v, w), On(w, "RE"),
         ~On(w, "TE") \/ ~w.sci.sync
  PROVE  Lapse(v, w)
<1>1. On(w, "TE") => Quiet(v, w)
  BY DEF Heard, Quiet, Delayed
<1>2. w.dev.wrote \in Seq({Junk}) => v.dev.wrote \in Seq({Junk})
  <2>1. PICK q : q = w.dev.wrote
    OBVIOUS
  <2>2. v.dev.wrote \in {q, Append(q, Junk)}
    BY <2>1 DEF Heard
  <2>3. q \in Seq({Junk}) => Append(q, Junk) \in Seq({Junk})
    OBVIOUS
  <2> QED
    BY <2>1, <2>2, <2>3
<1>3. v.sci.delayed \subseteq Pending(w)
  BY DEF Heard, Pending
<1> QED
  BY <1>1, <1>2, <1>3 DEF Heard, Lapse, Pending, Delayed

LEMMA NextOrEndLapses ==
  ASSUME NEW w, IsWorld(w)
  PROVE  /\ Lapse(NextOrEnd(w), w)
         /\ NextOrEnd(w).sci.rx = w.sci.rx
<1>1. CASE ~On(w, "TE")
  BY <1>1, NoLapse DEF NextOrEnd
<1>2. CASE On(w, "TE") /\ ~Flag(w, "TDRE")
  <2>1. NextOrEnd(w) = doTX(w)
    BY <1>2 DEF NextOrEnd
  <2>2. Sends(NextOrEnd(w), w)
    BY <2>1, doTXSends
  <2>3. SentOn(NextOrEnd(w), w)
    BY <1>2, <2>2 DEF Sends, SentOn, Flag
  <2> QED
    BY <1>2, <2>2, <2>3 DEF Sends, Lapse
<1>3. CASE On(w, "TE") /\ Flag(w, "TDRE")
  <2>1. PICK u : u = [w EXCEPT !.sci.ssr = @ \cup {"TEND"}]
    OBVIOUS
  <2>2. PICK s : s = IF On(w, "TEIE") THEN {"TEI"} ELSE {}
    OBVIOUS
  <2>3. NextOrEnd(w) = interrupt(u, s)
    BY <1>3, <2>1, <2>2 DEF NextOrEnd
  <2>4. /\ IsWorld(u) /\ SamePort(u, w) /\ u.dev = w.dev /\ u.req = w.req
        /\ u.sci.ssr = w.sci.ssr \cup {"TEND"} /\ u.sci.tdr = w.sci.tdr
        /\ u.sci.delayed = w.sci.delayed /\ u.sci.rx = w.sci.rx
    BY <2>1 DEF IsWorld, SamePort, WorldFields, PortFields, DevFields
  <2>5. /\ IsWorld(NextOrEnd(w)) /\ SamePort(NextOrEnd(w), u)
        /\ NextOrEnd(w).sci = u.sci /\ NextOrEnd(w).dev = u.dev
    BY <2>3, <2>4, InterruptKeeps
  <2>6. NextOrEnd(w).req = w.req \cup s
    BY <2>3, <2>4 DEF interrupt, IsWorld, WorldFields
  <2>7. Quiet(NextOrEnd(w), w)
    BY <2>4, <2>5 DEF Quiet
  <2> QED
    BY <1>3, <2>2, <2>4, <2>5, <2>6, <2>7 DEF Lapse, SamePort, Pending, Delayed
<1> QED
  BY <1>1, <1>2, <1>3

LEMMA KeptClockedLapses ==
  ASSUME NEW w, IsWorld(w)
  PROVE  /\ Lapse(KeptClocked(w), w)
         /\ KeptClocked(w).sci.rx = w.sci.rx
<1>1. CASE On(w, "RE") /\ ~On(w, "TE") /\ w.sci.sync
  <2>1. PICK v : v = doRX(w)
    OBVIOUS
  <2>2. KeptClocked(w) = [v EXCEPT !.sci.tx = CharCycles]
    BY <1>1, <2>1 DEF KeptClocked
  <2>3. Heard(v, w) /\ Lapse(v, w)
    BY <1>1, <2>1, doRXHears, HearingIsLapse
  <2>4. Lapse(KeptClocked(w), v) /\ KeptClocked(w).sci.rx = v.sci.rx
    <3>1. IsWorld(v)
      BY <2>3 DEF Heard
    <3> QED
      BY <2>2, <3>1, TimesAreNumbers
      DEF Lapse, SamePort, Quiet, Pending, Delayed, IsWorld, WorldFields, PortFields,
          DevFields
  <2> QED
    BY <1>1, <2>3, <2>4, LapsesAdd DEF Heard
<1>2. CASE ~(On(w, "RE") /\ ~On(w, "TE") /\ w.sci.sync)
  BY <1>2, NoLapse DEF KeptClocked
<1> QED
  BY <1>1, <1>2

(* The port's own clocks. *)
LEMMA ClockLapses ==
  ASSUME NEW w, IsWorld(w), NEW t \in Times
  PROVE  /\ Lapse([w EXCEPT !.sci.tx = t], w)
         /\ [w EXCEPT !.sci.tx = t].sci.rx = w.sci.rx
         /\ Lapse([w EXCEPT !.sci.rx = t], w)
<1>1. PICK v : v = [w EXCEPT !.sci.tx = t]
  OBVIOUS
<1>2. PICK u : u = [w EXCEPT !.sci.rx = t]
  OBVIOUS
<1>3. Lapse(v, w) /\ v.sci.rx = w.sci.rx
  BY <1>1 DEF Lapse, SamePort, Quiet, Pending, Delayed, IsWorld, WorldFields, PortFields,
          DevFields
<1>4. Lapse(u, w)
  BY <1>2 DEF Lapse, SamePort, Quiet, Pending, Delayed, IsWorld, WorldFields, PortFields,
          DevFields
<1> QED
  BY <1>1, <1>2, <1>3, <1>4

LEMMA TransmittingLapses ==
  ASSUME NEW w, IsWorld(w), NEW step \in Nat
  PROVE  /\ Lapse(Transmitting(w, step), w)
         /\ Transmitting(w, step).sci.rx = w.sci.rx
<1>0. w.sci.tx \in Times /\ w.sci.tx \in Nat /\ 0 \in Times
  BY TimesAreNumbers DEF IsWorld, Times
<1>1. CASE w.sci.tx = 0
  BY <1>1, NoLapse DEF Transmitting
<1>2. CASE w.sci.tx # 0 /\ w.sci.tx > step
  <2>1. PICK t : t = w.sci.tx - step
    OBVIOUS
  <2>2. t \in Times
    BY <1>0, <1>2, <2>1, TimesAreNumbers DEF Times
  <2>3. Transmitting(w, step) = [w EXCEPT !.sci.tx = t]
    BY <1>2, <2>1 DEF Transmitting, IsWorld, WorldFields, PortFields
  <2> QED
    BY <2>2, <2>3, ClockLapses
<1>3. CASE w.sci.tx # 0 /\ ~(w.sci.tx > step)
  <2>1. PICK u : u = [w EXCEPT !.sci.tx = 0]
    OBVIOUS
  <2>2. Lapse(u, w) /\ u.sci.rx = w.sci.rx
    BY <1>0, <2>1, ClockLapses
  <2>3. PICK v : v = NextOrEnd(u)
    OBVIOUS
  <2>4. Lapse(v, u) /\ v.sci.rx = u.sci.rx
    BY <2>2, <2>3, NextOrEndLapses DEF Lapse
  <2>5. Lapse(KeptClocked(v), v) /\ KeptClocked(v).sci.rx = v.sci.rx
    BY <2>4, KeptClockedLapses DEF Lapse
  <2>6. Transmitting(w, step) = KeptClocked(v)
    BY <1>3, <2>1, <2>3 DEF Transmitting
  <2> QED
    BY <2>2, <2>4, <2>5, <2>6, LapsesAdd
<1> QED
  BY <1>1, <1>2, <1>3

LEMMA StepIs ==
  ASSUME NEW w, IsWorld(w), NEW left \in Nat
  PROVE  /\ Step(w, left) \in Nat /\ Step(w, left) <= left
         /\ w.sci.rx > 0 => Step(w, left) <= w.sci.rx
<1>1. w.sci.tx \in Nat /\ w.sci.rx \in Nat
  BY TimesAreNumbers DEF IsWorld
<1> QED
  BY <1>1 DEF Step, Earlier

LEMMA UpdateStepLapses ==
  ASSUME NEW l, IsWorld(l.w), l.left \in Nat
  PROVE  /\ Lapse(UpdateStep(l).w, l.w) /\ Timely(UpdateStep(l).w)
         /\ UpdateStep(l).left \in Nat
<1>1. PICK w : w = l.w
  OBVIOUS
<1>2. PICK step \in Nat : /\ step = Step(w, l.left) /\ step <= l.left
                          /\ w.sci.rx > 0 => step <= w.sci.rx
  BY <1>1, StepIs
<1>3. PICK u : u = Transmitting(w, step)
  OBVIOUS
<1>4. Lapse(u, w) /\ u.sci.rx = w.sci.rx
  BY <1>1, <1>3, TransmittingLapses
<1>5. PICK v : v = Receiving(u, step)
  OBVIOUS
<1>6. Lapse(v, u)
  <2>1. IsWorld(u) /\ w.sci.rx \in Times /\ w.sci.rx \in Nat
    BY <1>1, <1>4, TimesAreNumbers DEF Lapse, IsWorld
  <2>2. CASE u.sci.rx = 0
    BY <1>5, <2>1, <2>2, NoLapse DEF Receiving
  <2>3. CASE u.sci.rx # 0
    <3>1. PICK t : t = u.sci.rx - step
      OBVIOUS
    <3>2. t \in Times
      BY <1>2, <1>4, <2>1, <2>3, <3>1, TimesAreNumbers DEF Times
    <3>3. v = [u EXCEPT !.sci.rx = t]
      BY <1>5, <2>1, <2>3, <3>1 DEF Receiving, IsWorld, WorldFields, PortFields
    <3> QED
      BY <2>1, <3>2, <3>3, ClockLapses
  <2> QED
    BY <2>2, <2>3
<1>7. PICK x : x = ReceivedIfReady(v)
  OBVIOUS
<1>8. Lapse(x, v)
  <2>1. IsWorld(v)
    BY <1>6 DEF Lapse
  <2>2. CASE /\ v.sci.rx = 0 /\ ~v.sci.sync /\ On(v, "RE") /\ ~Flag(v, "RDRF")
             /\ canRead(v)
    BY <1>7, <2>1, <2>2, doRXHears, HearingIsLapse DEF ReceivedIfReady
  <2>3. CASE ~(/\ v.sci.rx = 0 /\ ~v.sci.sync /\ On(v, "RE") /\ ~Flag(v, "RDRF")
               /\ canRead(v))
    BY <1>7, <2>1, <2>3, NoLapse DEF ReceivedIfReady
  <2> QED
    BY <2>2, <2>3
<1>9. PICK y : y = calcNextUpdate(x)
  OBVIOUS
<1>10. IsWorld(x)
  BY <1>8 DEF Lapse
<1>11. Timely(y) /\ Lapse(y, x)
  BY <1>9, <1>10, CalculatedIsTimely DEF Lapse, Quiet, Pending, Delayed
<1>12. UpdateStep(l) = [w |-> y, left |-> l.left - step]
  BY <1>1, <1>2, <1>3, <1>5, <1>7, <1>9 DEF UpdateStep
<1>13. Lapse(y, w)
  BY <1>4, <1>6, <1>8, <1>11, LapsesAdd
<1> QED
  BY <1>1, <1>2, <1>11, <1>12, <1>13

(* What is put off is raised when the port is updated. *)
Raised(w) == [interrupt(w, w.sci.delayed) EXCEPT !.sci.delayed = {}, !.sci.since = 0]

LEMMA RaisedIs ==
  ASSUME NEW w, IsWorld(w)
  PROVE  /\ IsWorld(Raised(w)) /\ Raised(w).sci.since = 0
         /\ Timely(w) => Timely(Raised(w))
         /\ Raised(w).sci.sync = w.sci.sync /\ Raised(w).sci.scr = w.sci.scr
         /\ Raised(w).sci.ssr = w.sci.ssr /\ Raised(w).sci.tdr = w.sci.tdr
         /\ Raised(w).sci.delayed = {}
         /\ Raised(w).req = w.req \cup w.sci.delayed
         /\ Raised(w).dev = w.dev /\ Raised(w).mem = w.mem
         /\ Raised(w).dma = w.dma /\ Raised(w).dtc = w.dtc
BY DEF Raised, interrupt, IsWorld, Timely, WorldFields, PortFields, DevFields

(* The turns of update() as a function of their number.                    *)
NextTurn(l) == IF l.left = 0 THEN l ELSE UpdateStep(l)

Turns(w, n) ==
  CHOOSE turn : turn = [i \in 0 .. n |->
    IF i = 0 THEN [w |-> Raised(w), left |-> w.sci.since]
    ELSE NextTurn(turn[i - 1])]

LEMMA UpdateIsTurns ==
  ASSUME NEW w
  PROVE  update(w) = Turns(w, w.sci.since)[w.sci.since].w
BY DEF update, Turns, NextTurn, Raised

LEMMA TurnsAre ==
  ASSUME NEW w, NEW n \in Nat
  PROVE  \A i \in 0 .. n :
           Turns(w, n)[i] = IF i = 0 THEN [w |-> Raised(w), left |-> w.sci.since]
                            ELSE NextTurn(Turns(w, n)[i - 1])
<1> DEFINE start == [w |-> Raised(w), left |-> w.sci.since]
<1> HIDE DEF start
<1> DEFINE Map(g, k) == [i \in 0 .. k |-> IF i = 0 THEN start ELSE NextTurn(g[i - 1])]
           Bad == {k \in Nat : ~ \E g : g = Map(g, k)}
<1>1. Bad = {}
  <2>1. SUFFICES ASSUME Bad # {} PROVE FALSE
    OBVIOUS
  <2>2. PICK m \in Bad : \A k \in Bad : m <= k
    <3>1. Bad \in SUBSET Nat
      OBVIOUS
    <3> HIDE DEF Bad
    <3> QED
      BY <2>1, <3>1, LeastNumber
  <2>3. m \in Nat /\ ~ \E g : g = Map(g, m)
    BY <2>2
  <2>4. CASE m = 0
    <3> DEFINE h == [i \in 0 .. 0 |-> start]
    <3>1. h = Map(h, 0)
      OBVIOUS
    <3> HIDE DEF h, Map
    <3> QED
      BY <2>3, <2>4, <3>1
  <2>5. CASE m # 0
    <3>1. m - 1 \in Nat /\ m - 1 \notin Bad
      BY <2>2, <2>3, <2>5
    <3>2. PICK g : g = Map(g, m - 1)
      BY <3>1
    <3> DEFINE h == [i \in 0 .. m |-> IF i = m THEN NextTurn(g[m - 1]) ELSE g[i]]
    <3>3. \A i \in 0 .. m - 1 : g[i] = IF i = 0 THEN start ELSE NextTurn(g[i - 1])
      BY <3>2
    <3>4. \A i \in 0 .. m : h[i] = IF i = 0 THEN start ELSE NextTurn(h[i - 1])
      <4> TAKE i \in 0 .. m
      <4>1. CASE i = 0
        BY <2>3, <2>5, <3>3, <4>1
      <4>2. CASE i # 0
        <5>1. i - 1 \in 0 .. m /\ i - 1 # m /\ h[i - 1] = g[i - 1]
          BY <2>3, <4>2
        <5>2. i # m => i \in 0 .. m - 1
          BY <2>3
        <5>3. h[i] = IF i = m THEN NextTurn(g[m - 1]) ELSE g[i]
          OBVIOUS
        <5> HIDE DEF h
        <5> QED
          BY <3>3, <4>2, <5>1, <5>2, <5>3
      <4> QED
        BY <4>1, <4>2
    <3>5. h = [i \in 0 .. m |-> h[i]]
      OBVIOUS
    <3> HIDE DEF h
    <3>6. h = Map(h, m)
      BY <3>4, <3>5
    <3> HIDE DEF Map
    <3> QED
      BY <2>3, <3>6
  <2> QED
    BY <2>4, <2>5
<1>2. Turns(w, n) = Map(Turns(w, n), n)
  <2>1. \E g : g = Map(g, n)
    BY <1>1
  <2>2. Turns(w, n) = CHOOSE g : g = Map(g, n)
    BY DEF Turns, start
  <2> HIDE DEF Map
  <2> QED
    BY <2>1, <2>2
<1> QED
  BY <1>2 DEF start

(* update() is a lapse from what was put off being raised, and no time has *)
(* passed since.  Whatever was predicted, the prediction is right.         *)
LEMMA UpdateLapses ==
  ASSUME NEW w, IsWorld(w)
  PROVE  /\ Lapse(update(w), Raised(w))
         /\ update(w).sci.since = 0
         /\ Timely(w) => Timely(update(w))
<1> DEFINE n == w.sci.since
           t == Turns(w, n)
           Good(l) == /\ Lapse(l.w, Raised(w)) /\ l.left \in Nat
                      /\ Timely(w) => Timely(l.w)
           Bad == {i \in 0 .. n : ~Good(t[i])}
<1>1. n \in Nat
  BY DEF IsWorld
<1>2. \A i \in 0 .. n : t[i] = IF i = 0 THEN [w |-> Raised(w), left |-> n]
                               ELSE NextTurn(t[i - 1])
  BY <1>1, TurnsAre
<1>3. Bad = {}
  <2>1. SUFFICES ASSUME Bad # {} PROVE FALSE
    OBVIOUS
  <2>2. PICK m \in Bad : \A k \in Bad : m <= k
    <3>1. Bad \in SUBSET Nat
      BY <1>1
    <3> HIDE DEF Bad
    <3> QED
      BY <2>1, <3>1, LeastNumber
  <2>3. m \in 0 .. n /\ ~Good(t[m])
    BY <2>2
  <2>4. CASE m = 0
    <3>1. t[m].w = Raised(w) /\ t[m].left = n
      BY <1>2, <2>3, <2>4
    <3> QED
      BY <1>1, <2>3, <3>1, RaisedIs, NoLapse
  <2>5. CASE m # 0
    <3>1. m - 1 \in 0 .. n /\ m - 1 \notin Bad
      BY <1>1, <2>2, <2>3, <2>5
    <3>2. PICK l : l = t[m - 1]
      OBVIOUS
    <3>3. Lapse(l.w, Raised(w)) /\ l.left \in Nat /\ (Timely(w) => Timely(l.w))
      BY <3>1, <3>2
    <3>4. t[m] = NextTurn(l)
      BY <1>2, <2>3, <2>5, <3>2
    <3>5. CASE l.left = 0
      BY <2>3, <3>3, <3>4, <3>5 DEF NextTurn
    <3>6. CASE l.left # 0
      <4>1. t[m] = UpdateStep(l)
        BY <3>4, <3>6 DEF NextTurn
      <4>2. /\ Lapse(UpdateStep(l).w, l.w) /\ Timely(UpdateStep(l).w)
            /\ UpdateStep(l).left \in Nat
        <5>1. IsWorld(l.w)
          BY <3>3 DEF Lapse
        <5> QED
          BY <3>3, <5>1, UpdateStepLapses
      <4>3. Lapse(UpdateStep(l).w, Raised(w))
        BY <3>3, <4>2, LapsesAdd
      <4> HIDE DEF t
      <4> QED
        BY <2>3, <4>1, <4>2, <4>3
    <3> QED
      BY <3>5, <3>6
  <2> QED
    BY <2>4, <2>5
<1>4. n \in 0 .. n /\ update(w) = t[n].w
  BY <1>1, UpdateIsTurns
<1>5. Good(t[n])
  BY <1>3, <1>4
<1> HIDE DEF t, n
<1>6. Lapse(update(w), Raised(w)) /\ (Timely(w) => Timely(update(w)))
  BY <1>4, <1>5
<1> QED
  BY <1>6, RaisedIs DEF Lapse, SamePort

-----------------------------------------------------------------------------
(* The registers. *)

(* Nothing but the flags, TDR and the clock of the transmitter change.     *)
Untouched(v, w) ==
  /\ IsWorld(v) /\ v.sci.since = w.sci.since /\ v.sci.sync = w.sci.sync
  /\ Timely(w) => Timely(v)
  /\ v.mem = w.mem /\ v.dma = w.dma /\ v.dtc = w.dtc
  /\ v.sci.rx = w.sci.rx /\ v.sci.rdr = w.sci.rdr
  /\ v.sci.delayed = w.sci.delayed /\ v.dev = w.dev

LEMMA IdleIs ==
  ASSUME NEW w, IsWorld(w)
  PROVE  /\ Untouched(Idle(w), w) /\ SamePort(Idle(w), w)
         /\ Idle(w).req = w.req
         /\ Idle(w).sci.tdr = w.sci.tdr /\ Idle(w).sci.tx = w.sci.tx
         /\ On(w, "TE") => Idle(w).sci.ssr = w.sci.ssr
         /\ ~On(w, "TE") => Idle(w).sci.ssr = w.sci.ssr \cup {"TDRE", "TEND"}
<1>1. CASE On(w, "TE")
  BY <1>1 DEF Idle, Untouched, SamePort
<1>2. CASE ~On(w, "TE")
  <2>1. PICK v : v = [w EXCEPT !.sci.ssr = @ \cup {"TDRE", "TEND"}]
    OBVIOUS
  <2>2. Idle(w) = v
    BY <1>2, <2>1 DEF Idle
  <2>3. /\ Untouched(v, w) /\ SamePort(v, w) /\ v.req = w.req
        /\ v.sci.tdr = w.sci.tdr /\ v.sci.tx = w.sci.tx
        /\ v.sci.ssr = w.sci.ssr \cup {"TDRE", "TEND"}
    BY <2>1 DEF Untouched, SamePort, IsWorld, Timely, WorldFields, PortFields, DevFields
  <2> QED
    BY <1>2, <2>2, <2>3
<1> QED
  BY <1>1, <1>2

LEMMA SetTDRIs ==
  ASSUME NEW w, IsWorld(w), NEW val
  PROVE  /\ Untouched(SetTDR(w, val), w) /\ SamePort(SetTDR(w, val), w)
         /\ SetTDR(w, val).req = w.req
         /\ SetTDR(w, val).sci.tdr = val /\ SetTDR(w, val).sci.tx = w.sci.tx
         /\ On(w, "TE") => SetTDR(w, val).sci.ssr = w.sci.ssr
         /\ ~On(w, "TE") => SetTDR(w, val).sci.ssr = w.sci.ssr \cup {"TDRE", "TEND"}
<1>1. PICK v : v = [w EXCEPT !.sci.tdr = val]
  OBVIOUS
<1>2. /\ Untouched(v, w) /\ SamePort(v, w) /\ v.req = w.req
      /\ v.sci.tdr = val /\ v.sci.tx = w.sci.tx /\ v.sci.ssr = w.sci.ssr
  BY <1>1 DEF Untouched, SamePort, IsWorld, Timely, WorldFields, PortFields, DevFields
<1>3. SetTDR(w, val) = Idle(v)
  BY <1>1 DEF SetTDR
<1>4. IsWorld(v)
  BY <1>2 DEF Untouched
<1> QED
  BY <1>2, <1>3, <1>4, IdleIs DEF Untouched, SamePort, On

SetsSCR(v, w, val) ==
  /\ Untouched(v, w)
  /\ v.sci.scr = val
  /\ v.req =
       IF "TIE" \in val \ w.sci.scr /\ "TE" \in val /\ "TDRE" \in w.sci.ssr
       THEN w.req \cup {"TXI"} ELSE w.req
  /\ v.sci.tdr = w.sci.tdr
  /\ v.sci.tx # w.sci.tx => "TE" \notin val
  /\ "TE" \in val => v.sci.ssr = w.sci.ssr
  /\ "TE" \notin val =>
       v.sci.ssr = w.sci.ssr \cup {"TDRE", "TEND"}

LEMMA SetSCRWorks ==
  ASSUME NEW w, IsWorld(w), NEW val
  PROVE  SetsSCR(SetSCR(w, val), w, val)
<1> DEFINE set == val \ w.sci.scr
<1>1. PICK u : u = IF "TIE" \in set /\ "TE" \in val /\ Flag(w, "TDRE")
                   THEN interrupt(w, {"TXI"}) ELSE w
  OBVIOUS
<1>2. /\ Untouched(u, w) /\ u.sci = w.sci
      /\ u.req = IF "TIE" \in set /\ "TE" \in val /\ "TDRE" \in w.sci.ssr
                 THEN w.req \cup {"TXI"} ELSE w.req
  <2>1. PICK x : x = interrupt(w, {"TXI"})
    OBVIOUS
  <2>2. Untouched(x, w) /\ x.sci = w.sci /\ x.req = w.req \cup {"TXI"}
    BY <2>1 DEF interrupt, Untouched, IsWorld, Timely, WorldFields
  <2>3. Untouched(w, w)
    BY DEF Untouched
  <2> QED
    BY <1>1, <2>1, <2>2, <2>3 DEF Flag
<1>3. PICK v : v = IF "RE" \in set /\ "TE" \notin val /\ w.sci.sync /\ w.sci.tx = 0
                   THEN [u EXCEPT !.sci.tx = CharCycles] ELSE u
  OBVIOUS
<1>6. /\ Untouched(v, u) /\ v.req = u.req /\ v.sci.tdr = u.sci.tdr
      /\ v.sci.ssr = u.sci.ssr
      /\ v.sci.tx # w.sci.tx => "TE" \notin val
  <2>1. u.sci.next <= CharCycles /\ u.sci.next \in Nat
    BY <1>2, TimesAreNumbers DEF Untouched, IsWorld
  <2>2. CASE "RE" \in set /\ "TE" \notin val /\ w.sci.sync /\ w.sci.tx = 0
    <3>1. v = [u EXCEPT !.sci.tx = CharCycles]
      BY <1>3, <2>2
    <3> QED
      BY <1>2, <2>1, <2>2, <3>1, TimesAreNumbers
      DEF Untouched, IsWorld, Timely, WorldFields, PortFields, DevFields
  <2>3. CASE ~("RE" \in set /\ "TE" \notin val /\ w.sci.sync /\ w.sci.tx = 0)
    BY <1>2, <1>3, <2>3 DEF Untouched
  <2> QED
    BY <2>2, <2>3
<1>7. PICK x : x = [v EXCEPT !.sci.scr = val]
  OBVIOUS
<1>8. /\ Untouched(x, v) /\ x.req = v.req /\ x.sci.tx = v.sci.tx
      /\ x.sci.tdr = v.sci.tdr /\ x.sci.ssr = v.sci.ssr /\ x.sci.scr = val
  BY <1>6, <1>7 DEF Untouched, IsWorld, Timely, WorldFields, PortFields, DevFields
<1>9. SetSCR(w, val) = Idle(x)
  BY <1>1, <1>3, <1>7 DEF SetSCR
<1>10. IsWorld(x)
  BY <1>8 DEF Untouched
<1>11. /\ Untouched(Idle(x), x) /\ SamePort(Idle(x), x)
       /\ Idle(x).req = x.req
       /\ Idle(x).sci.tdr = x.sci.tdr /\ Idle(x).sci.tx = x.sci.tx
       /\ "TE" \in val => Idle(x).sci.ssr = x.sci.ssr
       /\ "TE" \notin val => Idle(x).sci.ssr = x.sci.ssr \cup {"TDRE", "TEND"}
  BY <1>8, <1>10, IdleIs DEF On
<1>12. Untouched(Idle(x), w)
  BY <1>2, <1>6, <1>8, <1>11 DEF Untouched
<1> QED
  BY <1>2, <1>6, <1>8, <1>9, <1>11, <1>12 DEF SamePort, SetsSCR

LEMMA SetSCRIs ==
  ASSUME NEW w, IsWorld(w), NEW val
  PROVE  /\ Untouched(SetSCR(w, val), w)
         /\ SetSCR(w, val).sci.scr = val
         /\ SetSCR(w, val).req =
              IF "TIE" \in val \ w.sci.scr /\ "TE" \in val /\ "TDRE" \in w.sci.ssr
              THEN w.req \cup {"TXI"} ELSE w.req
         /\ SetSCR(w, val).sci.tdr = w.sci.tdr
         /\ SetSCR(w, val).sci.tx # w.sci.tx => "TE" \notin val
         /\ "TE" \in val => SetSCR(w, val).sci.ssr = w.sci.ssr
         /\ "TE" \notin val =>
              SetSCR(w, val).sci.ssr = w.sci.ssr \cup {"TDRE", "TEND"}
<1>1. SetsSCR(SetSCR(w, val), w, val)
  BY SetSCRWorks
<1> QED
  BY <1>1 DEF SetsSCR

LEMMA SetSCRSets ==
  ASSUME NEW w, IsWorld(w), NEW val
  PROVE  Untouched(SetSCR(w, val), w) /\ SetSCR(w, val).sci.scr = val
<1>1. SetsSCR(SetSCR(w, val), w, val)
  BY SetSCRWorks
<1> QED
  BY <1>1 DEF SetsSCR

(* Clearing TDRE while nothing is on the line sends the byte in TDR.       *)
Begins(w, val) ==
  "TDRE" \in w.sci.ssr /\ "TDRE" \notin val /\ On(w, "TE") /\ w.sci.tx = 0

LEMMA SetSSRIs ==
  ASSUME NEW w, IsWorld(w), NEW val
  PROVE  /\ IsWorld(SetSSR(w, val)) /\ SamePort(SetSSR(w, val), w)
         /\ Timely(w) => Timely(SetSSR(w, val))
         /\ SetSSR(w, val).req = w.req
         /\ SetSSR(w, val).sci.tdr = w.sci.tdr
         /\ ~On(w, "TE") => /\ "TDRE" \in SetSSR(w, val).sci.ssr
                            /\ SetSSR(w, val).dev = w.dev
                            /\ SetSSR(w, val).sci.delayed = w.sci.delayed
         /\ Begins(w, val) =>
              /\ "TDRE" \in SetSSR(w, val).sci.ssr
              /\ SetSSR(w, val).dev.wrote = Append(w.dev.wrote, w.sci.tdr)
              /\ w.sci.delayed \subseteq SetSSR(w, val).sci.delayed
              /\ SetSSR(w, val).sci.delayed \subseteq Pending(w)
         /\ On(w, "TE") /\ ~Begins(w, val) =>
              /\ "TDRE" \in SetSSR(w, val).sci.ssr <=>
                   "TDRE" \in w.sci.ssr /\ "TDRE" \in val
              /\ "RDRF" \in SetSSR(w, val).sci.ssr =>
                   "RDRF" \in w.sci.ssr /\ "RDRF" \in val
              /\ SetSSR(w, val).dev = w.dev
              /\ SetSSR(w, val).sci.delayed = w.sci.delayed
<1>1. PICK f : f = (w.sci.ssr \cap val) \cup (w.sci.ssr \cap {"TEND"})
  OBVIOUS
<1>2. PICK k : k = [w EXCEPT !.sci.ssr = f]
  OBVIOUS
<1>3. k = [w EXCEPT !.sci.ssr = (@ \cap val) \cup (@ \cap {"TEND"})]
  BY <1>1, <1>2 DEF IsWorld, WorldFields, PortFields
<1>4. /\ Untouched(k, w) /\ SamePort(k, w) /\ k.req = w.req /\ k.sci.ssr = f
      /\ k.sci.tdr = w.sci.tdr /\ k.sci.tx = w.sci.tx
  BY <1>2 DEF Untouched, SamePort, IsWorld, Timely, WorldFields, PortFields, DevFields
<1>5. PICK b : b = [k EXCEPT !.sci.ssr = f \ {"TEND"}]
  OBVIOUS
<1>6. b = [k EXCEPT !.sci.ssr = @ \ {"TEND"}]
  BY <1>4, <1>5 DEF IsWorld, Untouched, WorldFields, PortFields
<1>7. /\ Untouched(b, w) /\ SamePort(b, w) /\ b.req = w.req
      /\ b.sci.ssr = f \ {"TEND"}
      /\ b.sci.tdr = w.sci.tdr /\ b.sci.tx = w.sci.tx
  BY <1>4, <1>5 DEF Untouched, SamePort, IsWorld, Timely, WorldFields, PortFields, DevFields
<1>8. PICK x : x = IF ~(Flag(w, "TDRE") /\ "TDRE" \notin val /\ On(w, "TE"))
                   THEN k ELSE IF w.sci.tx = 0 THEN doTX(b) ELSE b
  OBVIOUS
<1>10. SetSSR(w, val) = Idle(x)
  BY <1>3, <1>6, <1>8 DEF SetSSR
<1>11. CASE Begins(w, val)
  <2>1. x = doTX(b) /\ On(w, "TE") /\ On(b, "TE")
    BY <1>7, <1>8, <1>11 DEF Begins, Flag, On, SamePort
  <2>2. Sends(x, b)
    BY <1>7, <2>1, doTXSends DEF Untouched
  <2>3. Pending(b) = Pending(w)
    BY <1>7 DEF Pending, Delayed, On, SamePort, Untouched
  <2>4. Idle(x) = x
    BY <2>1, <2>2 DEF Idle, Sends, SamePort, On
  <2> QED
    BY <1>7, <1>10, <1>11, <2>1, <2>2, <2>3, <2>4 DEF Sends, SamePort, Untouched
<1>12. CASE ~Begins(w, val)
  <2>1. /\ Untouched(x, w) /\ SamePort(x, w) /\ x.req = w.req
        /\ x.sci.tdr = w.sci.tdr
        /\ "TDRE" \in x.sci.ssr <=> "TDRE" \in f
        /\ "RDRF" \in x.sci.ssr => "RDRF" \in f
    BY <1>4, <1>7, <1>8, <1>12 DEF Begins, Flag
  <2>2. IsWorld(x)
    BY <2>1 DEF Untouched
  <2>3. /\ Untouched(Idle(x), x) /\ SamePort(Idle(x), x)
        /\ Idle(x).req = x.req /\ Idle(x).sci.tdr = x.sci.tdr
        /\ On(w, "TE") => Idle(x).sci.ssr = x.sci.ssr
        /\ ~On(w, "TE") => "TDRE" \in Idle(x).sci.ssr
    BY <2>1, <2>2, IdleIs DEF On, SamePort
  <2> HIDE DEF Begins
  <2> QED
    BY <1>1, <1>10, <1>12, <2>1, <2>3 DEF SamePort, Untouched
<1> QED
  BY <1>11, <1>12

-----------------------------------------------------------------------------
(* The units that move data.  Whatever they do to memory, to their own     *)
(* registers and to the requests, the port's prediction stays right.       *)

(* As long as nothing is transmitted, Junk is all that is sent.            *)
Silent(w) == ~On(w, "TE") => w.dev.wrote \in Seq({Junk})

Fit(w) == IsWorld(w) /\ Timely(w) /\ Silent(w)

(* What an access to the port or to memory leaves as it was. *)
Keeps(v, w) == Fit(v) /\ v.dtc = w.dtc /\ v.sci.scr = w.sci.scr

LEMMA UpdateFits ==
  ASSUME NEW w, Fit(w)
  PROVE  Keeps(update(w), w)
<1>1. Lapse(update(w), Raised(w)) /\ Timely(update(w))
  BY UpdateLapses DEF Fit
<1>2. Silent(Raised(w))
  BY RaisedIs DEF Fit, Silent, On
<1> QED
  BY <1>1, <1>2, RaisedIs DEF Fit, Keeps, Silent, Lapse, SamePort, On

LEMMA ClearFits ==
  ASSUME NEW w, Fit(w), NEW f
  PROVE  Keeps(Clear(w, f), w)
BY SetSSRIs DEF Fit, Keeps, Silent, Clear, SamePort, On

LEMMA BusFits ==
  ASSUME NEW w, Fit(w), NEW src, NEW dst
  PROVE  Keeps(BusCopy(w, src, dst), w)
<1>1. PICK u : u = BusRead(w, src)
  OBVIOUS
<1>2. Keeps(u, w)
  BY <1>1, UpdateFits DEF BusRead, Keeps
<1>3. PICK b : b = BusValue(u, src)
  OBVIOUS
<1>4. BusCopy(w, src, dst) = BusWrite(u, dst, b)
  BY <1>1, <1>3 DEF BusCopy, Delivered
<1>5. CASE dst = TDR
  <2>1. BusWrite(u, dst, b) = SetTDR(update(u), b)
    BY <1>5, CpuAssumption DEF BusWrite
  <2> QED
    BY <1>2, <1>4, <2>1, UpdateFits, SetTDRIs DEF Fit, Keeps, Silent, Untouched, SamePort, On
<1>6. CASE dst = RDR /\ dst # TDR
  <2>1. BusWrite(u, dst, b) = Idle(update(u))
    BY <1>6, CpuAssumption DEF BusWrite
  <2> QED
    BY <1>2, <1>4, <2>1, UpdateFits, IdleIs DEF Fit, Keeps, Silent, Untouched, SamePort, On
<1>7. CASE dst # TDR /\ dst # RDR
  <2>1. BusWrite(u, dst, b) = [u EXCEPT !.mem[dst] = b]
    BY <1>7, CpuAssumption DEF BusWrite
  <2> QED
    BY <1>2, <1>4, <2>1 DEF Fit, Keeps, Silent, On, IsWorld, Timely, WorldFields
<1> QED
  BY <1>5, <1>6, <1>7

LEMMA MoveUnitFits ==
  ASSUME NEW w, Fit(w), NEW s
  PROVE  Keeps(MoveUnit(w, s), w)
<1>1. PICK c : c = w.dma[s]
  OBVIOUS
<1>2. PICK a : a = Withdrawn(w, s)
  OBVIOUS
<1>3. Keeps(a, w)
  BY <1>2 DEF Withdrawn, Fit, Keeps, Silent, On, IsWorld, Timely, WorldFields
<1>4. PICK b : b = BusCopy(a, Source(c), Destination(c))
  OBVIOUS
<1>5. Keeps(b, w)
  BY <1>3, <1>4, BusFits DEF Keeps
<1>6. PICK d : d = CountedDown(b, s)
  OBVIOUS
<1>7. Keeps(d, w)
  BY <1>5, <1>6 DEF CountedDown, Fit, Keeps, Silent, On, IsWorld, Timely, WorldFields
<1>8. PICK e : e = EndedIfDone(d, s)
  OBVIOUS
<1>9. Keeps(e, w)
  BY <1>7, <1>8 DEF EndedIfDone, interrupt, Disabled, Fit, Keeps, Silent, On, IsWorld, Timely, WorldFields
<1>10. PICK f : f = Stepped(e, s)
  OBVIOUS
<1>11. Keeps(f, w)
  BY <1>9, <1>10 DEF Stepped, Fit, Keeps, Silent, On, IsWorld, Timely, WorldFields
<1>12. MoveUnit(w, s) = Acknowledged(f, c)
  BY <1>1, <1>2, <1>4, <1>6, <1>8, <1>10 DEF MoveUnit
<1> QED
  BY <1>11, <1>12, ClearFits DEF Acknowledged, Keeps

LEMMA SubChannelFits ==
  ASSUME NEW w, Fit(w), NEW s
  PROVE  Keeps(doSubChannel(w, s), w)
<1>1. Keeps(Disabled(w, s), w)
  BY DEF Disabled, Fit, Keeps, Silent, On, IsWorld, Timely, WorldFields
<1>2. doSubChannel(w, s) \in {w, Disabled(w, s), MoveUnit(w, s)}
  BY DEF doSubChannel
<1> QED
  BY <1>1, <1>2, MoveUnitFits DEF Keeps

LEMMA TransferFits ==
  ASSUME NEW w, Fit(w)
  PROVE  Keeps(transfer(w), w)
BY SubChannelFits DEF transfer, Keeps

(* The turns of a descriptor. *)
NextUnit(t, d) ==
  [w |-> BusCopy(t.w, t.src, t.dst), src |-> t.src + d.srcStep,
   dst |-> t.dst + d.dstStep]

Units1(d) == IF d.mode = "block" THEN d.lo ELSE 1

UnitTurns(w, d, n) ==
  CHOOSE turn : turn = [k \in 0 .. n |->
    IF k = 0 THEN [w |-> w, src |-> d.src, dst |-> d.dst]
    ELSE NextUnit(turn[k - 1], d)]

LEMMA MovedIsTurns ==
  ASSUME NEW w, NEW d
  PROVE  Moved(w, d) = UnitTurns(w, d, Units1(d))[Units1(d)]
BY DEF Moved, UnitTurns, NextUnit, Units1

LEMMA UnitTurnsAre ==
  ASSUME NEW w, NEW d, NEW n \in Nat
  PROVE  \A k \in 0 .. n :
           UnitTurns(w, d, n)[k] =
             IF k = 0 THEN [w |-> w, src |-> d.src, dst |-> d.dst]
             ELSE NextUnit(UnitTurns(w, d, n)[k - 1], d)
<1> DEFINE start == [w |-> w, src |-> d.src, dst |-> d.dst]
<1> HIDE DEF start
<1> DEFINE Map(g, k) == [i \in 0 .. k |-> IF i = 0 THEN start ELSE NextUnit(g[i - 1], d)]
           Bad == {k \in Nat : ~ \E g : g = Map(g, k)}
<1>1. Bad = {}
  <2>1. SUFFICES ASSUME Bad # {} PROVE FALSE
    OBVIOUS
  <2>2. PICK m \in Bad : \A k \in Bad : m <= k
    <3>1. Bad \in SUBSET Nat
      OBVIOUS
    <3> HIDE DEF Bad
    <3> QED
      BY <2>1, <3>1, LeastNumber
  <2>3. m \in Nat /\ ~ \E g : g = Map(g, m)
    BY <2>2
  <2>4. CASE m = 0
    <3> DEFINE h == [i \in 0 .. 0 |-> start]
    <3>1. h = Map(h, 0)
      OBVIOUS
    <3> HIDE DEF h, Map
    <3> QED
      BY <2>3, <2>4, <3>1
  <2>5. CASE m # 0
    <3>1. m - 1 \in Nat /\ m - 1 \notin Bad
      BY <2>2, <2>3, <2>5, Z3
    <3>2. PICK g : g = Map(g, m - 1)
      BY <3>1
    <3> DEFINE h == [i \in 0 .. m |-> IF i = m THEN NextUnit(g[m - 1], d) ELSE g[i]]
    <3>3. \A i \in 0 .. m - 1 : g[i] = IF i = 0 THEN start ELSE NextUnit(g[i - 1], d)
      BY <3>2
    <3>4. \A i \in 0 .. m : h[i] = IF i = 0 THEN start ELSE NextUnit(h[i - 1], d)
      <4> TAKE i \in 0 .. m
      <4>1. CASE i = 0
        BY <2>3, <2>5, <3>3, <4>1
      <4>2. CASE i # 0
        <5>1. i - 1 \in 0 .. m /\ i - 1 # m /\ h[i - 1] = g[i - 1]
          BY <2>3, <4>2
        <5>2. i # m => i \in 0 .. m - 1
          BY <2>3
        <5>3. h[i] = IF i = m THEN NextUnit(g[m - 1], d) ELSE g[i]
          OBVIOUS
        <5> HIDE DEF h
        <5> QED
          BY <3>3, <4>2, <5>1, <5>2, <5>3
      <4> QED
        BY <4>1, <4>2
    <3>5. h = [i \in 0 .. m |-> h[i]]
      OBVIOUS
    <3> HIDE DEF h
    <3>6. h = Map(h, m)
      BY <3>4, <3>5
    <3> HIDE DEF Map
    <3> QED
      BY <2>3, <3>6
  <2> QED
    BY <2>4, <2>5
<1>2. UnitTurns(w, d, n) = Map(UnitTurns(w, d, n), n)
  <2>1. \E g : g = Map(g, n)
    BY <1>1
  <2>2. UnitTurns(w, d, n) = CHOOSE g : g = Map(g, n)
    BY DEF UnitTurns, start
  <2> HIDE DEF Map
  <2> QED
    BY <2>1, <2>2
<1> QED
  BY <1>2 DEF start

LEMMA MovedFits ==
  ASSUME NEW w, Fit(w), NEW d, d.mode = "block" => d.lo \in Nat
  PROVE  Keeps(Moved(w, d).w, w)
<1> DEFINE n == Units1(d)
           t == UnitTurns(w, d, n)
           Good(x) == Keeps(x.w, w)
           Bad == {i \in 0 .. n : ~Good(t[i])}
<1>1. n \in Nat
  BY DEF Units1
<1>2. \A i \in 0 .. n : t[i] = IF i = 0 THEN [w |-> w, src |-> d.src, dst |-> d.dst]
                               ELSE NextUnit(t[i - 1], d)
  BY <1>1, UnitTurnsAre
<1>3. Bad = {}
  <2>1. SUFFICES ASSUME Bad # {} PROVE FALSE
    OBVIOUS
  <2>2. PICK m \in Bad : \A k \in Bad : m <= k
    <3>1. Bad \in SUBSET Nat
      BY <1>1
    <3> HIDE DEF Bad
    <3> QED
      BY <2>1, <3>1, LeastNumber
  <2>3. m \in 0 .. n /\ ~Good(t[m])
    BY <2>2
  <2>4. CASE m = 0
    <3>1. t[m].w = w
      BY <1>2, <2>3, <2>4
    <3> QED
      BY <2>3, <3>1 DEF Keeps
  <2>5. CASE m # 0
    <3>1. m - 1 \in 0 .. n /\ m - 1 \notin Bad
      BY <1>1, <2>2, <2>3, <2>5
    <3>2. PICK x : x = t[m - 1]
      OBVIOUS
    <3>3. Keeps(x.w, w)
      BY <3>1, <3>2
    <3>4. t[m].w = BusCopy(x.w, x.src, x.dst)
      <4> HIDE DEF t
      <4>1. t[m] = NextUnit(x, d)
        BY <1>2, <2>3, <2>5, <3>2
      <4> QED
        BY <4>1 DEF NextUnit
    <3> HIDE DEF t
    <3> QED
      BY <2>3, <3>3, <3>4, BusFits DEF Keeps
  <2> QED
    BY <2>4, <2>5
<1>4. n \in 0 .. n /\ Moved(w, d) = t[n]
  BY <1>1, MovedIsTurns
<1> HIDE DEF t, n
<1> QED
  BY <1>3, <1>4

(* The descriptors of DtcSetup: the first is alone, the second has the     *)
(* third chained to it.  They stay so while they are counted down.         *)
DescFields == {"mode", "src", "srcStep", "dst", "dstStep", "hi", "lo", "countB",
               "chain", "disel", "srcBlock"}

IsDescriptor(d) ==
  /\ DOMAIN d = DescFields
  /\ d.mode = "block" => d.lo \in Nat /\ d.hi \in Nat

Chainable(u) ==
  /\ DOMAIN u = {"enabled", "vec", "descs"}
  /\ u.enabled # {} =>
       /\ u.enabled \subseteq {"TXI", "RXI"}
       /\ DOMAIN u.vec = {"TXI", "RXI"} /\ \A s \in {"TXI", "RXI"} : u.vec[s] \in 1 .. 3
       /\ u.descs = [n \in 1 .. 3 |-> u.descs[n]]
       /\ \A n \in 1 .. 3 : IsDescriptor(u.descs[n])
       /\ ~u.descs[1].chain /\ u.descs[2].chain /\ ~u.descs[3].chain

LastOf(v) == IF v = 1 THEN 1 ELSE 3

LEMMA LastIs ==
  ASSUME NEW w, Chainable(w.dtc), w.dtc.enabled # {}, NEW v \in 1 .. 3
  PROVE  Last(w, v) = LastOf(v)
<1> DEFINE Ends1(n) == /\ ~w.dtc.descs[n].chain
                       /\ \A k \in v .. n - 1 : w.dtc.descs[k].chain
<1>1. /\ Len(w.dtc.descs) = 3 /\ ~w.dtc.descs[1].chain /\ w.dtc.descs[2].chain
      /\ ~w.dtc.descs[3].chain
  BY DEF Chainable
<1>2. LastOf(v) \in v .. 3 /\ Ends1(LastOf(v))
  BY <1>1 DEF LastOf
<1>3. \A n \in v .. 3 : Ends1(n) => n = LastOf(v)
  BY <1>1 DEF LastOf
<1>4. Last(w, v) = CHOOSE n \in v .. 3 : Ends1(n)
  BY <1>1 DEF Last
<1> HIDE DEF Ends1
<1> QED
  BY <1>2, <1>3, <1>4

(* One descriptor of a chain. *)
NextDescriptor(w, n) == Stored(Moved(w, w.dtc.descs[n]), n, w.dtc.descs[n])

LEMMA CountedIs ==
  ASSUME NEW d, IsDescriptor(d), NEW src, NEW dst
  PROVE  IsDescriptor(Counted(d, src, dst)) /\ Counted(d, src, dst).chain = d.chain
<1>1. CASE d.mode = "normal"
  <2>1. PICK a, b : Counted(d, src, dst) =
                      [d EXCEPT !.hi = a, !.lo = b, !.src = src, !.dst = dst]
    BY <1>1 DEF Counted
  <2> QED
    BY <1>1, <2>1 DEF IsDescriptor, DescFields
<1>2. CASE d.mode # "normal"
  <2>1. PICK b, c, e : Counted(d, src, dst) =
                         [d EXCEPT !.lo = d.hi, !.countB = b, !.src = c, !.dst = e]
    BY <1>2 DEF Counted, IsDescriptor, DescFields
  <2> QED
    BY <1>2, <2>1 DEF IsDescriptor, DescFields
<1> QED
  BY <1>1, <1>2

LEMMA NextDescriptorFits ==
  ASSUME NEW w, Fit(w), Chainable(w.dtc), w.dtc.enabled # {}, NEW n \in 1 .. 3
  PROVE  /\ Fit(NextDescriptor(w, n)) /\ Chainable(NextDescriptor(w, n).dtc)
         /\ NextDescriptor(w, n).dtc.enabled = w.dtc.enabled
         /\ NextDescriptor(w, n).sci.scr = w.sci.scr
<1>1. PICK d : d = w.dtc.descs[n]
  OBVIOUS
<1>2. IsDescriptor(d)
  BY <1>1 DEF Chainable
<1>3. PICK m : m = Moved(w, d)
  OBVIOUS
<1>4. Keeps(m.w, w)
  BY <1>2, <1>3, MovedFits DEF IsDescriptor
<1>5. PICK e : e = Counted(d, m.src, m.dst)
  OBVIOUS
<1>6. IsDescriptor(e) /\ e.chain = d.chain
  BY <1>2, <1>5, CountedIs
<1>7. NextDescriptor(w, n) = [m.w EXCEPT !.dtc.descs[n] = e]
  BY <1>1, <1>3, <1>5 DEF NextDescriptor, Stored
<1>8. PICK x : x = NextDescriptor(w, n)
  OBVIOUS
<1>9. Fit(x) /\ x.sci.scr = w.sci.scr
  BY <1>4, <1>7, <1>8 DEF Fit, Keeps, Silent, On, IsWorld, Timely, WorldFields
<1>10. /\ x.dtc = [w.dtc EXCEPT !.descs[n] = e]
  BY <1>4, <1>7, <1>8 DEF Fit, Keeps, IsWorld, WorldFields
<1>11. [w.dtc.descs EXCEPT ![n] = e] = [k \in 1 .. 3 |-> [w.dtc.descs EXCEPT ![n] = e][k]]
  BY DEF Chainable
<1> QED
  BY <1>1, <1>6, <1>8, <1>9, <1>10, <1>11 DEF Chainable

(* A chain has one descriptor or two. *)
LEMMA ChainedFits ==
  ASSUME NEW w, Fit(w), Chainable(w.dtc), w.dtc.enabled # {}, NEW v \in 1 .. 3
  PROVE  /\ Fit(Chained(w, v)) /\ Chainable(Chained(w, v).dtc)
         /\ Chained(w, v).dtc.enabled = w.dtc.enabled
         /\ Chained(w, v).sci.scr = w.sci.scr
         /\ v = 1 => Chained(w, v) = NextDescriptor(w, v)
<1> DEFINE Good(x) == /\ Fit(x) /\ Chainable(x.dtc)
                      /\ x.dtc.enabled = w.dtc.enabled /\ x.sci.scr = w.sci.scr
           last == LastOf(v)
           Map(g) == [n \in v - 1 .. last |-> IF n = v - 1 THEN w
                                              ELSE NextDescriptor(g[n - 1], n)]
           run == CHOOSE g : g = Map(g)
<1>1. last \in {v, v + 1} /\ last \in 1 .. 3 /\ last # v - 1
  BY DEF LastOf
<1>2. Chained(w, v) = run[last]
  <2>1. Last(w, v) = last
    BY LastIs
  <2> QED
    BY <2>1 DEF Chained, NextDescriptor
<1> HIDE DEF last, run
<1>3. PICK a : a = NextDescriptor(w, v)
  OBVIOUS
<1>4. PICK b : b = NextDescriptor(a, v + 1)
  OBVIOUS
<1>5. Good(a)
  BY <1>3, NextDescriptorFits
<1>6. v + 1 \in 1 .. 3 => Good(b)
  BY <1>4, <1>5, NextDescriptorFits
<1> DEFINE h == [n \in v - 1 .. last |-> IF n = v - 1 THEN w ELSE IF n = v THEN a ELSE b]
<1>7. h = Map(h)
  <2>1. /\ \A n \in v - 1 .. last : n = v - 1 \/ n = v \/ n = v + 1
        /\ v - 1 # v /\ v - 1 # v + 1 /\ v # v + 1
    BY <1>1
  <2>2. h[v - 1] = w /\ h[v] = a /\ (v + 1 \in v - 1 .. last => h[v + 1] = b)
    BY <1>1
  <2>3. \A n \in v - 1 .. last :
          h[n] = IF n = v - 1 THEN w ELSE NextDescriptor(h[n - 1], n)
    <3> TAKE n \in v - 1 .. last
    <3> HIDE DEF h
    <3>1. CASE n = v - 1
      BY <2>2, <3>1
    <3>2. CASE n = v
      BY <1>3, <2>1, <2>2, <3>2
    <3>3. CASE n = v + 1
      <4>1. n - 1 = v
        BY <3>3
      <4> QED
        BY <1>4, <2>1, <2>2, <3>3, <4>1
    <3> QED
      BY <2>1, <3>1, <3>2, <3>3
  <2>4. h = [n \in v - 1 .. last |-> h[n]]
    OBVIOUS
  <2> HIDE DEF h
  <2> QED
    BY <2>3, <2>4
<1> HIDE DEF h
<1>8. run = Map(run)
  <2> HIDE DEF Map
  <2> QED
    BY <1>7 DEF run
<1>9. \A n \in v - 1 .. last : run[n] = IF n = v - 1 THEN w ELSE NextDescriptor(run[n - 1], n)
  BY <1>8
<1>10. run[v - 1] = w /\ run[v] = a
  BY <1>1, <1>3, <1>9
<1>11. last = v + 1 => run[v + 1] = b
  <2>1. v + 1 - 1 = v /\ v + 1 # v - 1
    OBVIOUS
  <2> QED
    BY <1>1, <1>4, <1>9, <1>10, <2>1
<1>12. v = 1 => last = 1
  BY DEF last, LastOf
<1> QED
  BY <1>1, <1>2, <1>3, <1>5, <1>6, <1>10, <1>11, <1>12

LEMMA ServedFits ==
  ASSUME NEW w, Fit(w), Chainable(w.dtc), NEW d, NEW s
  PROVE  /\ Fit(Served(w, d, s).w) /\ Chainable(Served(w, d, s).w.dtc)
         /\ Served(w, d, s).w.sci.scr = w.sci.scr
         /\ Served(w, d, s).triggered \in BOOLEAN
<1>1. PICK u : u = Settled(w, d, s)
  OBVIOUS
<1>2. Fit(u) /\ Chainable(u.dtc) /\ u.sci.scr = w.sci.scr
  <2>1. CASE d.disel \/ Ends(d)
    <3>1. u = [w EXCEPT !.dtc.enabled = @ \ {s}]
      BY <1>1, <2>1 DEF Settled
    <3>2. u.dtc = [w.dtc EXCEPT !.enabled = @ \ {s}]
      BY <3>1 DEF Fit, IsWorld, WorldFields
    <3>3. Fit(u) /\ u.sci.scr = w.sci.scr
      BY <3>1 DEF Fit, Silent, On, IsWorld, Timely, WorldFields
    <3> QED
      BY <3>2, <3>3 DEF Chainable
  <2>2. CASE ~(d.disel \/ Ends(d))
    <3>1. u = [w EXCEPT !.req = @ \ {s}]
      BY <1>1, <2>2 DEF Settled
    <3> QED
      BY <3>1 DEF Fit, Silent, On, IsWorld, Timely, WorldFields
  <2> QED
    BY <2>1, <2>2
<1>3. Served(w, d, s) = Concluded(u, d, s)
  BY <1>1 DEF Served
<1>4. CASE Ends(d)
  BY <1>2, <1>3, <1>4 DEF Concluded
<1>5. CASE ~Ends(d)
  <2>1. PICK f : f = IF d.dst = TDR THEN Clear(u, "TDRE") ELSE u
    OBVIOUS
  <2>2. Fit(f) /\ Chainable(f.dtc) /\ f.sci.scr = w.sci.scr
    BY <1>2, <2>1, ClearFits DEF Keeps
  <2>3. PICK g : g = IF d.src = RDR THEN Clear(f, "RDRF") ELSE f
    OBVIOUS
  <2>4. Fit(g) /\ Chainable(g.dtc) /\ g.sci.scr = w.sci.scr
    BY <2>2, <2>3, ClearFits DEF Keeps
  <2>5. Concluded(u, d, s) = [w |-> g, triggered |-> TRUE]
    BY <1>5, <2>1, <2>3 DEF Concluded
  <2> QED
    BY <1>3, <2>4, <2>5
<1> QED
  BY <1>4, <1>5

LEMMA DtcFits ==
  ASSUME NEW w, Fit(w), Chainable(w.dtc)
  PROVE  /\ Fit(updateDTC(w).w) /\ Chainable(updateDTC(w).w.dtc)
         /\ updateDTC(w).w.sci.scr = w.sci.scr
         /\ updateDTC(w).triggered \in BOOLEAN
<1> DEFINE asked == {i \in DOMAIN DtcOrder : DtcOrder[i] \in w.dtc.enabled \cap w.req}
<1>1. PICK first : first = CHOOSE i \in asked : \A k \in asked : i <= k
  OBVIOUS
<1>2. PICK s : s = DtcOrder[first]
  OBVIOUS
<1>3. CASE asked = {} \/ \E t \in w.req : Before(t, s)
  <2>1. updateDTC(w) = [w |-> w, triggered |-> FALSE]
    BY <1>1, <1>2, <1>3 DEF updateDTC
  <2> QED
    BY <2>1
<1>4. CASE ~(asked = {} \/ \E t \in w.req : Before(t, s))
  <2>1. updateDTC(w) = Activated(w, s, w.dtc.vec[s])
    BY <1>1, <1>2, <1>4 DEF updateDTC
  <2>2. first \in asked
    <3>1. asked \in SUBSET Nat
      BY DEF DtcOrder
    <3> HIDE DEF asked
    <3> QED
      BY <1>1, <1>4, <3>1, LeastNumber
  <2>3. s \in w.dtc.enabled
    BY <1>2, <2>2
  <2>4. PICK v \in 1 .. 3 : v = w.dtc.vec[s]
    BY <2>3 DEF Chainable
  <2>5. PICK u : u = Chained(w, v)
    OBVIOUS
  <2>6. Fit(u) /\ Chainable(u.dtc) /\ u.sci.scr = w.sci.scr
    BY <2>3, <2>5, ChainedFits
  <2>7. updateDTC(w) = Served(u, u.dtc.descs[Last(u, v)], s)
    BY <2>1, <2>4, <2>5 DEF Activated
  <2> QED
    BY <2>6, <2>7, ServedFits
<1> QED
  BY <1>3, <1>4

-----------------------------------------------------------------------------
(* The loop, the instructions and the interrupts. *)

FwFields == {"program", "pc", "n", "tmp", "got", "ended", "held"}

Orderly == /\ DOMAIN fw = FwFields /\ DOMAIN handler = {"source", "pc"}
           /\ handler.source # "none" => masked

(* Only a program with something to send lets the port transmit.           *)
Allowed(w) == On(w, "TE") => fw.program \in Transmits

IInv == /\ Fit(World) /\ Chainable(dtc) /\ Allowed(World)
        /\ Orderly /\ UpdatedInTime

(* What a step leaves the world in. *)
Leaves(w) == Fit(w) /\ Chainable(w.dtc) /\ Allowed(w) /\ Become(w)

LEMMA WorldIs ==
  /\ World.sci = sci /\ World.dev = dev /\ World.req = req /\ World.mem = mem
  /\ World.dma = dma /\ World.dtc = dtc /\ DOMAIN World = WorldFields
BY DEF World, WorldFields

LEMMA LeftFits ==
  ASSUME NEW w, Leaves(w), fw'.program = fw.program
  PROVE  Fit(World)' /\ Chainable(dtc)' /\ Allowed(World)'
BY DEF Leaves, Allowed, Become, World, Fit, Silent, On, IsWorld, Timely, WorldFields

LEMMA AccessedFits ==
  ASSUME Fit(World), Chainable(dtc)
  PROVE  Fit(Accessed) /\ Chainable(Accessed.dtc) /\ Accessed.sci.scr = sci.scr
BY UpdateFits, WorldIs DEF Accessed, Keeps

LEMMA RegisterFits ==
  ASSUME Fit(World), Chainable(dtc), Allowed(World), NEW val
  PROVE  /\ ("TE" \in sci.scr => "TE" \in val) /\ ("TE" \in val => fw.program \in Transmits) =>
              /\ Fit(SetSCR(Accessed, val)) /\ Chainable(SetSCR(Accessed, val).dtc)
              /\ Allowed(SetSCR(Accessed, val))
         /\ Fit(SetTDR(Accessed, val)) /\ Chainable(SetTDR(Accessed, val).dtc)
         /\ Allowed(SetTDR(Accessed, val))
         /\ Fit(SetSSR(Accessed, val)) /\ Chainable(SetSSR(Accessed, val).dtc)
         /\ Allowed(SetSSR(Accessed, val))
<1>1. PICK w : w = Accessed
  OBVIOUS
<1>2. /\ Fit(w) /\ Chainable(w.dtc) /\ IsWorld(w) /\ w.sci.scr = sci.scr
      /\ "TE" \in sci.scr => fw.program \in Transmits
  BY <1>1, AccessedFits, WorldIs DEF Fit, Allowed, On
<1>3. Untouched(SetTDR(w, val), w) /\ SetTDR(w, val).sci.scr = sci.scr
  BY <1>2, SetTDRIs DEF SamePort
<1>4. /\ Fit(SetSSR(w, val)) /\ SetSSR(w, val).dtc = w.dtc
      /\ SetSSR(w, val).sci.scr = sci.scr
  BY <1>2, SetSSRIs DEF Fit, Silent, On, SamePort
<1>5. Untouched(SetSCR(w, val), w) /\ SetSCR(w, val).sci.scr = val
  <2>1. IsWorld(w)
    BY <1>2
  <2> HIDE <1>2
  <2> QED
    BY <2>1, SetSCRSets
<1>6. ("TE" \in sci.scr => "TE" \in val) => Fit(SetSCR(w, val))
  BY <1>2, <1>5 DEF Fit, Silent, On, Untouched
<1>7. Fit(SetTDR(w, val))
  BY <1>2, <1>3 DEF Fit, Silent, On, Untouched
<1> QED
  BY <1>1, <1>2, <1>3, <1>4, <1>5, <1>6, <1>7 DEF Allowed, On, Untouched

LEMMA SetupFits ==
  ASSUME Fit(World), Chainable(dtc)
  PROVE  /\ Fit(DmaSetup) /\ Chainable(DmaSetup.dtc) /\ DmaSetup.sci = sci
         /\ Fit(DtcSetup) /\ Chainable(DtcSetup.dtc) /\ DtcSetup.sci = sci
<1>1. Fit(DmaSetup) /\ DmaSetup.dtc = dtc /\ DmaSetup.sci = sci
  BY WorldIs DEF DmaSetup, Fit, Silent, On, IsWorld, Timely, WorldFields
<1>2. PICK e : e = (IF fw.program \in Transmits THEN {"TXI"} ELSE {}) \cup
                   (IF fw.program \in Receives THEN {"RXI"} ELSE {})
  OBVIOUS
<1>3. PICK v : v = [TXI |-> 1, RXI |-> IF fw.program = "dtcLog" THEN 2 ELSE 3]
  OBVIOUS
<1> DEFINE second == [Descriptor(Received1, 1, Log + 1, 1) EXCEPT
                        !.mode = "block", !.hi = Length, !.countB = Length,
                        !.chain = TRUE, !.srcBlock = TRUE]
<1>4. PICK a : a = Descriptor(1, 1, TDR, 0)
  OBVIOUS
<1>5. PICK b : b = second
  OBVIOUS
<1>6. PICK c : c = Descriptor(RDR, 0, Received1, 1)
  OBVIOUS
<1>7. /\ IsDescriptor(a) /\ ~a.chain
      /\ IsDescriptor(b) /\ b.chain
      /\ IsDescriptor(c) /\ ~c.chain
  <2>1. IsDescriptor(a) /\ ~a.chain
    BY <1>4 DEF Descriptor, IsDescriptor, DescFields
  <2>2. IsDescriptor(b) /\ b.chain
    BY <1>5, CpuAssumption DEF Descriptor, IsDescriptor, DescFields
  <2>3. IsDescriptor(c) /\ ~c.chain
    BY <1>6 DEF Descriptor, IsDescriptor, DescFields
  <2> QED
    BY <2>1, <2>2, <2>3
<1> HIDE DEF second
<1>8. PICK d : d = <<a, b, c>>
  OBVIOUS
<1>9. /\ d = [n \in 1 .. 3 |-> d[n]]
      /\ d[1] = a /\ d[2] = b /\ d[3] = c
  BY <1>8
<1>10. DtcSetup = [World EXCEPT !.dtc.enabled = e, !.dtc.vec = v, !.dtc.descs = d]
  BY <1>2, <1>3, <1>4, <1>5, <1>6, <1>8 DEF DtcSetup, second
<1>11. Fit(DtcSetup) /\ DtcSetup.sci = sci
  BY <1>10, WorldIs DEF Fit, Silent, On, IsWorld, Timely, WorldFields
<1>12. /\ DOMAIN DtcSetup.dtc = {"enabled", "vec", "descs"}
       /\ DtcSetup.dtc.enabled = e /\ DtcSetup.dtc.vec = v /\ DtcSetup.dtc.descs = d
  BY <1>10, WorldIs DEF WorldFields, Chainable
<1>13. e \subseteq {"TXI", "RXI"}
  BY <1>2
<1>14. DOMAIN v = {"TXI", "RXI"} /\ \A s \in {"TXI", "RXI"} : v[s] \in 1 .. 3
  BY <1>3
<1>15. \A n \in 1 .. 3 : IsDescriptor(d[n])
  BY <1>7, <1>9
<1> QED
  BY <1>1, <1>7, <1>9, <1>11, <1>12, <1>13, <1>14, <1>15 DEF Chainable

LEMMA InterruptsFit ==
  ASSUME NEW w, Fit(w), Chainable(w.dtc), Allowed(w), serviceInterrupt(w), Orderly
  PROVE  /\ \E x : Leaves(x)
         /\ DOMAIN handler' = {"source", "pc"} /\ (handler'.source # "none" => masked')
<1>1. CASE w.req = {} \/ masked
  BY <1>1 DEF serviceInterrupt, Leaves, Orderly
<1>2. CASE ~(w.req = {} \/ masked)
  <2>1. PICK x : x = [w EXCEPT !.req = @ \ {Lowest(w.req)}]
    OBVIOUS
  <2>2. /\ Become(x) /\ masked' = TRUE
        /\ handler' = [source |-> Lowest(w.req), pc |-> "enter"]
    BY <1>2, <2>1 DEF serviceInterrupt
  <2>3. Fit(x) /\ x.dtc = w.dtc /\ Allowed(x)
    BY <2>1 DEF Fit, Silent, On, Allowed, IsWorld, Timely, WorldFields
  <2> QED
    BY <2>2, <2>3 DEF Leaves
<1> QED
  BY <1>1, <1>2

LEMMA RequestsFit ==
  ASSUME IInv, ServeRequests
  PROVE  /\ \E x : Leaves(x)
         /\ fw' = fw /\ Orderly'
<1>1. PICK r : r = updateDTC(World)
  OBVIOUS
<1>2. Fit(r.w) /\ Chainable(r.w.dtc) /\ Allowed(r.w)
  BY <1>1, DtcFits, WorldIs DEF IInv, Allowed, On
<1>3. fw' = fw /\ Orderly
  BY DEF ServeRequests, IInv
<1>4. CASE r.triggered
  BY <1>1, <1>2, <1>3, <1>4 DEF ServeRequests, InterruptUnless, Leaves, Orderly
<1>5. CASE ~r.triggered
  <2>1. serviceInterrupt(r.w)
    BY <1>1, <1>5 DEF ServeRequests, InterruptUnless
  <2> QED
    BY <1>2, <1>3, <2>1, InterruptsFit DEF Orderly
<1> QED
  BY <1>4, <1>5

(* What an instruction may leave: the processor and the port's registers   *)
(* are all it can change. *)
LEMMA InstructionLeaves ==
  ASSUME IInv, Instruction
  PROVE  /\ \E x : Leaves(x)
         /\ phase' = "update"
<1>0. Fit(World) /\ Chainable(dtc) /\ Allowed(World)
  BY DEF IInv
<1>1. Leaves(World) <=> Become(World)
  BY <1>0, WorldIs DEF Leaves
<1>2. Leaves(Accessed) <=> Become(Accessed)
  BY <1>0, AccessedFits, WorldIs DEF Leaves, Allowed, On
<1>3. \A val : /\ Leaves(SetTDR(Accessed, val)) <=> Become(SetTDR(Accessed, val))
               /\ Leaves(SetSSR(Accessed, val)) <=> Become(SetSSR(Accessed, val))
  BY <1>0, RegisterFits DEF Leaves
<1>4. \A val \in {Directions, Directions \cup Enables, Stopped} :
        Leaves(SetSCR(Accessed, val)) <=> Become(SetSCR(Accessed, val))
  <2> TAKE val \in {Directions, Directions \cup Enables, Stopped}
  <2>1. /\ "TE" \in sci.scr => fw.program \in Transmits
        /\ "TE" \in Directions <=> fw.program \in Transmits
        /\ "TE" \notin Enables
        /\ "TE" \in Stopped <=> "TE" \in sci.scr
    BY <1>0, WorldIs DEF Allowed, On, Directions, Enables, Stopped
  <2>2. /\ "TE" \in sci.scr => "TE" \in val
        /\ "TE" \in val => fw.program \in Transmits
    BY <2>1
  <2> QED
    BY <1>0, <2>2, RegisterFits DEF Leaves
<1>5. UNCHANGED world => Leaves(World)
  BY <1>1, WorldIs DEF world, Become
<1>6. CASE Start
  <2>1. Leaves(WriteIER(TRUE)) <=> Become(WriteIER(TRUE))
    <3>1. Fit(WriteIER(TRUE)) /\ WriteIER(TRUE).dtc = dtc /\ Allowed(WriteIER(TRUE))
      BY <1>0, WorldIs DEF WriteIER, Fit, Silent, On, Allowed, IsWorld, Timely, WorldFields
    <3> QED
      BY <1>0, <3>1 DEF Leaves
  <2> QED
    BY <1>4, <1>5, <1>6, <2>1 DEF Start, Unmask, Instruct, Main
<1>7. CASE sciWrite
  BY <1>2, <1>3, <1>7 DEF sciWrite, WaitFor, Branch, Main, Instruct, ReadSSR, Cleared, CountByte
<1>8. CASE sciRead
  BY <1>2, <1>3, <1>8 DEF sciRead, WaitFor, Branch, Main, Instruct, ReadSSR, Cleared, CountByte
<1>9. CASE HaveMoved
  <2>1. /\ Leaves(DmaSetup) <=> Become(DmaSetup)
        /\ Leaves(DtcSetup) <=> Become(DtcSetup)
    BY <1>0, SetupFits, WorldIs DEF Leaves, Allowed, On
  <2> QED
    BY <1>1, <1>2, <1>4, <1>9, <2>1 DEF HaveMoved, WaitFor, Branch, Main, Instruct
<1>10. CASE Finished
  BY <1>1, <1>10 DEF Finished, Main, Instruct
<1>11. CASE HandleIrq
  BY <1>1, <1>11 DEF HandleIrq, Handle
<1>12. CASE HandleEnd
  BY <1>2, <1>3, <1>4, <1>12 DEF HandleEnd, Handle
<1>13. CASE Return
  BY <1>5, <1>13 DEF Return
<1> QED
  BY <1>6, <1>7, <1>8, <1>9, <1>10, <1>11, <1>12, <1>13 DEF Instruction

(* The firmware goes from one of its steps to another.                     *)
Proceeds == fw'.program = fw.program /\ Orderly'

LEMMA InstructionProceeds ==
  ASSUME Orderly, NEW from, NEW to, NEW w
  PROVE  /\ Main(from, to, w) => Proceeds
         /\ ReadSSR(from, to) => Proceeds
         /\ CountByte(from, w) => Proceeds
         /\ \A flag, clear : Branch(flag, from, to, clear) => Proceeds
<1>1. \A t : /\ DOMAIN Go(t) = FwFields /\ Go(t).program = fw.program
  BY DEF Orderly, Go, FwFields
<1>2. \A t, x : Main(from, t, x) => Proceeds
  BY <1>1 DEF Main, Instruct, Proceeds, Orderly
<1>3. ReadSSR(from, to) => Proceeds
  <2>1. PICK x : x = Accessed.sci.ssr
    OBVIOUS
  <2>2. PICK g : g = Go(to)
    OBVIOUS
  <2>3. ReadSSR(from, to) => fw' = [g EXCEPT !.tmp = x] /\ UNCHANGED <<masked, handler>>
    BY <2>1, <2>2 DEF ReadSSR, Instruct
  <2>4. DOMAIN g = FwFields /\ g.program = fw.program
    BY <1>1, <2>2
  <2> QED
    BY <2>3, <2>4 DEF Proceeds, Orderly, FwFields
<1>4. CountByte(from, w) => Proceeds
  <2>1. PICK g : g = Go(IF fw.n + 1 = Length THEN "done" ELSE FirstStep)
    OBVIOUS
  <2>2. CountByte(from, w) => fw' = [g EXCEPT !.n = @ + 1] /\ UNCHANGED <<masked, handler>>
    BY <2>1 DEF CountByte, Instruct
  <2>3. DOMAIN g = FwFields /\ g.program = fw.program
    BY <1>1, <2>1
  <2> QED
    BY <2>2, <2>3 DEF Proceeds, Orderly, FwFields
<1> QED
  BY <1>2, <1>3, <1>4 DEF Branch

LEMMA HandlerProceeds ==
  ASSUME Orderly, HandleIrq \/ HandleEnd \/ Return
  PROVE  Proceeds
<1>1. DOMAIN fw = FwFields /\ DOMAIN handler = {"source", "pc"}
  BY DEF Orderly
<1>2. ASSUME NEW from, NEW to, NEW g, NEW w, Handle(from, to, g, w),
             DOMAIN g = FwFields, g.program = fw.program
      PROVE  Proceeds
  <2>1. /\ handler' = [handler EXCEPT !.pc = to] /\ fw' = g /\ masked' = masked
    BY <1>2 DEF Handle
  <2>2. DOMAIN handler' = {"source", "pc"} /\ handler'.source = handler.source
    BY <1>1, <2>1
  <2> QED
    BY <1>2, <2>1, <2>2 DEF Proceeds, Orderly
<1>3. \A x : DOMAIN Ended(x) = FwFields /\ Ended(x).program = fw.program
  BY <1>1 DEF Ended, FwFields
<1>4. CASE HandleIrq
  BY <1>1, <1>2, <1>4 DEF HandleIrq
<1>5. CASE HandleEnd
  <2>1. PICK g : g = [fw EXCEPT !.held = Accessed.sci.ssr]
    OBVIOUS
  <2>2. DOMAIN g = FwFields /\ g.program = fw.program
    BY <1>1, <2>1 DEF FwFields
  <2> QED
    BY <1>1, <1>2, <1>3, <1>5, <2>1, <2>2 DEF HandleEnd
<1>6. CASE Return
  BY <1>1, <1>6 DEF Return, NoHandler, Orderly, Proceeds
<1> QED
  BY <1>4, <1>5, <1>6

LEMMA FirmwareKeeps ==
  ASSUME Orderly, Instruction
  PROVE  Proceeds
<1>1. /\ \A from, to, w : Main(from, to, w) \/ ReadSSR(from, to) \/ CountByte(from, w)
                           => Proceeds
      /\ \A flag, from, set, clear : Branch(flag, from, set, clear) => Proceeds
  BY InstructionProceeds
<1>2. DOMAIN fw = FwFields /\ DOMAIN handler = {"source", "pc"}
  BY DEF Orderly
<1>3. CASE Start
  <2>1. \A to : DOMAIN Go(to) = FwFields /\ Go(to).program = fw.program
    BY <1>2 DEF Go, FwFields
  <2> QED
    BY <1>1, <1>2, <1>3, <2>1 DEF Start, Unmask, Instruct, Orderly, Proceeds
<1>4. CASE sciWrite
  BY <1>1, <1>4 DEF sciWrite, WaitFor
<1>5. CASE sciRead
  <2>1. PICK a : a = Accessed.sci.rdr
    OBVIOUS
  <2>2. PICK g : g = Go(IF Splits THEN "rxget" ELSE "rxput")
    OBVIOUS
  <2>3. DOMAIN g = FwFields /\ g.program = fw.program
    BY <1>2, <2>2 DEF Go, FwFields
  <2>4. CASE Instruct("fetch", [g EXCEPT !.got = Append(@, a)], Accessed)
    <3>1. fw' = [g EXCEPT !.got = Append(@, a)] /\ UNCHANGED <<masked, handler>>
      BY <2>4 DEF Instruct
    <3> QED
      BY <1>2, <2>3, <3>1 DEF Orderly, FwFields, Proceeds
  <2> QED
    BY <1>1, <1>5, <2>1, <2>2, <2>4 DEF sciRead, WaitFor
<1>6. CASE HaveMoved
  BY <1>1, <1>6 DEF HaveMoved, WaitFor
<1>7. CASE Finished
  BY <1>1, <1>7 DEF Finished
<1>8. CASE HandleIrq \/ HandleEnd \/ Return
  BY <1>8, HandlerProceeds
<1> QED
  BY <1>3, <1>4, <1>5, <1>6, <1>7, <1>8 DEF Instruction

(* The prediction decides whether update() is called in time. *)
LEMMA PeripheralsInTime ==
  ASSUME IInv, UpdatePeripherals
  PROVE  IInv'
<1>1. PICK t \in InstrCycles : Become(updateForInterrupts(Elapsed(World, t)))
  BY DEF UpdatePeripherals
<1>2. t \in Nat /\ MaxSince \in Nat
  BY <1>1, CpuAssumption
<1>3. PICK e : e = Elapsed(World, t)
  OBVIOUS
<1>4. Fit(e) /\ e.dtc = dtc /\ e.sci.scr = sci.scr
  <2>1. PICK n : n = IF sci.since + t < MaxSince THEN sci.since + t ELSE MaxSince
    OBVIOUS
  <2>2. n \in Nat
    BY <1>2, <2>1, WorldIs DEF IInv, Fit, IsWorld
  <2>3. e = [World EXCEPT !.sci.since = n]
    BY <1>3, <2>1, WorldIs DEF Elapsed, IInv, Fit, IsWorld, WorldFields, PortFields
  <2> QED
    BY <2>2, <2>3, WorldIs DEF IInv, Fit, Silent, On, Allowed, IsWorld, Timely, WorldFields, PortFields, DevFields
<1>5. PICK w : w = updateForInterrupts(e)
  OBVIOUS
<1>6. Become(w)
  BY <1>1, <1>3, <1>5
<1>7. Fit(w) /\ w.dtc = dtc /\ w.sci.scr = sci.scr
  BY <1>4, <1>5, UpdateFits DEF updateForInterrupts, Keeps
<1>8. Leaves(w)
  BY <1>6, <1>7, WorldIs DEF Leaves, Allowed, On, IInv
<1>9. UpdatedInTime'
  <2>1. sci' = w.sci
    BY <1>6 DEF Become
  <2>2. /\ w.sci.tx \in Nat /\ w.sci.rx \in Nat /\ w.sci.since \in Nat
        /\ w.sci.next \in Nat
    BY <1>7, TimesAreNumbers DEF Fit, IsWorld
  <2>3. CASE e.sci.scr \cap InterruptEnables # {} /\ e.sci.since >= e.sci.next
    <3>1. w.sci.since = 0
      BY <1>4, <1>5, <2>3, UpdateLapses DEF updateForInterrupts, Fit
    <3> QED
      BY <2>1, <2>2, <3>1 DEF UpdatedInTime
  <2>4. CASE ~(e.sci.scr \cap InterruptEnables # {} /\ e.sci.since >= e.sci.next)
    <3>1. w = e
      BY <1>5, <2>4 DEF updateForInterrupts
    <3>2. e.sci.scr \cap InterruptEnables # {} => e.sci.since < e.sci.next
      BY <2>2, <2>4, <3>1
    <3> QED
      BY <1>7, <2>1, <2>2, <3>1, <3>2 DEF UpdatedInTime, Fit, Timely
  <2> QED
    BY <2>3, <2>4
<1>10. fw' = fw /\ Orderly'
  BY DEF UpdatePeripherals, IInv, Orderly
<1> QED
  BY <1>8, <1>9, <1>10, LeftFits DEF IInv

LEMMA InitFits ==
  ASSUME Init
  PROVE  IInv
<1>1. /\ sci.tx = 0 /\ sci.rx = 0 /\ sci.next = 0 /\ sci.since = 0
      /\ sci.scr = {} /\ sci.delayed = {} /\ DOMAIN sci = PortFields
  BY DEF Init, IdleSci, PortFields
<1>2. DOMAIN dev = DevFields
  BY DEF Init, DevFields
<1>3. Chainable(dtc)
  BY DEF Init, Chainable
<1>4. 0 \in Times
  BY TimesAreNumbers DEF Times
<1>5. Fit(World)
  <2>1. << >> \in Seq({Junk}) /\ dev.wrote = << >>
    BY DEF Init
  <2>2. Silent(World)
    BY <2>1, WorldIs DEF Silent
  <2> QED
    BY <1>1, <1>2, <1>4, <2>2, WorldIs DEF Fit, IsWorld, Timely
<1>6. Allowed(World) /\ Orderly
  BY <1>1, WorldIs DEF Init, Allowed, On, Orderly, NoHandler, FwFields
<1> QED
  BY <1>1, <1>3, <1>5, <1>6 DEF IInv, UpdatedInTime

LEMMA StepFits ==
  ASSUME IInv, [Next]_vars
  PROVE  IInv'
<1>1. Fit(World) /\ Chainable(dtc) /\ Allowed(World) /\ Orderly
  BY DEF IInv
<1>2. CASE TransferByDma
  <2>1. Leaves(transfer(World)) /\ phase' = "requests" /\ fw' = fw /\ Orderly'
    BY <1>1, <1>2, TransferFits, WorldIs
    DEF TransferByDma, Leaves, Keeps, Allowed, On, Orderly
  <2> QED
    BY <2>1, LeftFits DEF IInv, UpdatedInTime
<1>3. CASE ServeRequests
  <2>1. phase' = "instruction"
    BY <1>3 DEF ServeRequests
  <2> QED
    BY <1>3, <2>1, RequestsFit, LeftFits DEF IInv, UpdatedInTime
<1>4. CASE Instruction
  BY <1>1, <1>4, InstructionLeaves, FirmwareKeeps, LeftFits
  DEF IInv, UpdatedInTime, Proceeds
<1>5. CASE UpdatePeripherals
  BY <1>5, PeripheralsInTime
<1>6. CASE externalInterrupt
  <2>1. UNCHANGED <<sci, dev, mem, dma, dtc, phase, masked, handler, fw>>
    BY <1>6 DEF externalInterrupt
  <2>2. UpdatedInTime' /\ Orderly'
    BY <1>1, <2>1 DEF IInv, UpdatedInTime, Orderly
  <2> QED
    BY <1>1, <2>1, <2>2 DEF IInv, Fit, Silent, On, Allowed, IsWorld, Timely, World
<1>7. CASE DeviceInput
  <2>1. /\ UNCHANGED <<sci, req, mem, dma, dtc, phase, masked, handler, fw>>
        /\ DOMAIN dev' = DOMAIN dev
        /\ dev' = [dev EXCEPT !.out = Append(@, dev.made + 1), !.made = @ + 1]
    BY <1>7 DEF DeviceInput
  <2>2. UpdatedInTime' /\ Orderly'
    BY <1>1, <2>1 DEF IInv, UpdatedInTime, Orderly
  <2>3. dev'.wrote = dev.wrote
    BY <1>1, <2>1, WorldIs DEF Fit, IsWorld, DevFields
  <2> QED
    BY <1>1, <2>1, <2>2, <2>3 DEF IInv, Fit, Silent, On, Allowed, IsWorld, Timely, World
<1>8. CASE UNCHANGED vars
  BY <1>8 DEF IInv, UpdatedInTime, vars, world, World, Fit, Silent, On, Allowed, Orderly,
     IsWorld, Timely
<1> QED
  BY <1>2, <1>3, <1>4, <1>5, <1>6, <1>7, <1>8 DEF Next, Loop

(* calcNextUpdate() never predicts too late, whatever the firmware, the    *)
(* DMA controller and the DTC do to the port, however long characters and  *)
(* instructions are: when the loop begins anew, nothing that an enabled    *)
(* interrupt waits for is overdue (H8CPU.cpp, Serial::calcNextUpdate()). *)
THEOREM PredictedInTime == Spec => []UpdatedInTime
<1>1. IInv => UpdatedInTime
  BY DEF IInv
<1> QED
  BY <1>1, InitFits, StepFits, PTL DEF Spec


-----------------------------------------------------------------------------
(* The order of what is sent.  A byte of the message is given to the port  *)
(* by writing it to TDR and clearing TDRE. *)

Prefix(m) == [i \in 1 .. m |-> i]

(* The first m bytes have been given to the port, which may have the last  *)
(* of them in TDR yet. *)
Given(w, m) ==
  /\ m \in Nat
  /\ \/ "TDRE" \in w.sci.ssr /\ w.dev.wrote = Prefix(m)
     \/ /\ "TDRE" \notin w.sci.ssr /\ m > 0
        /\ w.dev.wrote = Prefix(m - 1) /\ w.sci.tdr = m

(* The byte after the first m is in TDR, but not given yet.                *)
Loaded(w, m) == /\ m \in Nat
                /\ "TDRE" \in w.sci.ssr /\ w.dev.wrote = Prefix(m)
                /\ w.sci.tdr = m + 1

(* The next byte is asked for when TDR is empty, and once.                 *)
AskedOnce(w) == /\ "TXI" \in w.req \cup w.sci.delayed => "TDRE" \in w.sci.ssr
                /\ "TXI" \notin w.req \cap w.sci.delayed

NotAsked(w) == "TXI" \notin w.req \cup w.sci.delayed

(* The interrupts the port can raise. *)
Raisable(w) == (IF On(w, "TIE") THEN {"TXI"} ELSE {}) \cup
               (IF On(w, "RIE") THEN {"RXI"} ELSE {})

(* The port has moved on, by itself or by an access.                       *)
Moves(v, w) == /\ IsWorld(v) /\ v.sci.scr = w.sci.scr /\ v.sci.sync = w.sci.sync
               /\ v.mem = w.mem /\ v.dma = w.dma /\ v.dtc = w.dtc

LEMMA PrefixGrows ==
  ASSUME NEW m \in Nat
  PROVE  /\ Append(Prefix(m), m + 1) = Prefix(m + 1)
         /\ Prefix(m) \in Seq(Nat) /\ Len(Prefix(m)) = m
<1>1. Prefix(m) \in Seq(Nat) /\ Len(Prefix(m)) = m
  BY DEF Prefix
<1>2. PICK a : a = Append(Prefix(m), m + 1)
  OBVIOUS
<1>3. /\ a \in Seq(Nat) /\ Len(a) = m + 1
      /\ \A i \in 1 .. m + 1 : a[i] = i
  BY <1>1, <1>2 DEF Prefix
<1>4. a = [i \in 1 .. m + 1 |-> a[i]]
  BY <1>3
<1> QED
  BY <1>1, <1>2, <1>3, <1>4 DEF Prefix

LEMMA PrefixOfNone == Prefix(0) = << >>
BY DEF Prefix

LEMMA PendingIs ==
  ASSUME NEW w
  PROVE  Pending(w) = w.sci.delayed \cup Raisable(w)
BY DEF Pending, Delayed, Raisable

(* The port is brought up to date while it transmits.                      *)
LEMMA UpdateGives ==
  ASSUME NEW w, Fit(w), On(w, "TE"), ~On(w, "TEIE"), NEW m, Given(w, m), AskedOnce(w)
  PROVE  /\ Moves(update(w), w) /\ Given(update(w), m) /\ AskedOnce(update(w))
         /\ update(w).sci.tdr = w.sci.tdr
         /\ update(w).req = w.req \cup w.sci.delayed
         /\ update(w).sci.delayed \subseteq Raisable(w)
         /\ w.sci.ssr \subseteq update(w).sci.ssr
         /\ "TDRE" \in w.sci.ssr => /\ update(w).dev.wrote = w.dev.wrote
                                     /\ "TXI" \notin update(w).sci.delayed
         /\ w.sci.sync /\ "RDRF" \in update(w).sci.ssr =>
              "RDRF" \in w.sci.ssr \/ "TDRE" \in update(w).sci.ssr \ w.sci.ssr
<1>1. PICK v : v = update(w)
  OBVIOUS
<1>2. PICK r : r = Raised(w)
  OBVIOUS
<1>3. Lapse(v, r)
  BY <1>1, <1>2, UpdateLapses DEF Fit
<1>4. /\ r.sci.sync = w.sci.sync /\ r.sci.scr = w.sci.scr
      /\ r.sci.ssr = w.sci.ssr /\ r.sci.tdr = w.sci.tdr /\ r.sci.delayed = {}
      /\ r.req = w.req \cup w.sci.delayed
      /\ r.dev = w.dev /\ r.mem = w.mem /\ r.dma = w.dma /\ r.dtc = w.dtc
  BY <1>2, RaisedIs DEF Fit
<1>5. Moves(v, w)
  BY <1>3, <1>4 DEF Lapse, SamePort, Moves
<1>6. On(r, "TE") /\ ~On(r, "TEIE") /\ Raisable(r) = Raisable(w)
  BY <1>4 DEF On, Raisable
<1>7. /\ v.sci.tdr = w.sci.tdr /\ v.req = w.req \cup w.sci.delayed
      /\ w.sci.ssr \subseteq v.sci.ssr
      /\ v.sci.delayed \subseteq Raisable(w)
  BY <1>3, <1>4, <1>6, PendingIs DEF Lapse
<1>8. CASE Quiet(v, r)
  BY <1>1, <1>4, <1>5, <1>7, <1>8 DEF Quiet, Given, AskedOnce
<1>9. CASE SentOn(v, r)
  <2>1. "TDRE" \notin w.sci.ssr /\ "TDRE" \in v.sci.ssr
    BY <1>4, <1>9 DEF SentOn
  <2>2. m \in Nat /\ m > 0 /\ v.dev.wrote = Append(Prefix(m - 1), m)
    BY <1>4, <1>9, <2>1 DEF SentOn, Given
  <2>3. m - 1 \in Nat /\ m - 1 + 1 = m
    BY <2>2
  <2>4. v.dev.wrote = Prefix(m)
    BY <2>2, <2>3, PrefixGrows
  <2>5. AskedOnce(v)
    BY <1>7, <2>1 DEF AskedOnce
  <2> QED
    BY <1>1, <1>5, <1>7, <2>1, <2>2, <2>4, <2>5 DEF Given
<1> QED
  BY <1>3, <1>6, <1>8, <1>9 DEF Lapse

(* Before the port is told to do anything, nothing happens.                *)
LEMMA UpdateIdles ==
  ASSUME NEW w, Fit(w), w.sci.scr = {}, w.sci.delayed = {}
  PROVE  /\ Moves(update(w), w)
         /\ update(w).dev.wrote = w.dev.wrote /\ update(w).req = w.req
         /\ update(w).sci.delayed = {} /\ w.sci.ssr \subseteq update(w).sci.ssr
         /\ "RDRF" \in update(w).sci.ssr => "RDRF" \in w.sci.ssr
<1>1. PICK v : v = update(w)
  OBVIOUS
<1>2. PICK r : r = Raised(w)
  OBVIOUS
<1>3. Lapse(v, r)
  BY <1>1, <1>2, UpdateLapses DEF Fit
<1>4. /\ r.sci.sync = w.sci.sync /\ r.sci.scr = w.sci.scr
      /\ r.sci.ssr = w.sci.ssr /\ r.sci.delayed = {}
      /\ r.req = w.req
      /\ r.dev = w.dev /\ r.mem = w.mem /\ r.dma = w.dma /\ r.dtc = w.dtc
  BY <1>2, RaisedIs, Z3 DEF Fit
<1>5. /\ ~On(r, "TE") /\ ~On(r, "RE") /\ ~On(r, "TEIE") /\ Raisable(r) = {}
  BY <1>4 DEF On, Raisable
<1>6. Pending(r) = {}
  BY <1>4, <1>5, PendingIs
<1>7. /\ v.dev.wrote = r.dev.wrote /\ v.req = r.req /\ v.sci.delayed = {}
      /\ r.sci.ssr \subseteq v.sci.ssr
      /\ "RDRF" \in v.sci.ssr => "RDRF" \in r.sci.ssr
  BY <1>3, <1>5, <1>6 DEF Lapse
<1>8. IsWorld(v) /\ SamePort(v, r)
  BY <1>3 DEF Lapse
<1> QED
  BY <1>1, <1>4, <1>7, <1>8 DEF SamePort, Moves

(* Clearing TDRE gives the byte in TDR. *)
LEMMA ClearingGives ==
  ASSUME NEW w, Fit(w), On(w, "TE"), NEW m, Loaded(w, m), NotAsked(w),
         NEW val, "TDRE" \notin val
  PROVE  /\ Moves(SetSSR(w, val), w) /\ Given(SetSSR(w, val), m + 1)
         /\ AskedOnce(SetSSR(w, val)) /\ SetSSR(w, val).req = w.req
         /\ SetSSR(w, val).sci.delayed \subseteq w.sci.delayed \cup Raisable(w)
         /\ "RDRF" \in SetSSR(w, val).sci.ssr =>
              "RDRF" \in w.sci.ssr \/ "TDRE" \in SetSSR(w, val).sci.ssr
<1>1. PICK v : v = SetSSR(w, val)
  OBVIOUS
<1>2. IsWorld(w)
  BY DEF Fit
<1>3. /\ IsWorld(v) /\ SamePort(v, w) /\ v.req = w.req /\ v.sci.tdr = w.sci.tdr
  BY <1>1, <1>2, SetSSRIs
<1>4. m \in Nat /\ w.dev.wrote = Prefix(m) /\ w.sci.tdr = m + 1 /\ "TDRE" \in w.sci.ssr
  BY DEF Loaded
<1>5. CASE Begins(w, val)
  <2>1. /\ "TDRE" \in v.sci.ssr /\ v.dev.wrote = Append(w.dev.wrote, w.sci.tdr)
        /\ v.sci.delayed \subseteq Pending(w)
    BY <1>1, <1>2, <1>5, SetSSRIs
  <2>2. v.dev.wrote = Prefix(m + 1)
    BY <1>4, <2>1, PrefixGrows
  <2> QED
    BY <1>1, <1>3, <1>4, <2>1, <2>2, PendingIs DEF Given, AskedOnce, NotAsked, Moves, SamePort
<1>6. CASE ~Begins(w, val)
  <2>1. /\ "TDRE" \notin v.sci.ssr /\ v.dev = w.dev /\ v.sci.delayed = w.sci.delayed
        /\ "RDRF" \in v.sci.ssr => "RDRF" \in w.sci.ssr
    <3> HIDE DEF Begins
    <3> QED
      BY <1>1, <1>2, <1>6, SetSSRIs
  <2>2. m + 1 \in Nat /\ m + 1 > 0 /\ m + 1 - 1 = m
    BY <1>4
  <2> QED
    BY <1>1, <1>3, <1>4, <2>1, <2>2 DEF Given, AskedOnce, NotAsked, Moves, SamePort
<1> QED
  BY <1>5, <1>6

(* Clearing another flag gives nothing. *)
LEMMA ClearingKeeps ==
  ASSUME NEW w, Fit(w), On(w, "TE"), NEW val,
         "TDRE" \in w.sci.ssr => "TDRE" \in val
  PROVE  /\ Moves(SetSSR(w, val), w) /\ SetSSR(w, val).req = w.req
         /\ SetSSR(w, val).dev = w.dev /\ SetSSR(w, val).sci.tdr = w.sci.tdr
         /\ SetSSR(w, val).sci.delayed = w.sci.delayed
         /\ "TDRE" \in SetSSR(w, val).sci.ssr <=> "TDRE" \in w.sci.ssr
         /\ "RDRF" \in SetSSR(w, val).sci.ssr =>
              "RDRF" \in w.sci.ssr /\ "RDRF" \in val
<1>1. ~Begins(w, val) /\ IsWorld(w)
  BY DEF Begins, Fit
<1> HIDE DEF Begins
<1> QED
  BY <1>1, SetSSRIs DEF Moves, SamePort

-----------------------------------------------------------------------------
(* Bytes are moved. *)

Holds(w) == 1 .. Length \subseteq DOMAIN w.mem /\ \A i \in 1 .. Length : w.mem[i] = i

LEMMA MemoryIsApart ==
  ASSUME NEW a \in 1 .. 2 * Length
  PROVE  a # TDR /\ a # RDR
<1>1. Length \in Nat /\ Length > 0
  BY CpuAssumption
<1>2. Length * Length \in Nat /\ (2 + Length) * Length = 2 * Length + Length * Length
  BY <1>1
<1>3. a \in 1 .. (2 + Length) * Length
  BY <1>1, <1>2
<1> QED
  BY <1>3, CpuAssumption

(* A byte of the message goes to TDR. *)
LEMMA LoadingLoads ==
  ASSUME NEW w, Fit(w), On(w, "TE"), ~On(w, "TEIE"), NEW m, m < Length, Given(w, m),
         AskedOnce(w), "TDRE" \in w.sci.ssr, Holds(w)
  PROVE  /\ Moves(BusCopy(w, m + 1, TDR), w) /\ Loaded(BusCopy(w, m + 1, TDR), m)
         /\ BusCopy(w, m + 1, TDR).req = w.req \cup w.sci.delayed
         /\ BusCopy(w, m + 1, TDR).sci.delayed \subseteq Raisable(w) \ {"TXI"}
<1>1. Length \in Nat /\ m \in Nat /\ m + 1 \in 1 .. Length /\ m + 1 \in 1 .. 2 * Length
  BY CpuAssumption DEF Given
<1>2. m + 1 # TDR /\ m + 1 # RDR
  BY <1>1, MemoryIsApart
<1>3. PICK u : u = update(w)
  OBVIOUS
<1>4. /\ Moves(u, w) /\ u.req = w.req \cup w.sci.delayed
      /\ u.sci.delayed \subseteq Raisable(w) \ {"TXI"}
      /\ "TDRE" \in u.sci.ssr /\ u.dev.wrote = w.dev.wrote
  BY <1>3, UpdateGives
<1>5. BusCopy(w, m + 1, TDR) = SetTDR(u, m + 1)
  <2>1. BusRead(w, m + 1) = w
    BY <1>2 DEF BusRead
  <2>2. BusValue(w, m + 1) = m + 1
    BY <1>1, <1>2 DEF BusValue, Holds
  <2>3. BusWrite(w, TDR, m + 1) = SetTDR(u, m + 1)
    BY <1>3, CpuAssumption DEF BusWrite
  <2> QED
    BY <2>1, <2>2, <2>3 DEF BusCopy, Delivered
<1>6. PICK x : x = SetTDR(u, m + 1)
  OBVIOUS
<1>7. IsWorld(u) /\ On(u, "TE")
  BY <1>4 DEF Moves, On
<1>8. /\ Untouched(x, u) /\ SamePort(x, u) /\ x.req = u.req /\ x.sci.tdr = m + 1
      /\ x.sci.ssr = u.sci.ssr
  BY <1>6, <1>7, SetTDRIs
<1>9. w.dev.wrote = Prefix(m)
  BY DEF Given
<1> QED
  BY <1>1, <1>4, <1>5, <1>6, <1>8, <1>9 DEF Untouched, SamePort, Moves, Loaded

(* A byte received goes to memory, behind the message.                     *)
LEMMA FetchingKeeps ==
  ASSUME NEW w, Fit(w), On(w, "TE"), ~On(w, "TEIE"), NEW m, Given(w, m), AskedOnce(w),
         Holds(w), NEW a \in Length + 1 .. 2 * Length
  PROVE  /\ IsWorld(BusCopy(w, RDR, a))
         /\ BusCopy(w, RDR, a).sci.scr = w.sci.scr
         /\ BusCopy(w, RDR, a).dma = w.dma
         /\ Given(BusCopy(w, RDR, a), m) /\ AskedOnce(BusCopy(w, RDR, a))
         /\ Holds(BusCopy(w, RDR, a))
<1>1. Length \in Nat /\ a \in 1 .. 2 * Length /\ a \notin 1 .. Length
  BY CpuAssumption
<1>2. a # TDR /\ a # RDR
  BY <1>1, MemoryIsApart
<1>3. PICK u : u = update(w)
  OBVIOUS
<1>4. Moves(u, w) /\ Given(u, m) /\ AskedOnce(u)
  BY <1>3, UpdateGives
<1>5. PICK x : x = [u EXCEPT !.mem[a] = u.sci.rdr]
  OBVIOUS
<1>6. BusCopy(w, RDR, a) = x
  <2>1. BusRead(w, RDR) = u
    BY <1>3 DEF BusRead
  <2>2. BusValue(u, RDR) = u.sci.rdr
    BY CpuAssumption DEF BusValue
  <2>3. BusWrite(u, a, u.sci.rdr) = x
    BY <1>2, <1>5 DEF BusWrite
  <2> QED
    BY <2>1, <2>2, <2>3 DEF BusCopy, Delivered
<1>7. /\ IsWorld(x) /\ x.sci = u.sci /\ x.dev = u.dev /\ x.req = u.req /\ x.dma = u.dma
      /\ x.mem = [u.mem EXCEPT ![a] = u.sci.rdr]
  BY <1>4, <1>5 DEF Moves, IsWorld, WorldFields
<1>8. Holds(x)
  BY <1>1, <1>4, <1>7 DEF Holds, Moves
<1> QED
  BY <1>4, <1>6, <1>7, <1>8 DEF Moves, Given, AskedOnce

ChannelFields == {"dte", "dta", "dtie", "rpe", "dtid", "toMem", "trigger", "mem",
                  "io", "count"}

(* The counters after a unit. *)
Unit(w, s) == Stepped(EndedIfDone(CountedDown(w, s), s), s)

Ticks(v, w, s) ==
  /\ IsWorld(v) /\ v.sci = w.sci /\ v.dev = w.dev /\ v.mem = w.mem
  /\ w.req \subseteq v.req /\ v.req \subseteq w.req \cup {End(s)}
  /\ DOMAIN v.dma = SubChannels
  /\ \A t \in SubChannels : t # s => v.dma[t] = w.dma[t]
  /\ DOMAIN v.dma[s] = ChannelFields
  /\ v.dma[s].count = w.dma[s].count - 1
  /\ v.dma[s].mem = w.dma[s].mem + 1
  /\ (v.dma[s].dte <=> w.dma[s].count > 1)
  /\ \A k \in ChannelFields \ {"count", "mem", "dte"} : v.dma[s][k] = w.dma[s][k]

LEMMA UnitIs ==
  ASSUME NEW w, IsWorld(w), NEW s \in SubChannels, DOMAIN w.dma = SubChannels,
         DOMAIN w.dma[s] = ChannelFields, w.dma[s].count \in Nat \ {0}, w.dma[s].dte,
         w.dma[s].rpe = FALSE, w.dma[s].dtid = FALSE
  PROVE  Ticks(Unit(w, s), w, s)
<1>1. PICK n : n = w.dma[s].count - 1
  OBVIOUS
<1>2. n \in Nat /\ (n > 0 <=> w.dma[s].count > 1) /\ 0 \in Nat
  BY <1>1
<1>3. PICK d : d = CountedDown(w, s)
  OBVIOUS
<1>4. d = [w EXCEPT !.dma[s].count = n]
  BY <1>1, <1>3 DEF CountedDown, IsWorld, WorldFields, ChannelFields
<1>5. /\ IsWorld(d) /\ d.sci = w.sci /\ d.dev = w.dev /\ d.mem = w.mem /\ d.req = w.req
      /\ d.dma = [w.dma EXCEPT ![s] = [w.dma[s] EXCEPT !.count = n]]
  BY <1>4 DEF IsWorld, WorldFields
<1>6. /\ DOMAIN d.dma = SubChannels /\ DOMAIN d.dma[s] = ChannelFields
      /\ \A t \in SubChannels : t # s => d.dma[t] = w.dma[t]
      /\ d.dma[s].count = n
      /\ \A k \in ChannelFields \ {"count"} : d.dma[s][k] = w.dma[s][k]
  BY <1>5 DEF ChannelFields
<1>7. PICK e : e = EndedIfDone(d, s)
  OBVIOUS
<1>8. /\ IsWorld(e) /\ e.sci = w.sci /\ e.dev = w.dev /\ e.mem = w.mem
      /\ w.req \subseteq e.req /\ e.req \subseteq w.req \cup {End(s)}
      /\ DOMAIN e.dma = SubChannels /\ DOMAIN e.dma[s] = ChannelFields
      /\ \A t \in SubChannels : t # s => e.dma[t] = w.dma[t]
      /\ e.dma[s].count = n /\ (e.dma[s].dte <=> n > 0)
      /\ \A k \in ChannelFields \ {"count", "dte"} : e.dma[s][k] = w.dma[s][k]
  <2>1. CASE n > 0
    <3>1. e = d
      BY <1>6, <1>7, <2>1 DEF EndedIfDone
    <3>2. d.dma[s].dte
      BY <1>6 DEF ChannelFields
    <3> QED
      BY <1>5, <1>6, <2>1, <3>1, <3>2
  <2>2. CASE ~(n > 0)
    <3>1. PICK r : r = IF d.dma[s].dtie THEN {End(s)} ELSE {}
      OBVIOUS
    <3>2. PICK g : g = [d EXCEPT !.dma[s].dte = FALSE]
      OBVIOUS
    <3>3. e = interrupt(g, r)
      BY <1>6, <1>7, <2>2, <3>1, <3>2 DEF EndedIfDone, Disabled
    <3>4. /\ IsWorld(g) /\ g.sci = d.sci /\ g.dev = d.dev /\ g.mem = d.mem /\ g.req = d.req
          /\ g.dma = [d.dma EXCEPT ![s] = [d.dma[s] EXCEPT !.dte = FALSE]]
      BY <1>5, <3>2 DEF IsWorld, WorldFields
    <3>5. /\ DOMAIN g.dma = SubChannels /\ DOMAIN g.dma[s] = ChannelFields
          /\ \A t \in SubChannels : t # s => g.dma[t] = d.dma[t]
          /\ g.dma[s].dte = FALSE
          /\ \A k \in ChannelFields \ {"dte"} : g.dma[s][k] = d.dma[s][k]
      BY <1>6, <3>4 DEF ChannelFields
    <3>6. /\ IsWorld(e) /\ e.sci = g.sci /\ e.dev = g.dev /\ SamePort(e, g)
          /\ e.req = g.req \cup r
      <4>1. e.req = g.req \cup r
        BY <3>3, <3>4 DEF interrupt, IsWorld, WorldFields
      <4> QED
        BY <3>3, <3>4, <4>1, InterruptKeeps
    <3>7. g.dma[s].count = n
      BY <1>6, <3>5 DEF ChannelFields
    <3>8. e.dma = g.dma
      BY <3>6 DEF SamePort
    <3>9. /\ IsWorld(e) /\ e.sci = w.sci /\ e.dev = w.dev /\ e.mem = w.mem
          /\ w.req \subseteq e.req /\ e.req \subseteq w.req \cup {End(s)}
      BY <1>5, <3>1, <3>4, <3>6 DEF SamePort
    <3>10. \A k \in ChannelFields \ {"count", "dte"} : e.dma[s][k] = w.dma[s][k]
      BY <1>6, <3>5, <3>8
    <3>11. \A t \in SubChannels : t # s => e.dma[t] = w.dma[t]
      BY <1>6, <3>5, <3>8
    <3>12. DOMAIN e.dma = SubChannels /\ DOMAIN e.dma[s] = ChannelFields
      BY <3>5, <3>8
    <3>13. e.dma[s].count = n /\ ~(e.dma[s].dte)
      BY <3>5, <3>7, <3>8
    <3> QED
      BY <2>2, <3>9, <3>10, <3>11, <3>12, <3>13
  <2> QED
    BY <2>1, <2>2
<1>9. PICK m : m = w.dma[s].mem + 1
  OBVIOUS
<1>10. PICK x : x = [e EXCEPT !.dma[s].mem = m]
  OBVIOUS
<1>11. Unit(w, s) = x
  <2>1. e.dma[s].rpe = FALSE /\ e.dma[s].dtid = FALSE /\ e.dma[s].mem = w.dma[s].mem
    BY <1>8 DEF ChannelFields
  <2>2. Stepped(e, s) = [e EXCEPT !.dma[s].mem = e.dma[s].mem + 1]
    BY <1>8, <2>1 DEF Stepped, IsWorld, WorldFields, ChannelFields
  <2> QED
    BY <1>3, <1>7, <1>9, <1>10, <2>1, <2>2 DEF Unit
<1>12. /\ IsWorld(x) /\ x.sci = e.sci /\ x.dev = e.dev /\ x.mem = e.mem /\ x.req = e.req
       /\ x.dma = [e.dma EXCEPT ![s] = [e.dma[s] EXCEPT !.mem = m]]
  BY <1>8, <1>10 DEF IsWorld, WorldFields
<1>13. /\ DOMAIN x.dma = SubChannels /\ DOMAIN x.dma[s] = ChannelFields
       /\ \A t \in SubChannels : t # s => x.dma[t] = e.dma[t]
       /\ x.dma[s].mem = m
       /\ \A k \in ChannelFields \ {"mem"} : x.dma[s][k] = e.dma[s][k]
  BY <1>8, <1>12 DEF ChannelFields
<1>14. x.dma[s].count = n /\ (x.dma[s].dte <=> n > 0)
  BY <1>8, <1>13 DEF ChannelFields
<1> QED
  BY <1>1, <1>2, <1>8, <1>9, <1>11, <1>12, <1>13, <1>14 DEF Ticks

(* The channels of DmaSetup as they count down. *)
Counting(c) == DOMAIN c = ChannelFields /\ c.count \in 0 .. Length

Outgoing(c) ==
  c.dte => /\ c.dta /\ c.rpe = FALSE /\ c.dtid = FALSE /\ ~c.toMem
           /\ c.trigger = "TXI" /\ c.io = TDR
           /\ c.count > 0 /\ c.mem = Length + 1 - c.count

Incoming(c) ==
  c.dte => /\ c.dta /\ c.rpe = FALSE /\ c.dtid = FALSE /\ c.toMem
           /\ c.trigger = "RXI" /\ c.io = RDR
           /\ c.count > 0 /\ c.mem = 2 * Length + 1 - c.count

Channels(w) ==
  /\ DOMAIN w.dma = SubChannels
  /\ Counting(w.dma["A"]) /\ Outgoing(w.dma["A"])
  /\ Counting(w.dma["B"]) /\ Incoming(w.dma["B"])

(* As much has been given to the port as sub-channel A has counted down.   *)
DmaRuns(w) ==
  /\ On(w, "TE") /\ ~On(w, "TEIE") /\ Channels(w) /\ Holds(w)
  /\ Given(w, Length - w.dma["A"].count) /\ AskedOnce(w)

LEMMA OutgoingRuns ==
  ASSUME NEW w, Fit(w), DmaRuns(w)
  PROVE  DmaRuns(doSubChannel(w, "A"))
<1>1. PICK c : c = w.dma["A"]
  OBVIOUS
<1>2. Counting(c) /\ Outgoing(c)
  BY <1>1 DEF DmaRuns, Channels
<1>3. CASE ~c.dte \/ "TXI" \notin w.req
  <2>1. doSubChannel(w, "A") = w
    BY <1>1, <1>2, <1>3 DEF doSubChannel, Outgoing
  <2> QED
    BY <2>1
<1>4. CASE c.dte /\ "TXI" \in w.req
  <2>1. /\ c.dta /\ c.rpe = FALSE /\ c.dtid = FALSE /\ ~c.toMem
        /\ c.trigger = "TXI" /\ c.io = TDR
        /\ c.count \in 1 .. Length /\ c.mem = Length + 1 - c.count
        /\ DOMAIN c = ChannelFields
    BY <1>2, <1>4, CpuAssumption DEF Counting, Outgoing
  <2>2. PICK m : m = Length - c.count
    OBVIOUS
  <2>3. m \in Nat /\ m < Length /\ c.mem = m + 1 /\ Length - (c.count - 1) = m + 1
    BY <2>1, <2>2, CpuAssumption
  <2>4. PICK a : a = [w EXCEPT !.req = @ \ {"TXI"}]
    OBVIOUS
  <2>5. /\ Fit(a) /\ a.sci = w.sci /\ a.dev = w.dev /\ a.mem = w.mem /\ a.dma = w.dma
        /\ a.req = w.req \ {"TXI"}
    BY <2>4 DEF Fit, Silent, On, IsWorld, Timely, WorldFields
  <2>6. /\ On(a, "TE") /\ ~On(a, "TEIE") /\ Given(a, m) /\ AskedOnce(a) /\ Holds(a)
        /\ "TDRE" \in a.sci.ssr /\ "TXI" \notin a.req \cup a.sci.delayed
    BY <1>1, <1>4, <2>2, <2>5 DEF DmaRuns, On, Given, AskedOnce, Holds
  <2>7. PICK b : b = BusCopy(a, m + 1, TDR)
    OBVIOUS
  <2>8. /\ Moves(b, a) /\ Loaded(b, m) /\ b.req = a.req \cup a.sci.delayed
        /\ b.sci.delayed \subseteq Raisable(a) \ {"TXI"}
    BY <2>3, <2>5, <2>6, <2>7, LoadingLoads
  <2>9. Fit(b)
    BY <2>5, <2>7, BusFits DEF Keeps
  <2>10. PICK g : g = Unit(b, "A")
    OBVIOUS
  <2>11. b.dma = w.dma /\ b.mem = w.mem /\ b.sci.scr = w.sci.scr
    BY <2>5, <2>8 DEF Moves
  <2>12. /\ IsWorld(g) /\ g.sci = b.sci /\ g.dev = b.dev /\ g.mem = b.mem
         /\ g.req \subseteq b.req \cup {End("A")}
         /\ DOMAIN g.dma = SubChannels /\ g.dma["B"] = w.dma["B"]
         /\ DOMAIN g.dma["A"] = ChannelFields
         /\ g.dma["A"].count = c.count - 1 /\ g.dma["A"].mem = c.mem + 1
         /\ (g.dma["A"].dte <=> c.count > 1)
         /\ \A k \in ChannelFields \ {"count", "mem", "dte"} : g.dma["A"][k] = c[k]
    <3>1. IsWorld(b) /\ DOMAIN b.dma = SubChannels /\ b.dma["A"] = c
      BY <1>1, <2>9, <2>11 DEF Fit, DmaRuns, Channels
    <3>2. c.count \in Nat \ {0} /\ "A" \in SubChannels /\ "B" \in SubChannels
      BY <2>1 DEF SubChannels
    <3>3. /\ b.dma["A"].count \in Nat \ {0} /\ b.dma["A"].dte
          /\ b.dma["A"].rpe = FALSE /\ b.dma["A"].dtid = FALSE
          /\ DOMAIN b.dma["A"] = ChannelFields
      BY <1>4, <2>1, <3>1, <3>2
    <3>4. Ticks(g, b, "A")
      BY <2>10, <3>1, <3>2, <3>3, UnitIs
    <3>5. /\ IsWorld(g) /\ g.sci = b.sci /\ g.dev = b.dev /\ g.mem = b.mem
          /\ g.req \subseteq b.req \cup {End("A")}
          /\ DOMAIN g.dma = SubChannels /\ g.dma["B"] = b.dma["B"]
          /\ DOMAIN g.dma["A"] = ChannelFields
          /\ g.dma["A"].count = b.dma["A"].count - 1
          /\ g.dma["A"].mem = b.dma["A"].mem + 1
          /\ (g.dma["A"].dte <=> b.dma["A"].count > 1)
      BY <3>2, <3>4 DEF Ticks
    <3>6. \A k \in ChannelFields \ {"count", "mem", "dte"} :
            g.dma["A"][k] = b.dma["A"][k]
      BY <3>4 DEF Ticks
    <3> QED
      BY <2>11, <3>1, <3>5, <3>6
  <2>13. Channels(g)
    <3>1. /\ g.dma["A"].dta = c.dta /\ g.dma["A"].rpe = c.rpe /\ g.dma["A"].dtid = c.dtid
          /\ g.dma["A"].toMem = c.toMem /\ g.dma["A"].trigger = c.trigger
          /\ g.dma["A"].io = c.io
      BY <2>12 DEF ChannelFields
    <3>2. Counting(g.dma["A"])
      BY <2>1, <2>12, CpuAssumption DEF Counting
    <3>3. Outgoing(g.dma["A"])
      BY <2>1, <2>12, <3>1, CpuAssumption DEF Outgoing
    <3> QED
      BY <2>12, <3>2, <3>3 DEF DmaRuns, Channels
  <2>14. /\ Fit(g) /\ On(g, "TE") /\ ~On(g, "TEIE") /\ Loaded(g, m) /\ Holds(g)
    BY <2>6, <2>8, <2>9, <2>11, <2>12 DEF Fit, Silent, Timely, On, Loaded, DmaRuns, Holds
  <2>15. NotAsked(g)
    BY <2>6, <2>8, <2>12 DEF NotAsked, End
  <2>16. PICK v : v = SetSSR(g, g.sci.ssr \ {"TDRE"})
    OBVIOUS
  <2>17. Moves(v, g) /\ Given(v, m + 1) /\ AskedOnce(v)
    BY <2>14, <2>15, <2>16, ClearingGives
  <2>18. doSubChannel(w, "A") = v
    <3>1. doSubChannel(w, "A") = MoveUnit(w, "A")
      BY <1>1, <1>4, <2>1 DEF doSubChannel
    <3>2. Withdrawn(w, "A") = a /\ Source(c) = m + 1 /\ Destination(c) = TDR
      BY <1>1, <2>1, <2>3, <2>4 DEF Withdrawn, Source, Destination
    <3>3. MoveUnit(w, "A") = Acknowledged(g, c)
      BY <1>1, <2>7, <2>10, <3>2 DEF MoveUnit, Unit
    <3>4. Acknowledged(g, c) = v
      BY <2>1, <2>16, <3>2 DEF Acknowledged, Clear
    <3> QED
      BY <3>1, <3>3, <3>4
  <2> QED
    BY <2>3, <2>12, <2>13, <2>14, <2>17, <2>18 DEF DmaRuns, Moves, Channels, On, Holds
<1> QED
  BY <1>3, <1>4

LEMMA IncomingRuns ==
  ASSUME NEW w, Fit(w), DmaRuns(w)
  PROVE  DmaRuns(doSubChannel(w, "B"))
<1>1. PICK c : c = w.dma["B"]
  OBVIOUS
<1>2. Counting(c) /\ Incoming(c)
  BY <1>1 DEF DmaRuns, Channels
<1>3. CASE ~c.dte \/ "RXI" \notin w.req
  <2>1. doSubChannel(w, "B") = w
    BY <1>1, <1>2, <1>3 DEF doSubChannel, Incoming
  <2> QED
    BY <2>1
<1>4. CASE c.dte /\ "RXI" \in w.req
  <2>1. /\ c.dta /\ c.rpe = FALSE /\ c.dtid = FALSE /\ c.toMem
        /\ c.trigger = "RXI" /\ c.io = RDR
        /\ c.count \in 1 .. Length /\ c.mem = 2 * Length + 1 - c.count
        /\ DOMAIN c = ChannelFields
    BY <1>2, <1>4, CpuAssumption DEF Counting, Incoming
  <2>2. /\ c.mem \in Length + 1 .. 2 * Length /\ c.mem # TDR
        /\ 2 * Length + 1 - (c.count - 1) = c.mem + 1
    <3>1. c.mem \in Length + 1 .. 2 * Length /\ c.mem \in 1 .. 2 * Length
      BY <2>1, CpuAssumption
    <3> QED
      BY <2>1, <3>1, MemoryIsApart, CpuAssumption
  <2>3. PICK m : m = Length - w.dma["A"].count
    OBVIOUS
  <2>4. PICK a : a = [w EXCEPT !.req = @ \ {"RXI"}]
    OBVIOUS
  <2>5. /\ Fit(a) /\ a.sci = w.sci /\ a.dev = w.dev /\ a.mem = w.mem /\ a.dma = w.dma
        /\ a.req = w.req \ {"RXI"}
    BY <2>4 DEF Fit, Silent, On, IsWorld, Timely, WorldFields
  <2>6. /\ On(a, "TE") /\ ~On(a, "TEIE") /\ Given(a, m) /\ AskedOnce(a) /\ Holds(a)
    BY <2>3, <2>5 DEF DmaRuns, On, Given, AskedOnce, Holds
  <2>7. PICK b : b = BusCopy(a, RDR, c.mem)
    OBVIOUS
  <2>8. /\ IsWorld(b) /\ b.sci.scr = a.sci.scr /\ b.dma = a.dma
        /\ Given(b, m) /\ AskedOnce(b) /\ Holds(b)
    BY <2>2, <2>5, <2>6, <2>7, FetchingKeeps
  <2>9. Fit(b)
    BY <2>5, <2>7, BusFits DEF Keeps
  <2>10. PICK g : g = Unit(b, "B")
    OBVIOUS
  <2>11. b.dma = w.dma /\ b.sci.scr = w.sci.scr
    BY <2>5, <2>8
  <2>12. /\ IsWorld(g) /\ g.sci = b.sci /\ g.dev = b.dev /\ g.mem = b.mem
         /\ b.req \subseteq g.req /\ g.req \subseteq b.req \cup {End("B")}
         /\ DOMAIN g.dma = SubChannels /\ g.dma["A"] = w.dma["A"]
         /\ DOMAIN g.dma["B"] = ChannelFields
         /\ g.dma["B"].count = c.count - 1 /\ g.dma["B"].mem = c.mem + 1
         /\ (g.dma["B"].dte <=> c.count > 1)
         /\ \A k \in ChannelFields \ {"count", "mem", "dte"} : g.dma["B"][k] = c[k]
    <3>1. IsWorld(b) /\ DOMAIN b.dma = SubChannels /\ b.dma["B"] = c
      BY <1>1, <2>9, <2>11 DEF Fit, DmaRuns, Channels
    <3>2. c.count \in Nat \ {0} /\ "A" \in SubChannels /\ "B" \in SubChannels
      BY <2>1 DEF SubChannels
    <3>3. /\ b.dma["B"].count \in Nat \ {0} /\ b.dma["B"].dte
          /\ b.dma["B"].rpe = FALSE /\ b.dma["B"].dtid = FALSE
          /\ DOMAIN b.dma["B"] = ChannelFields
      BY <1>4, <2>1, <3>1, <3>2
    <3>4. Ticks(g, b, "B")
      BY <2>10, <3>1, <3>2, <3>3, UnitIs
    <3>5. /\ IsWorld(g) /\ g.sci = b.sci /\ g.dev = b.dev /\ g.mem = b.mem
          /\ b.req \subseteq g.req /\ g.req \subseteq b.req \cup {End("B")}
          /\ DOMAIN g.dma = SubChannels /\ g.dma["A"] = b.dma["A"]
          /\ DOMAIN g.dma["B"] = ChannelFields
          /\ g.dma["B"].count = b.dma["B"].count - 1
          /\ g.dma["B"].mem = b.dma["B"].mem + 1
          /\ (g.dma["B"].dte <=> b.dma["B"].count > 1)
      BY <3>2, <3>4 DEF Ticks
    <3>6. \A k \in ChannelFields \ {"count", "mem", "dte"} :
            g.dma["B"][k] = b.dma["B"][k]
      BY <3>4 DEF Ticks
    <3> QED
      BY <2>11, <3>1, <3>5, <3>6
  <2>13. Channels(g)
    <3>1. /\ g.dma["B"].dta = c.dta /\ g.dma["B"].rpe = c.rpe /\ g.dma["B"].dtid = c.dtid
          /\ g.dma["B"].toMem = c.toMem /\ g.dma["B"].trigger = c.trigger
          /\ g.dma["B"].io = c.io
      BY <2>12 DEF ChannelFields
    <3>2. Counting(g.dma["B"])
      BY <2>1, <2>12, CpuAssumption DEF Counting
    <3>3. Incoming(g.dma["B"])
      BY <2>1, <2>2, <2>12, <3>1, CpuAssumption DEF Incoming
    <3> QED
      BY <2>12, <3>2, <3>3 DEF DmaRuns, Channels
  <2>14. Fit(g) /\ On(g, "TE") /\ ~On(g, "TEIE") /\ Given(g, m) /\ Holds(g)
    BY <2>6, <2>8, <2>9, <2>12 DEF Fit, Silent, Timely, On, Given, Holds
  <2>15. AskedOnce(g)
    BY <2>8, <2>12 DEF AskedOnce, End
  <2>16. PICK v : v = SetSSR(g, g.sci.ssr \ {"RDRF"})
    OBVIOUS
  <2>17. /\ Moves(v, g) /\ v.req = g.req /\ v.dev = g.dev /\ v.sci.tdr = g.sci.tdr
         /\ v.sci.delayed = g.sci.delayed
         /\ "TDRE" \in v.sci.ssr <=> "TDRE" \in g.sci.ssr
    BY <2>14, <2>16, ClearingKeeps
  <2>18. doSubChannel(w, "B") = v
    <3>1. doSubChannel(w, "B") = MoveUnit(w, "B")
      BY <1>1, <1>4, <2>1 DEF doSubChannel
    <3>2. Withdrawn(w, "B") = a /\ Source(c) = RDR /\ Destination(c) = c.mem
      BY <1>1, <2>1, <2>4 DEF Withdrawn, Source, Destination
    <3>3. MoveUnit(w, "B") = Acknowledged(g, c)
      BY <1>1, <2>7, <2>10, <3>2 DEF MoveUnit, Unit
    <3>4. Acknowledged(g, c) = v
      BY <2>1, <2>2, <2>16, <3>2 DEF Acknowledged, Clear
    <3> QED
      BY <3>1, <3>3, <3>4
  <2>19. Given(v, m) /\ AskedOnce(v)
    BY <2>14, <2>15, <2>17 DEF Given, AskedOnce
  <2> QED
    BY <2>3, <2>12, <2>13, <2>14, <2>17, <2>18, <2>19 DEF DmaRuns, Moves, Channels, On, Holds
<1> QED
  BY <1>3, <1>4

LEMMA TransferRuns ==
  ASSUME NEW w, Fit(w), DmaRuns(w)
  PROVE  DmaRuns(transfer(w))
BY OutgoingRuns, IncomingRuns, SubChannelFits DEF transfer, Keeps

(* A channel that is not enabled, or not asked, does nothing.              *)
LEMMA TransferWaits ==
  ASSUME NEW w,
         \/ \A s \in SubChannels : ~w.dma[s].dte
         \/ Channels(w) /\ "TXI" \notin w.req /\ "RXI" \notin w.req
  PROVE  transfer(w) = w
<1>1. doSubChannel(w, "A") = w
  BY DEF doSubChannel, Channels, Outgoing, SubChannels
<1>2. doSubChannel(w, "B") = w
  BY DEF doSubChannel, Channels, Incoming, SubChannels
<1> QED
  BY <1>1, <1>2 DEF transfer

LEMMA UpdateRuns ==
  ASSUME NEW w, Fit(w), DmaRuns(w)
  PROVE  DmaRuns(update(w))
<1>1. PICK v : v = update(w)
  OBVIOUS
<1>2. /\ Moves(v, w) /\ AskedOnce(v) /\ Given(v, Length - w.dma["A"].count)
  BY <1>1, UpdateGives DEF DmaRuns
<1>3. v.dma = w.dma /\ v.mem = w.mem /\ v.sci.scr = w.sci.scr
  BY <1>2 DEF Moves
<1> QED
  BY <1>1, <1>2, <1>3 DEF DmaRuns, Channels, Holds, On

-----------------------------------------------------------------------------
(* The data transfer controller has moved the first m bytes.               *)

Feeds(d, m) ==
  /\ d.mode = "normal" /\ d.src = m + 1 /\ d.srcStep = 1 /\ d.dst = TDR /\ d.dstStep = 0
  /\ CountA(d) = Length - m /\ ~d.disel

NoDma(w) == \A s \in SubChannels : ~w.dma[s].dte

Attended(w) ==
  /\ On(w, "TE") /\ w.sci.scr \subseteq {"TE", "TIE"}
  /\ w.req \subseteq {"IRQ0", "TXI"} /\ w.sci.delayed \subseteq {"TXI"}
  /\ Holds(w) /\ NoDma(w)

Feeding(w) ==
  /\ w.dtc.enabled = {"TXI"} /\ w.dtc.vec["TXI"] = 1 /\ AskedOnce(w)
  /\ \E m \in 0 .. Length - 1 : Feeds(w.dtc.descs[1], m) /\ Given(w, m)

(* The last byte is in TDR, and its request is for the processor.          *)
AllMoved(w) ==
  /\ w.dtc.enabled = {} /\ Loaded(w, Length - 1)
  /\ "TXI" \in w.req /\ "TXI" \notin w.sci.delayed

LEMMA NoneAsked ==
  ASSUME NEW w, w.dtc.enabled \cap w.req = {}
  PROVE  updateDTC(w) = [w |-> w, triggered |-> FALSE]
<1> DEFINE asked == {i \in DOMAIN DtcOrder : DtcOrder[i] \in w.dtc.enabled \cap w.req}
<1>1. PICK s : s = DtcOrder[CHOOSE i \in asked : \A k \in asked : i <= k]
  OBVIOUS
<1>2. asked = {}
  OBVIOUS
<1>3. updateDTC(w) = IF asked = {} \/ \E t \in w.req : Before(t, s)
                     THEN [w |-> w, triggered |-> FALSE]
                     ELSE Activated(w, s, w.dtc.vec[s])
  BY <1>1 DEF updateDTC
<1> HIDE DEF asked
<1> QED
  BY <1>2, <1>3

LEMMA TxiAsked ==
  ASSUME NEW w, w.dtc.enabled = {"TXI"}, "TXI" \in w.req, w.req \subseteq {"IRQ0", "TXI"}
  PROVE  updateDTC(w) = Activated(w, "TXI", w.dtc.vec["TXI"])
<1> DEFINE asked == {i \in DOMAIN DtcOrder : DtcOrder[i] \in w.dtc.enabled \cap w.req}
<1>1. asked = {2}
  BY DEF DtcOrder
<1>2. PICK first : first = CHOOSE i \in asked : \A k \in asked : i <= k
  OBVIOUS
<1>3. PICK s : s = DtcOrder[first]
  OBVIOUS
<1>4. updateDTC(w) = IF asked = {} \/ \E t \in w.req : Before(t, s)
                     THEN [w |-> w, triggered |-> FALSE]
                     ELSE Activated(w, s, w.dtc.vec[s])
  BY <1>2, <1>3 DEF updateDTC
<1> HIDE DEF asked
<1>5. first = 2
  BY <1>1, <1>2
<1>6. s = "TXI"
  BY <1>3, <1>5 DEF DtcOrder
<1>7. \A t \in w.req : ~Before(t, s)
  <2>1. Number["IRQ0"] = 16 /\ Number["TXI"] = 86
    BY DEF Number
  <2>2. 16 \div 64 = 0 /\ 86 \div 64 = 1
    OBVIOUS
  <2> QED
    BY <1>6, <2>1, <2>2 DEF Before
<1> QED
  BY <1>1, <1>4, <1>6, <1>7

LEMMA CountedFeeds ==
  ASSUME NEW d, IsDescriptor(d), NEW m \in 0 .. Length - 1, Feeds(d, m)
  PROVE  /\ Feeds(Counted(d, m + 2, TDR), m + 1)
         /\ Ends(Counted(d, m + 2, TDR)) <=> m = Length - 1
         /\ Counted(d, m + 2, TDR).src = m + 2 /\ Counted(d, m + 2, TDR).dst = TDR
<1>1. PICK left : left = Length - (m + 1)
  OBVIOUS
<1>2. Length \in Nat /\ left \in Nat /\ Length - m - 1 = left
  BY <1>1, CpuAssumption
<1>3. PICK h, l : h = left \div 256 /\ l = left % 256
  OBVIOUS
<1>4. h * 256 + l = left
  BY <1>2, <1>3
<1>5. Units(d) - 1 = left
  BY <1>2 DEF Feeds, Units
<1>6. Counted(d, m + 2, TDR) = [d EXCEPT !.hi = h, !.lo = l, !.src = m + 2, !.dst = TDR]
  <2>1. h = (Units(d) - 1) \div Bytes /\ l = (Units(d) - 1) % Bytes
    BY <1>3, <1>5, Zenon DEF Bytes
  <2>2. d.mode = "normal"
    BY DEF Feeds
  <2> QED
    BY <2>1, <2>2, Zenon DEF Counted
<1>7. PICK e : e = Counted(d, m + 2, TDR)
  OBVIOUS
<1>8. /\ e.mode = d.mode /\ e.hi = h /\ e.lo = l /\ e.src = m + 2 /\ e.dst = TDR
      /\ e.srcStep = d.srcStep /\ e.dstStep = d.dstStep /\ e.disel = d.disel
  BY <1>6, <1>7 DEF IsDescriptor, DescFields
<1>9. CountA(e) = left
  BY <1>4, <1>8 DEF CountA, Bytes
<1>10. left = 0 <=> m = Length - 1
  BY <1>1, <1>2
<1>11. m + 2 = m + 1 + 1
  OBVIOUS
<1> QED
  BY <1>1, <1>7, <1>8, <1>9, <1>10, <1>11 DEF Feeds, Ends

(* Another byte of the message is moved to TDR. *)
LEMMA MovedLoads ==
  ASSUME NEW w, Fit(w), Attended(w), Feeding(w), "TXI" \in w.req,
         NEW d, NEW m \in 0 .. Length - 1, Feeds(d, m), Given(w, m)
  PROVE  /\ Moved(w, d).src = m + 2 /\ Moved(w, d).dst = TDR
         /\ Moves(Moved(w, d).w, w) /\ Loaded(Moved(w, d).w, m)
         /\ Moved(w, d).w.req = w.req /\ Moved(w, d).w.sci.delayed = {}
         /\ Fit(Moved(w, d).w)
<1>1. Units1(d) = 1 /\ m + 1 + 1 = m + 2 /\ TDR + 0 = TDR /\ m < Length
  BY CpuAssumption DEF Units1, Feeds
<1>2. PICK t : t = UnitTurns(w, d, 1)
  OBVIOUS
<1>3. Moved(w, d) = t[1]
  BY <1>1, <1>2, MovedIsTurns
<1>4. /\ t[0] = [w |-> w, src |-> d.src, dst |-> d.dst]
      /\ t[1] = NextUnit(t[0], d)
  <2>1. \A k \in 0 .. 1 : t[k] = IF k = 0 THEN [w |-> w, src |-> d.src, dst |-> d.dst]
                                 ELSE NextUnit(t[k - 1], d)
    BY <1>2, UnitTurnsAre
  <2>2. 0 \in 0 .. 1 /\ 1 \in 0 .. 1 /\ 1 - 1 = 0
    OBVIOUS
  <2> HIDE DEF NextUnit
  <2> QED
    BY <2>1, <2>2
<1>5. PICK b : b = BusCopy(w, m + 1, TDR)
  OBVIOUS
<1>6. Moved(w, d) = [w |-> b, src |-> m + 2, dst |-> TDR]
  BY <1>1, <1>3, <1>4, <1>5 DEF NextUnit, Feeds
<1>7. /\ ~On(w, "TEIE") /\ AskedOnce(w) /\ "TDRE" \in w.sci.ssr /\ w.sci.delayed = {}
      /\ Raisable(w) \ {"TXI"} = {}
  BY DEF Attended, Feeding, AskedOnce, On, Raisable
<1>8. /\ Moves(b, w) /\ Loaded(b, m) /\ b.req = w.req \cup w.sci.delayed
      /\ b.sci.delayed \subseteq Raisable(w) \ {"TXI"}
  BY <1>1, <1>5, <1>7, LoadingLoads DEF Attended
<1>9. Fit(b)
  BY <1>5, BusFits DEF Keeps
<1> QED
  BY <1>6, <1>7, <1>8, <1>9

LEMMA DtcServes ==
  ASSUME NEW w, Fit(w), Chainable(w.dtc), Attended(w), Feeding(w), "TXI" \in w.req
  PROVE  \E v : /\ Attended(v)
                /\ \/ updateDTC(w) = [w |-> v, triggered |-> TRUE] /\ Feeding(v)
                   \/ updateDTC(w) = [w |-> v, triggered |-> FALSE] /\ AllMoved(v)
<1>1. PICK d : d = w.dtc.descs[1]
  OBVIOUS
<1>2. PICK m \in 0 .. Length - 1 : Feeds(d, m) /\ Given(w, m)
  BY <1>1 DEF Feeding
<1>3. /\ w.dtc.enabled = {"TXI"} /\ w.dtc.vec["TXI"] = 1 /\ w.req \subseteq {"IRQ0", "TXI"}
      /\ On(w, "TE") /\ w.sci.scr \subseteq {"TE", "TIE"} /\ Holds(w) /\ NoDma(w)
  BY DEF Feeding, Attended
<1>4. /\ IsDescriptor(d) /\ w.dtc.descs = [n \in 1 .. 3 |-> w.dtc.descs[n]]
      /\ DOMAIN w.dtc = {"enabled", "vec", "descs"}
  BY <1>1, <1>3 DEF Chainable
<1>5. PICK p : p = Moved(w, d)
  OBVIOUS
<1>6. PICK b : b = p.w
  OBVIOUS
<1>7. /\ p.src = m + 2 /\ p.dst = TDR
      /\ Moves(b, w) /\ Loaded(b, m) /\ b.req = w.req /\ b.sci.delayed = {} /\ Fit(b)
  BY <1>2, <1>5, <1>6, MovedLoads
<1>8. PICK e : e = Counted(d, m + 2, TDR)
  OBVIOUS
<1>9. /\ Feeds(e, m + 1) /\ (Ends(e) <=> m = Length - 1) /\ e.src = m + 2 /\ e.dst = TDR
  BY <1>2, <1>4, <1>8, CountedFeeds
<1>10. PICK u : u = NextDescriptor(w, 1)
  OBVIOUS
<1>11. u = [b EXCEPT !.dtc.descs[1] = e]
  BY <1>1, <1>5, <1>6, <1>7, <1>8, <1>10 DEF NextDescriptor, Stored
<1>12. /\ u.sci = b.sci /\ u.dev = b.dev /\ u.req = w.req /\ u.mem = w.mem /\ u.dma = w.dma
       /\ u.dtc = [w.dtc EXCEPT !.descs[1] = e]
  BY <1>7, <1>11 DEF Fit, IsWorld, WorldFields, Moves
<1>13. /\ u.dtc.enabled = {"TXI"} /\ u.dtc.vec = w.dtc.vec /\ u.dtc.descs[1] = e
  BY <1>3, <1>4, <1>12
<1>14. Fit(u) /\ Chainable(u.dtc)
  <2>1. w.dtc.enabled # {} /\ 1 \in 1 .. 3
    BY <1>3
  <2> QED
    BY <1>10, <2>1, NextDescriptorFits
<1>15. updateDTC(w) = Served(u, e, "TXI")
  <2>1. updateDTC(w) = Activated(w, "TXI", 1)
    BY <1>3, TxiAsked
  <2>2. 1 \in 1 .. 3 /\ w.dtc.enabled # {} /\ u.dtc.enabled # {}
    BY <1>3, <1>13
  <2>3. Chained(w, 1) = u
    BY <1>10, <2>2, ChainedFits
  <2>4. Last(u, 1) = 1
    BY <1>14, <2>2, LastIs DEF LastOf
  <2> QED
    BY <1>13, <2>1, <2>3, <2>4 DEF Activated
<1>16. ~e.disel
  BY <1>9 DEF Feeds
<1>17. u.sci.scr = w.sci.scr /\ u.sci.delayed = {} /\ Loaded(u, m)
  BY <1>7, <1>12 DEF Moves, Loaded
<1>18. CASE m = Length - 1
  <2>1. PICK v : v = [u EXCEPT !.dtc.enabled = @ \ {"TXI"}]
    OBVIOUS
  <2>2. Served(u, e, "TXI") = [w |-> v, triggered |-> FALSE]
    BY <1>9, <1>18, <2>1 DEF Served, Settled, Concluded
  <2>3. /\ v.sci = u.sci /\ v.dev = u.dev /\ v.req = u.req /\ v.mem = u.mem /\ v.dma = u.dma
        /\ v.dtc.enabled = {}
    BY <1>13, <1>14, <2>1 DEF Fit, IsWorld, WorldFields, Chainable
  <2>4. Attended(v) /\ AllMoved(v)
    BY <1>3, <1>12, <1>17, <1>18, <2>3 DEF Attended, AllMoved, Loaded, On, Holds, NoDma
  <2> QED
    BY <1>15, <2>2, <2>4
<1>19. CASE m # Length - 1
  <2>1. PICK x : x = [u EXCEPT !.req = @ \ {"TXI"}]
    OBVIOUS
  <2>2. /\ Fit(x) /\ x.sci = u.sci /\ x.dev = u.dev /\ x.mem = u.mem /\ x.dma = u.dma
        /\ x.dtc = u.dtc /\ x.req = u.req \ {"TXI"}
    BY <1>14, <2>1 DEF Fit, Silent, On, IsWorld, Timely, WorldFields
  <2>3. PICK v : v = SetSSR(x, x.sci.ssr \ {"TDRE"})
    OBVIOUS
  <2>4. Length \in Nat /\ m + 1 \in 0 .. Length - 1 /\ m + 2 \in 1 .. 2 * Length
    BY <1>2, <1>19, CpuAssumption
  <2>5. Served(u, e, "TXI") = [w |-> v, triggered |-> TRUE]
    <3>1. ~Ends(e) /\ e.dst = TDR /\ e.src # RDR
      BY <1>9, <1>19, <2>4, MemoryIsApart
    <3> QED
      BY <1>16, <2>1, <2>3, <3>1 DEF Served, Settled, Concluded, Clear
  <2>6. On(x, "TE") /\ Loaded(x, m) /\ NotAsked(x)
    BY <1>3, <1>12, <1>17, <2>2 DEF On, Loaded, NotAsked
  <2>7. /\ Moves(v, x) /\ Given(v, m + 1) /\ AskedOnce(v) /\ v.req = x.req
        /\ v.sci.delayed \subseteq x.sci.delayed \cup Raisable(x)
    BY <2>2, <2>3, <2>6, ClearingGives
  <2>8. Raisable(x) \subseteq {"TXI"}
    BY <1>3, <1>17, <2>2 DEF Raisable, On
  <2>9. Attended(v)
    BY <1>3, <1>12, <1>17, <2>2, <2>7, <2>8 DEF Attended, Moves, On, Holds, NoDma
  <2>10. Feeding(v)
    BY <1>3, <1>9, <1>13, <2>2, <2>4, <2>7 DEF Feeding, Moves
  <2> QED
    BY <1>15, <2>5, <2>9, <2>10
<1> QED
  BY <1>18, <1>19

-----------------------------------------------------------------------------
(* The firmware: where it is says how much of the message has been given.  *)

Outside(h) == h.source \in {"none", "IRQ0"}

Unstarted(w) ==
  /\ w.sci.scr = {} /\ w.sci.delayed = {} /\ w.req \subseteq {"IRQ0"}
  /\ "TDRE" \in w.sci.ssr /\ "RDRF" \notin w.sci.ssr /\ w.dev.wrote = << >>

(* n bytes have been sent, and TDR is empty. *)
Emptied(w, n) == "TDRE" \in w.sci.ssr /\ w.dev.wrote = Prefix(n)

(* The port of a program that polls. *)
Polling(w) ==
  /\ NoDma(w) /\ w.dtc.enabled = {} /\ w.sci.delayed = {} /\ w.req \subseteq {"IRQ0"}
  /\ w.sci.scr \subseteq {"TE", "RE"}

PolledSteps(f) ==
  {"ier", "unmask", "enable", "tdre", "data", "txget", "txput", "done"} \cup
  (IF f.program = "write" THEN {"sent"} ELSE {"rdrf", "fetch", "rxget", "rxput"})

(* A byte received is waited for when the one sent for it has gone: a      *)
(* full RDR says so, since it was empty before. *)
PolledTo(w, f) ==
  /\ f.pc \in {"ier", "unmask", "enable"} => Unstarted(w) /\ f.n = 0
  /\ f.pc \notin {"ier", "unmask", "enable"} => On(w, "TE")
  /\ f.pc \in {"tdre", "data", "txget", "txput"} =>
       /\ Emptied(w, f.n)
       /\ f.program = "transfer" => "RDRF" \notin w.sci.ssr
  /\ f.pc \in {"txget", "txput"} => w.sci.tdr = f.n + 1
  /\ f.pc \in {"sent", "rdrf"} => Given(w, f.n + 1)
  /\ f.pc = "rdrf" => ("RDRF" \in w.sci.ssr => "TDRE" \in w.sci.ssr)
  /\ f.pc \in {"fetch", "rxget", "rxput"} => Emptied(w, f.n + 1)
  /\ f.pc = "rxput" /\ f.program \in Split => "TDRE" \in f.tmp
  /\ f.pc = "done" => Given(w, f.n)

Polled(w, f, h) ==
  /\ Outside(h) /\ Polling(w) /\ PolledTo(w, f)
  /\ f.pc \in PolledSteps(f) /\ f.n \in Nat
  /\ f.program = "transfer" => w.sci.sync

LEMMA GoIs ==
  ASSUME Orderly, NEW to
  PROVE  /\ DOMAIN Go(to) = FwFields /\ Go(to).pc = to
         /\ Go(to).program = fw.program /\ Go(to).n = fw.n /\ Go(to).tmp = fw.tmp
         /\ Go(to).ended = fw.ended /\ Go(to).held = fw.held
BY DEF Orderly, Go, FwFields

LEMMA BecomeIs ==
  ASSUME NEW w, Become(w)
  PROVE  /\ World'.sci = w.sci /\ World'.dev = w.dev /\ World'.req = w.req
         /\ World'.mem = w.mem /\ World'.dma = w.dma /\ World'.dtc = w.dtc
BY DEF Become, World

LEMMA EmptiedIsGiven ==
  ASSUME NEW w, NEW n \in Nat
  PROVE  Emptied(w, n) <=> Given(w, n) /\ "TDRE" \in w.sci.ssr
BY DEF Emptied, Given

(* Nothing that counts here is different but the requests.                 *)
Alike(v, w) ==
  /\ v.sci.ssr = w.sci.ssr /\ v.sci.scr = w.sci.scr /\ v.sci.tdr = w.sci.tdr
  /\ v.sci.sync = w.sci.sync /\ v.sci.delayed = w.sci.delayed
  /\ v.dev.wrote = w.dev.wrote
  /\ v.mem = w.mem /\ v.dma = w.dma /\ v.dtc = w.dtc

LEMMA AlikeIs ==
  ASSUME NEW w, NEW v, Alike(v, w)
  PROVE  /\ On(w, "TE") => On(v, "TE")
         /\ \A m : Given(w, m) => Given(v, m)
         /\ \A m : Emptied(w, m) => Emptied(v, m)
         /\ \A m : Loaded(w, m) => Loaded(v, m)
         /\ Holds(w) => Holds(v)
         /\ NoDma(w) => NoDma(v)
         /\ Channels(w) => Channels(v)
BY DEF Alike, On, Given, Emptied, Loaded, Holds, NoDma, Channels

LEMMA PolledUnless ==
  ASSUME NEW w, NEW v, NEW f, NEW h, Polled(w, f, h), Alike(v, w), v.req \subseteq {"IRQ0"}
  PROVE  Polled(v, f, h)
<1>1. Polling(v)
  BY AlikeIs DEF Polled, Polling, Alike
<1>2. Unstarted(w) => Unstarted(v)
  BY DEF Unstarted, Alike
<1>3. PolledTo(v, f)
  <2>1. v.sci.ssr = w.sci.ssr /\ v.sci.tdr = w.sci.tdr
    BY DEF Alike
  <2>2. /\ On(w, "TE") => On(v, "TE")
        /\ \A m : Given(w, m) => Given(v, m)
        /\ \A m : Emptied(w, m) => Emptied(v, m)
    BY AlikeIs
  <2> QED
    BY <1>2, <2>1, <2>2 DEF Polled, PolledTo
<1> QED
  BY <1>1, <1>3 DEF Polled, Alike

LEMMA BecomeIsAlike ==
  ASSUME NEW w, Become(w)
  PROVE  Alike(World', w) /\ World'.req = w.req
<1>1. PICK v : v = World'
  OBVIOUS
<1>2. /\ v.sci = w.sci /\ v.dev = w.dev /\ v.req = w.req
      /\ v.mem = w.mem /\ v.dma = w.dma /\ v.dtc = w.dtc
  BY <1>1, BecomeIs
<1> QED
  BY <1>1, <1>2 DEF Alike

(* Time passes. *)
LEMMA ElapsedIs ==
  ASSUME IInv, UpdatePeripherals
  PROVE  \E e : /\ Fit(e) /\ Alike(e, World) /\ e.req = req
               /\ Become(updateForInterrupts(e))
<1>1. PICK t \in InstrCycles : Become(updateForInterrupts(Elapsed(World, t)))
  BY DEF UpdatePeripherals
<1>2. t \in Nat /\ MaxSince \in Nat
  BY <1>1, CpuAssumption
<1>3. PICK w : w = World
  OBVIOUS
<1>4. Fit(w) /\ w.sci = sci /\ w.req = req
  BY <1>3, WorldIs DEF IInv
<1>5. PICK n : n = IF sci.since + t < MaxSince THEN sci.since + t ELSE MaxSince
  OBVIOUS
<1>6. n \in Nat
  BY <1>2, <1>4, <1>5 DEF Fit, IsWorld
<1>7. PICK e : e = [w EXCEPT !.sci.since = n]
  OBVIOUS
<1>8. Elapsed(World, t) = e
  BY <1>3, <1>4, <1>5, <1>7 DEF Elapsed, Fit, IsWorld, PortFields, WorldFields
<1>9. Fit(e)
  BY <1>4, <1>6, <1>7
  DEF Fit, Silent, On, IsWorld, Timely, WorldFields, PortFields, DevFields
<1>10. Alike(e, w) /\ e.req = w.req
  BY <1>4, <1>7 DEF Fit, IsWorld, WorldFields, PortFields, Alike
<1> QED
  BY <1>1, <1>3, <1>4, <1>8, <1>9, <1>10

(* Interrupts come in from elsewhere, and bytes. *)
LEMMA OthersPass ==
  ASSUME IInv, externalInterrupt \/ DeviceInput \/ UNCHANGED vars
  PROVE  /\ Alike(World', World) /\ req \subseteq World'.req
         /\ World'.req \subseteq req \cup {"IRQ0"}
         /\ fw' = fw /\ handler' = handler
<1>1. /\ UNCHANGED <<sci, mem, dma, dtc, handler, fw>> /\ dev'.wrote = dev.wrote
      /\ req \subseteq req' /\ req' \subseteq req \cup {"IRQ0"}
  <2>1. CASE externalInterrupt
    BY <2>1 DEF externalInterrupt
  <2>2. CASE DeviceInput
    <3>1. /\ UNCHANGED <<sci, req, mem, dma, dtc, handler, fw>>
          /\ dev' = [dev EXCEPT !.out = Append(@, dev.made + 1), !.made = @ + 1]
      BY <2>2 DEF DeviceInput
    <3> QED
      BY <3>1, WorldIs DEF IInv, Fit, IsWorld, DevFields
  <2>3. CASE UNCHANGED vars
    BY <2>3 DEF vars, world
  <2> QED
    BY <2>1, <2>2, <2>3
<1>2. PICK v : v = World'
  OBVIOUS
<1>3. /\ v.sci = sci' /\ v.dev = dev' /\ v.req = req' /\ v.mem = mem'
      /\ v.dma = dma' /\ v.dtc = dtc'
  BY <1>2 DEF World
<1>4. Alike(v, World)
  BY <1>1, <1>3, WorldIs DEF Alike
<1> QED
  BY <1>1, <1>2, <1>3, <1>4

LEMMA RequestServed ==
  ASSUME NEW w, DOMAIN w = WorldFields, serviceInterrupt(w)
  PROVE  \/ /\ w.req = {} \/ masked
            /\ Become(w) /\ handler' = handler
         \/ /\ w.req # {} /\ ~masked
            /\ handler' = [source |-> Lowest(w.req), pc |-> "enter"]
            /\ \E x : Become(x) /\ Alike(x, w) /\ x.req = w.req \ {Lowest(w.req)}
<1>1. PICK s : s = Lowest(w.req)
  OBVIOUS
<1>2. PICK x : x = [w EXCEPT !.req = @ \ {s}]
  OBVIOUS
<1>3. Alike(x, w) /\ x.req = w.req \ {s}
  BY <1>2 DEF Alike, WorldFields
<1> QED
  BY <1>1, <1>2, <1>3 DEF serviceInterrupt

LEMMA LowestIs ==
  ASSUME NEW S, S \subseteq {"IRQ0", "TXI"}, S # {}
  PROVE  Lowest(S) \in S
<1>1. Number["IRQ0"] = 16 /\ Number["TXI"] = 86
  BY DEF Number
<1>2. \E s \in S : \A t \in S : Number[s] <= Number[t]
  <2>1. CASE "IRQ0" \in S
    <3>1. \A t \in S : Number["IRQ0"] <= Number[t]
      BY <1>1
    <3> QED
      BY <2>1, <3>1
  <2>2. CASE "IRQ0" \notin S
    <3>1. "TXI" \in S /\ \A t \in S : t = "TXI"
      BY <2>2
    <3>2. \A t \in S : Number["TXI"] <= Number[t]
      BY <1>1, <3>1
    <3> QED
      BY <3>1, <3>2
  <2> QED
    BY <2>1, <2>2
<1> QED
  BY <1>2 DEF Lowest

(* The port of a program that polls is read while it transmits. *)
LEMMA PolledUpdate ==
  ASSUME NEW w, Fit(w), Polling(w), On(w, "TE"), NEW m, Given(w, m)
  PROVE  /\ Polling(update(w)) /\ On(update(w), "TE") /\ Given(update(w), m)
         /\ Fit(update(w)) /\ NotAsked(update(w))
         /\ update(w).sci.tdr = w.sci.tdr /\ update(w).sci.sync = w.sci.sync
         /\ w.sci.ssr \subseteq update(w).sci.ssr
         /\ w.sci.sync /\ "RDRF" \in update(w).sci.ssr =>
              "RDRF" \in w.sci.ssr \/ "TDRE" \in update(w).sci.ssr \ w.sci.ssr
<1>1. PICK v : v = update(w)
  OBVIOUS
<1>2. ~On(w, "TEIE") /\ AskedOnce(w) /\ Raisable(w) = {}
  BY DEF Polling, On, AskedOnce, Raisable
<1>3. /\ Moves(v, w) /\ Given(v, m) /\ v.sci.tdr = w.sci.tdr
      /\ v.req = w.req \cup w.sci.delayed /\ v.sci.delayed \subseteq Raisable(w)
      /\ w.sci.ssr \subseteq v.sci.ssr
      /\ w.sci.sync /\ "RDRF" \in v.sci.ssr =>
           "RDRF" \in w.sci.ssr \/ "TDRE" \in v.sci.ssr \ w.sci.ssr
  BY <1>1, <1>2, UpdateGives
<1>4. Polling(v) /\ On(v, "TE") /\ NotAsked(v)
  BY <1>2, <1>3 DEF Polling, Moves, NoDma, On, NotAsked
<1> QED
  BY <1>1, <1>3, <1>4, UpdateFits DEF Keeps, Moves

LEMMA UnstartedUpdate ==
  ASSUME NEW w, Fit(w), Unstarted(w)
  PROVE  /\ Unstarted(update(w)) /\ Moves(update(w), w) /\ Fit(update(w))
         /\ update(w).req = w.req
BY UpdateIdles, UpdateFits DEF Unstarted, Moves, Keeps

LEMMA PolledAfter ==
  ASSUME NEW w, NEW f, NEW h, Become(w), Polled(w, f, h)
  PROVE  Polled(World', f, h)
BY BecomeIsAlike, PolledUnless DEF Polled, Polling

(* What an instruction of a program that polls finds in the port.          *)
LEMMA PolledAccess ==
  ASSUME IInv, Polled(World, fw, handler), fw.program \in {"transfer", "write"}
  PROVE  /\ Fit(Accessed) /\ Polling(Accessed) /\ NotAsked(Accessed)
         /\ Accessed.sci.tdr = sci.tdr /\ fw.n \in Nat
         /\ fw.program = "transfer" => Accessed.sci.sync
         /\ fw.pc \in {"ier", "unmask", "enable"} => Unstarted(Accessed) /\ fw.n = 0
         /\ fw.pc \notin {"ier", "unmask", "enable"} => On(Accessed, "TE")
         /\ fw.pc \in {"tdre", "data", "txget", "txput"} =>
              /\ Emptied(Accessed, fw.n)
              /\ fw.program = "transfer" => "RDRF" \notin Accessed.sci.ssr
         /\ fw.pc \in {"sent", "rdrf"} => Given(Accessed, fw.n + 1)
         /\ fw.pc = "rdrf" =>
              ("RDRF" \in Accessed.sci.ssr => "TDRE" \in Accessed.sci.ssr)
         /\ fw.pc \in {"fetch", "rxget", "rxput"} => Emptied(Accessed, fw.n + 1)
<1>1. PICK w : w = World
  OBVIOUS
<1>2. PICK u : u = update(w)
  OBVIOUS
<1>3. /\ Accessed = u /\ w.sci = sci
  BY <1>1, <1>2, WorldIs DEF Accessed
<1>4. Fit(w) /\ Polling(w) /\ PolledTo(w, fw) /\ fw.n \in Nat /\ fw.n + 1 \in Nat
  BY <1>1 DEF IInv, Polled
<1>5. fw.program = "transfer" => w.sci.sync
  BY <1>1 DEF Polled
<1>6. CASE fw.pc \in {"ier", "unmask", "enable"}
  <2>1. Unstarted(w) /\ fw.n = 0
    BY <1>4, <1>6 DEF PolledTo
  <2>2. Unstarted(u) /\ Moves(u, w) /\ Fit(u)
    BY <1>2, <1>4, <2>1, UnstartedUpdate
  <2>3. u.sci.tdr = w.sci.tdr
    BY <1>2, <1>4, UpdateLapses, RaisedIs DEF Fit, Lapse
  <2>4. Polling(u) /\ NotAsked(u)
    BY <1>4, <2>2 DEF Polling, NotAsked, Unstarted, Moves, NoDma
  <2> QED
    BY <1>3, <1>4, <1>5, <1>6, <2>1, <2>2, <2>3, <2>4 DEF Moves
<1>7. CASE fw.pc \notin {"ier", "unmask", "enable"}
  <2>1. PICK m : m = IF fw.pc \in {"tdre", "data", "txget", "txput", "done"}
                     THEN fw.n ELSE fw.n + 1
    OBVIOUS
  <2>2. On(w, "TE") /\ m \in Nat /\ fw.pc \in PolledSteps(fw)
    BY <1>1, <1>4, <1>7, <2>1 DEF PolledTo, Polled
  <2>3. Given(w, m)
    BY <1>4, <1>7, <2>1, <2>2, EmptiedIsGiven DEF PolledTo, PolledSteps
  <2>4. /\ Polling(u) /\ On(u, "TE") /\ Given(u, m) /\ Fit(u) /\ NotAsked(u)
        /\ u.sci.tdr = w.sci.tdr /\ u.sci.sync = w.sci.sync
        /\ w.sci.ssr \subseteq u.sci.ssr
        /\ w.sci.sync /\ "RDRF" \in u.sci.ssr =>
             "RDRF" \in w.sci.ssr \/ "TDRE" \in u.sci.ssr \ w.sci.ssr
    BY <1>2, <1>4, <2>2, <2>3, PolledUpdate
  <2>5. /\ fw.pc \in {"tdre", "data", "txget", "txput"} =>
             /\ Emptied(u, fw.n)
             /\ fw.program = "transfer" => "RDRF" \notin u.sci.ssr
    <3>1. SUFFICES ASSUME fw.pc \in {"tdre", "data", "txget", "txput"}
                   PROVE  /\ Emptied(u, fw.n)
                          /\ fw.program = "transfer" => "RDRF" \notin u.sci.ssr
      OBVIOUS
    <3>2. m = fw.n
      BY <2>1, <3>1
    <3>3. /\ "TDRE" \in w.sci.ssr
          /\ fw.program = "transfer" => "RDRF" \notin w.sci.ssr
      BY <1>4, <3>1 DEF PolledTo, Emptied
    <3> QED
      BY <1>4, <1>5, <2>4, <3>2, <3>3, EmptiedIsGiven
  <2>6. fw.pc \in {"sent", "rdrf"} => Given(u, fw.n + 1)
    BY <2>1, <2>4
  <2>7. fw.pc = "rdrf" => ("RDRF" \in u.sci.ssr => "TDRE" \in u.sci.ssr)
    <3>1. fw.pc = "rdrf" => w.sci.sync /\ ("RDRF" \in w.sci.ssr => "TDRE" \in w.sci.ssr)
      <4>1. fw.pc = "rdrf" => fw.program # "write"
        BY <2>2 DEF PolledSteps
      <4> QED
        BY <1>4, <1>5, <4>1 DEF PolledTo
    <3> QED
      BY <2>4, <3>1
  <2>8. fw.pc \in {"fetch", "rxget", "rxput"} => Emptied(u, fw.n + 1)
    <3>1. SUFFICES ASSUME fw.pc \in {"fetch", "rxget", "rxput"}
                   PROVE  Emptied(u, fw.n + 1)
      OBVIOUS
    <3>2. m = fw.n + 1 /\ "TDRE" \in w.sci.ssr
      BY <1>4, <2>1, <3>1 DEF PolledTo, Emptied
    <3> QED
      BY <1>4, <2>4, <3>2, EmptiedIsGiven
  <2> QED
    BY <1>3, <1>4, <1>5, <1>7, <2>4, <2>5, <2>6, <2>7, <2>8
<1> QED
  BY <1>6, <1>7

LEMMA PolledWrites ==
  ASSUME IInv, Polled(World, fw, handler), fw.program \in {"transfer", "write"}, sciWrite
  PROVE  Polled(World', fw', handler')
<1>1. PICK u : u = Accessed
  OBVIOUS
<1>2. PICK n : n = fw.n
  OBVIOUS
<1>3. /\ Fit(u) /\ Polling(u) /\ NotAsked(u) /\ u.sci.tdr = sci.tdr /\ n \in Nat
      /\ fw.program = "transfer" => u.sci.sync
      /\ fw.pc \notin {"ier", "unmask", "enable"} => On(u, "TE")
      /\ fw.pc \in {"tdre", "data", "txget", "txput"} =>
           Emptied(u, n) /\ (fw.program = "transfer" => "RDRF" \notin u.sci.ssr)
      /\ fw.pc = "sent" => Given(u, n + 1)
  BY <1>1, <1>2, PolledAccess
<1>4. /\ Orderly /\ Outside(handler) /\ n + 1 \in Nat /\ IsWorld(u)
      /\ fw.pc \in PolledSteps(fw)
      /\ fw.pc = "txput" => sci.tdr = n + 1
  BY <1>2, <1>3, WorldIs DEF IInv, Polled, PolledTo, Fit
<1> DEFINE Goal == Polled(World', fw', handler')
<1>5. CASE WaitFor("TDRE", "tdre", "data")
  <2>1. PICK to \in {"tdre", "data"} : fw' = Go(to) /\ Become(u) /\ handler' = handler
    BY <1>1, <1>5 DEF WaitFor, Branch, Main, Instruct
  <2>2. fw.pc = "tdre"
    BY <1>5 DEF WaitFor, Branch, Main, Instruct
  <2>3. Polled(u, Go(to), handler)
    BY <1>2, <1>3, <1>4, <2>1, <2>2, GoIs DEF Polled, PolledTo, PolledSteps
  <2> QED
    BY <2>1, <2>3, PolledAfter
<1>6. CASE Main("data", IF Splits THEN "txget" ELSE "txput", SetTDR(Accessed, fw.n + 1))
  <2>1. PICK x : x = SetTDR(u, n + 1)
    OBVIOUS
  <2>2. PICK to \in {"txget", "txput"} : fw' = Go(to) /\ Become(x) /\ handler' = handler
    BY <1>1, <1>2, <1>6, <2>1 DEF Main, Instruct
  <2>3. fw.pc = "data"
    BY <1>6 DEF Main, Instruct
  <2>4. /\ Untouched(x, u) /\ SamePort(x, u) /\ x.req = u.req /\ x.sci.tdr = n + 1
        /\ x.sci.ssr = u.sci.ssr
    BY <1>3, <1>4, <2>1, <2>3, SetTDRIs
  <2>5. Polling(x) /\ On(x, "TE") /\ Emptied(x, n) /\ x.sci.sync = u.sci.sync
    BY <1>3, <2>3, <2>4 DEF Polling, NoDma, On, Emptied, Untouched, SamePort
  <2>6. Polled(x, Go(to), handler)
    BY <1>2, <1>3, <1>4, <2>2, <2>3, <2>4, <2>5, GoIs DEF Polled, PolledTo, PolledSteps
  <2> QED
    BY <2>2, <2>6, PolledAfter
<1>7. CASE ReadSSR("txget", "txput")
  <2>1. PICK t : t = u.sci.ssr
    OBVIOUS
  <2>2. PICK g : g = [Go("txput") EXCEPT !.tmp = t]
    OBVIOUS
  <2>3. fw' = g /\ Become(u) /\ handler' = handler /\ fw.pc = "txget"
    BY <1>1, <1>7, <2>1, <2>2 DEF ReadSSR, Instruct
  <2>4. g.pc = "txput" /\ g.n = n /\ g.program = fw.program
    BY <1>2, <1>4, <2>2, GoIs DEF FwFields
  <2>5. sci.tdr = n + 1
    BY <1>2, <2>3, WorldIs DEF Polled, PolledTo
  <2>6. Polled(u, g, handler)
    BY <1>3, <1>4, <2>3, <2>4, <2>5 DEF Polled, PolledTo, PolledSteps
  <2> QED
    BY <2>3, <2>6, PolledAfter
<1>8. CASE Main("txput", IF fw.program = "transfer" THEN "rdrf" ELSE "sent", Cleared("TDRE"))
  <2>1. PICK val : val = (IF Splits THEN fw.tmp ELSE u.sci.ssr) \ {"TDRE"}
    OBVIOUS
  <2>2. PICK x : x = SetSSR(u, val)
    OBVIOUS
  <2>3. PICK to : to = IF fw.program = "transfer" THEN "rdrf" ELSE "sent"
    OBVIOUS
  <2>4. fw' = Go(to) /\ Become(x) /\ handler' = handler /\ fw.pc = "txput"
    BY <1>1, <1>8, <2>1, <2>2, <2>3 DEF Main, Instruct, Cleared
  <2>5. Loaded(u, n) /\ On(u, "TE") /\ "TDRE" \notin val /\ Raisable(u) = {}
    BY <1>3, <1>4, <2>1, <2>4 DEF Loaded, Emptied, Polling, Raisable, On
  <2>6. /\ Moves(x, u) /\ Given(x, n + 1) /\ x.req = u.req
        /\ x.sci.delayed \subseteq u.sci.delayed \cup Raisable(u)
        /\ "RDRF" \in x.sci.ssr => "RDRF" \in u.sci.ssr \/ "TDRE" \in x.sci.ssr
    BY <1>3, <2>2, <2>5, ClearingGives
  <2>7. Polling(x) /\ On(x, "TE") /\ x.sci.sync = u.sci.sync
    BY <1>3, <2>5, <2>6 DEF Polling, NoDma, On, Moves
  <2>8. Polled(x, Go(to), handler)
    BY <1>2, <1>3, <1>4, <2>3, <2>4, <2>6, <2>7, GoIs DEF Polled, PolledTo, PolledSteps
  <2> QED
    BY <2>4, <2>8, PolledAfter
<1>9. CASE "TDRE" \in Accessed.sci.ssr /\ CountByte("sent", Accessed)
  <2>1. PICK to : to = IF fw.n + 1 = Length THEN "done" ELSE FirstStep
    OBVIOUS
  <2>2. PICK g : g = [Go(to) EXCEPT !.n = @ + 1]
    OBVIOUS
  <2>3. /\ fw' = g /\ Become(u) /\ handler' = handler /\ fw.pc = "sent"
        /\ "TDRE" \in u.sci.ssr
    BY <1>1, <1>9, <2>1, <2>2 DEF CountByte, Instruct
  <2>4. g.pc = to /\ g.n = n + 1 /\ g.program = fw.program
    BY <1>2, <1>4, <2>2, GoIs DEF FwFields
  <2>5. to \in {"tdre", "done"} /\ fw.program = "write"
    BY <1>4, <2>1, <2>3 DEF FirstStep, PolledSteps
  <2>6. Emptied(u, n + 1) /\ Given(u, n + 1)
    BY <1>3, <1>4, <2>3, EmptiedIsGiven
  <2>7. Polled(u, g, handler)
    BY <1>3, <1>4, <2>3, <2>4, <2>5, <2>6 DEF Polled, PolledTo, PolledSteps
  <2> QED
    BY <2>3, <2>7, PolledAfter
<1>10. CASE "TDRE" \notin Accessed.sci.ssr /\ Main("sent", "sent", Accessed)
  <2>1. fw' = Go("sent") /\ Become(u) /\ handler' = handler /\ fw.pc = "sent"
    BY <1>1, <1>10 DEF Main, Instruct
  <2>2. Polled(u, Go("sent"), handler)
    BY <1>2, <1>3, <1>4, <2>1, GoIs DEF Polled, PolledTo, PolledSteps
  <2> QED
    BY <2>1, <2>2, PolledAfter
<1> QED
  BY <1>5, <1>6, <1>7, <1>8, <1>9, <1>10 DEF sciWrite

LEMMA PolledReads ==
  ASSUME IInv, Polled(World, fw, handler), fw.program \in {"transfer", "write"}, sciRead
  PROVE  Polled(World', fw', handler')
<1>1. PICK u : u = Accessed
  OBVIOUS
<1>2. PICK n : n = fw.n
  OBVIOUS
<1>3. /\ Fit(u) /\ Polling(u) /\ NotAsked(u) /\ n \in Nat
      /\ fw.program = "transfer" => u.sci.sync
      /\ fw.pc \notin {"ier", "unmask", "enable"} => On(u, "TE")
      /\ fw.pc = "rdrf" => Given(u, n + 1) /\ ("RDRF" \in u.sci.ssr => "TDRE" \in u.sci.ssr)
      /\ fw.pc \in {"fetch", "rxget", "rxput"} => Emptied(u, n + 1)
  BY <1>1, <1>2, PolledAccess
<1>4. /\ Orderly /\ Outside(handler) /\ n + 1 \in Nat /\ IsWorld(u)
      /\ fw.pc \in PolledSteps(fw)
      /\ fw.pc = "rxput" /\ fw.program \in Split => "TDRE" \in fw.tmp
  BY <1>2, <1>3 DEF IInv, Polled, PolledTo, Fit
<1>5. fw.pc \notin {"orer", "orget", "orput"}
  BY <1>4 DEF PolledSteps
<1>6. CASE WaitFor("RDRF", "rdrf", "fetch")
  <2>1. /\ fw' = Go(IF "RDRF" \in u.sci.ssr THEN "fetch" ELSE "rdrf")
        /\ Become(u) /\ handler' = handler /\ fw.pc = "rdrf"
    BY <1>1, <1>6 DEF WaitFor, Branch, Main, Instruct
  <2>2. PICK to : to = IF "RDRF" \in u.sci.ssr THEN "fetch" ELSE "rdrf"
    OBVIOUS
  <2>3. "RDRF" \in u.sci.ssr => Emptied(u, n + 1)
    BY <1>3, <1>4, <2>1, EmptiedIsGiven
  <2>4. Polled(u, Go(to), handler)
    BY <1>2, <1>3, <1>4, <2>1, <2>2, <2>3, GoIs DEF Polled, PolledTo, PolledSteps
  <2> QED
    BY <2>1, <2>2, <2>4, PolledAfter
<1>7. CASE Instruct("fetch", [Go(IF Splits THEN "rxget" ELSE "rxput")
                                EXCEPT !.got = Append(@, Accessed.sci.rdr)], Accessed)
  <2>1. PICK to : to = IF Splits THEN "rxget" ELSE "rxput"
    OBVIOUS
  <2>2. PICK a : a = Accessed.sci.rdr
    OBVIOUS
  <2>3. PICK g : g = [Go(to) EXCEPT !.got = Append(@, a)]
    OBVIOUS
  <2>4. fw' = g /\ Become(u) /\ handler' = handler /\ fw.pc = "fetch"
    BY <1>1, <1>7, <2>1, <2>2, <2>3 DEF Instruct
  <2>5. g.pc = to /\ g.n = n /\ g.program = fw.program
    BY <1>2, <1>4, <2>3, GoIs DEF FwFields
  <2>6. to = "rxget" \/ (to = "rxput" /\ fw.program \notin Split)
    BY <2>1 DEF Splits
  <2>7. Polled(u, g, handler)
    BY <1>3, <1>4, <2>4, <2>5, <2>6 DEF Polled, PolledTo, PolledSteps
  <2> QED
    BY <2>4, <2>7, PolledAfter
<1>8. CASE ReadSSR("rxget", "rxput")
  <2>1. PICK t : t = u.sci.ssr
    OBVIOUS
  <2>2. PICK g : g = [Go("rxput") EXCEPT !.tmp = t]
    OBVIOUS
  <2>3. fw' = g /\ Become(u) /\ handler' = handler /\ fw.pc = "rxget"
    BY <1>1, <1>8, <2>1, <2>2 DEF ReadSSR, Instruct
  <2>4. g.pc = "rxput" /\ g.n = n /\ g.program = fw.program /\ g.tmp = t
    BY <1>2, <1>4, <2>2, GoIs DEF FwFields
  <2>5. "TDRE" \in t
    BY <1>3, <2>1, <2>3 DEF Emptied
  <2>6. Polled(u, g, handler)
    BY <1>3, <1>4, <2>3, <2>4, <2>5 DEF Polled, PolledTo, PolledSteps
  <2> QED
    BY <2>3, <2>6, PolledAfter
<1>9. CASE CountByte("rxput", Cleared("RDRF"))
  <2>1. PICK val : val = (IF Splits THEN fw.tmp ELSE u.sci.ssr) \ {"RDRF"}
    OBVIOUS
  <2>2. PICK x : x = SetSSR(u, val)
    OBVIOUS
  <2>3. PICK to : to = IF fw.n + 1 = Length THEN "done" ELSE FirstStep
    OBVIOUS
  <2>4. PICK g : g = [Go(to) EXCEPT !.n = @ + 1]
    OBVIOUS
  <2>5. fw' = g /\ Become(x) /\ handler' = handler /\ fw.pc = "rxput"
    BY <1>1, <1>9, <2>1, <2>2, <2>3, <2>4 DEF CountByte, Instruct, Cleared
  <2>6. g.pc = to /\ g.n = n + 1 /\ g.program = fw.program
    BY <1>2, <1>4, <2>4, GoIs DEF FwFields
  <2>7. to \in {"tdre", "done"}
    BY <2>3 DEF FirstStep
  <2>8. Emptied(u, n + 1) /\ On(u, "TE") /\ "TDRE" \in val /\ "RDRF" \notin val
    BY <1>3, <1>4, <2>1, <2>5 DEF Emptied, Splits
  <2>9. /\ Moves(x, u) /\ x.req = u.req /\ x.dev = u.dev /\ x.sci.delayed = u.sci.delayed
        /\ "TDRE" \in x.sci.ssr <=> "TDRE" \in u.sci.ssr
        /\ "RDRF" \notin x.sci.ssr
    BY <1>3, <2>2, <2>8, ClearingKeeps
  <2>10. /\ Polling(x) /\ On(x, "TE") /\ x.sci.sync = u.sci.sync /\ Emptied(x, n + 1)
         /\ Given(x, n + 1)
    BY <1>3, <1>4, <2>8, <2>9, EmptiedIsGiven DEF Polling, NoDma, On, Moves, Emptied
  <2>11. Polled(x, g, handler)
    BY <1>3, <1>4, <2>5, <2>6, <2>7, <2>9, <2>10 DEF Polled, PolledTo, PolledSteps
  <2> QED
    BY <2>5, <2>11, PolledAfter
<1> QED
  BY <1>5, <1>6, <1>7, <1>8, <1>9
  DEF sciRead, Branch, Main, Instruct, ReadSSR

LEMMA PolledStarts ==
  ASSUME IInv, Polled(World, fw, handler), fw.program \in {"transfer", "write"}, Start
  PROVE  Polled(World', fw', handler')
<1>1. PICK w : w = World
  OBVIOUS
<1>2. /\ Orderly /\ Outside(handler) /\ Polling(w) /\ PolledTo(w, fw) /\ fw.n \in Nat
      /\ fw.program = "transfer" => w.sci.sync
  BY <1>1 DEF IInv, Polled
<1>3. CASE /\ Instruct("ier", Go("unmask"), WriteIER(TRUE))
           /\ irq' = [irq EXCEPT !.enable = TRUE]
  <2>1. PICK x : x = WriteIER(TRUE)
    OBVIOUS
  <2>2. fw' = Go("unmask") /\ Become(x) /\ handler' = handler /\ fw.pc = "ier"
    BY <1>3, <2>1 DEF Instruct
  <2>3. /\ x.sci = w.sci /\ x.dev = w.dev /\ x.dma = w.dma /\ x.dtc = w.dtc
        /\ x.req \subseteq {"IRQ0"}
    BY <1>1, <1>2, <2>1, WorldIs DEF WriteIER, Polling, WorldFields
  <2>4. Unstarted(w) /\ fw.n = 0
    BY <1>2, <2>2 DEF PolledTo
  <2>5. Unstarted(x) /\ Polling(x) /\ x.sci.sync = w.sci.sync
    BY <1>2, <2>3, <2>4 DEF Unstarted, Polling, NoDma
  <2>6. Polled(x, Go("unmask"), handler)
    BY <1>2, <2>4, <2>5, GoIs DEF Polled, PolledTo, PolledSteps
  <2> QED
    BY <2>2, <2>6, PolledAfter
<1>4. CASE Unmask
  <2>1. /\ fw' = Go("enable") /\ Become(w) /\ handler' = handler /\ fw.pc = "unmask"
    BY <1>1, <1>4, WorldIs DEF Unmask, Polls, world, Become
  <2>2. Unstarted(w) /\ fw.n = 0
    BY <1>2, <2>1 DEF PolledTo
  <2>3. Polled(w, Go("enable"), handler)
    BY <1>2, <2>2, GoIs DEF Polled, PolledTo, PolledSteps
  <2> QED
    BY <2>1, <2>3, PolledAfter
<1>5. CASE Main("enable", FirstStep, SetSCR(Accessed, Directions))
  <2>1. PICK u : u = Accessed
    OBVIOUS
  <2>2. PICK val : val = Directions
    OBVIOUS
  <2>3. PICK x : x = SetSCR(u, val)
    OBVIOUS
  <2>4. fw' = Go("tdre") /\ Become(x) /\ handler' = handler /\ fw.pc = "enable"
    BY <1>5, <2>1, <2>2, <2>3 DEF Main, Instruct, FirstStep
  <2>5. /\ Polling(u) /\ Unstarted(u) /\ fw.n = 0 /\ IsWorld(u)
        /\ fw.program = "transfer" => u.sci.sync
    BY <2>1, <2>4, PolledAccess DEF Fit
  <2>6. "TE" \in val /\ val \subseteq {"TE", "RE"}
    BY <2>2 DEF Directions, Transmits
  <2>7. Untouched(x, u) /\ x.sci.scr = val /\ x.req = u.req /\ x.sci.ssr = u.sci.ssr
    <3>1. IsWorld(u) /\ "TIE" \notin val /\ "TE" \in val
      BY <2>5, <2>6
    <3> HIDE <2>5, <2>6
    <3> QED
      BY <2>3, <3>1, SetSCRIs
  <2>8. /\ Polling(x) /\ On(x, "TE") /\ Emptied(x, 0) /\ x.sci.sync = u.sci.sync
        /\ "RDRF" \notin x.sci.ssr
    BY <2>5, <2>6, <2>7, PrefixOfNone
    DEF Polling, NoDma, On, Emptied, Unstarted, Untouched
  <2>9. Polled(x, Go("tdre"), handler)
    BY <1>2, <2>5, <2>8, GoIs DEF Polled, PolledTo, PolledSteps
  <2> QED
    BY <2>4, <2>9, PolledAfter
<1> QED
  BY <1>3, <1>4, <1>5 DEF Start

LEMMA PolledInstruction ==
  ASSUME IInv, Polled(World, fw, handler), fw.program \in {"transfer", "write"}, Instruction
  PROVE  Polled(World', fw', handler')
<1>1. /\ Orderly /\ Outside(handler) /\ fw.pc \in PolledSteps(fw)
  BY DEF IInv, Polled
<1>2. CASE HaveMoved
  BY <1>1, <1>2 DEF HaveMoved, Main, Instruct, WaitFor, Branch, PolledSteps
<1>3. CASE Finished
  <2>1. fw' = Go("done") /\ Become(World) /\ handler' = handler /\ fw.pc = "done"
    BY <1>3 DEF Finished, Main, Instruct
  <2>2. Polled(World, Go("done"), handler)
    <3>1. PICK w : w = World
      OBVIOUS
    <3>2. Polled(w, fw, handler)
      BY <3>1
    <3>3. Polled(w, Go("done"), handler)
      BY <1>1, <2>1, <3>2, GoIs DEF Polled, PolledTo, PolledSteps
    <3> QED
      BY <3>1, <3>3
  <2> QED
    BY <2>1, <2>2, PolledAfter
<1>4. CASE HandleIrq
  <2>1. /\ fw' = fw /\ Become(World) /\ handler' = [handler EXCEPT !.pc = "rte"]
    BY <1>4 DEF HandleIrq, Handle
  <2>2. handler'.source = handler.source
    BY <1>1, <2>1 DEF Orderly
  <2>3. Polled(World, fw, handler')
    BY <1>1, <2>2 DEF Polled, Outside
  <2> QED
    BY <2>1, <2>3, PolledAfter
<1>5. CASE HandleEnd
  BY <1>1, <1>5 DEF HandleEnd, Outside
<1>6. CASE Return
  <2>1. fw' = fw /\ Become(World) /\ handler'.source = "none"
    BY <1>6, WorldIs DEF Return, NoHandler, world, Become
  <2>2. Polled(World, fw, handler')
    BY <1>1, <2>1 DEF Polled, Outside
  <2> QED
    BY <2>1, <2>2, PolledAfter
<1> QED
  BY <1>2, <1>3, <1>4, <1>5, <1>6, PolledStarts, PolledWrites, PolledReads
  DEF Instruction

(* The loop does nothing for a program that polls but let time pass and    *)
(* serve external interrupts. *)
LEMMA PolledStep ==
  ASSUME IInv, Polled(World, fw, handler), fw.program \in {"transfer", "write"},
         [Next]_vars
  PROVE  Polled(World', fw', handler')
<1>1. PICK w : w = World
  OBVIOUS
<1>2. /\ Polled(w, fw, handler) /\ Polling(w) /\ Outside(handler)
      /\ w.req = req /\ DOMAIN w = WorldFields
  BY <1>1, WorldIs DEF Polled
<1>3. CASE TransferByDma
  <2>1. transfer(w) = w
    BY <1>2, TransferWaits DEF Polling, NoDma
  <2> QED
    BY <1>1, <1>2, <1>3, <2>1, PolledAfter DEF TransferByDma
<1>4. CASE ServeRequests
  <2>1. updateDTC(w) = [w |-> w, triggered |-> FALSE]
    BY <1>2, NoneAsked DEF Polling
  <2>2. serviceInterrupt(w) /\ fw' = fw
    BY <1>1, <1>4, <2>1 DEF ServeRequests, InterruptUnless
  <2>3. CASE Become(w) /\ handler' = handler
    BY <1>2, <2>2, <2>3, PolledAfter
  <2>4. CASE ~(Become(w) /\ handler' = handler)
    <3>1. PICK x : /\ w.req # {} /\ handler' = [source |-> Lowest(w.req), pc |-> "enter"]
                   /\ Become(x) /\ Alike(x, w) /\ x.req = w.req \ {Lowest(w.req)}
      BY <1>2, <2>2, <2>4, RequestServed
    <3>2. Lowest(w.req) = "IRQ0" /\ x.req \subseteq {"IRQ0"}
      BY <1>2, <3>1, LowestIs DEF Polling
    <3>3. Polled(w, fw, handler')
      BY <1>2, <3>1, <3>2 DEF Polled, Outside
    <3>4. Polled(x, fw, handler')
      BY <3>1, <3>2, <3>3, PolledUnless
    <3> QED
      BY <2>2, <3>1, <3>4, PolledAfter
  <2> QED
    BY <2>3, <2>4
<1>5. CASE Instruction
  BY <1>5, PolledInstruction
<1>6. CASE UpdatePeripherals
  <2>1. PICK e : Alike(e, w) /\ e.req = w.req /\ Become(updateForInterrupts(e))
    BY <1>1, <1>2, <1>6, ElapsedIs
  <2>2. Become(e)
    BY <1>2, <2>1 DEF updateForInterrupts, Alike, Polling, InterruptEnables
  <2>3. Polled(e, fw, handler)
    BY <1>2, <2>1, PolledUnless DEF Polling
  <2> QED
    BY <1>6, <2>2, <2>3, PolledAfter DEF UpdatePeripherals
<1>7. CASE externalInterrupt \/ DeviceInput \/ UNCHANGED vars
  <2>1. PICK v : v = World'
    OBVIOUS
  <2>2. /\ Alike(v, w) /\ v.req \subseteq w.req \cup {"IRQ0"}
        /\ fw' = fw /\ handler' = handler
    BY <1>1, <1>2, <1>7, <2>1, OthersPass
  <2>3. Polled(v, fw, handler)
    BY <1>2, <2>2, PolledUnless DEF Polling
  <2> QED
    BY <2>1, <2>2, <2>3
<1> QED
  BY <1>3, <1>4, <1>5, <1>6, <1>7 DEF Next, Loop

-----------------------------------------------------------------------------
(* A program that has the DMA controller move the message.                 *)

Late == {"wait", "drain", "done"}

ByDma(w, f, h) ==
  /\ f.pc \in {"ier", "unmask", "setup", "go"} \cup Late
  /\ w.dtc.enabled = {} /\ Holds(w) /\ DOMAIN w.dma = SubChannels
  /\ h.source # "none" => h.pc \in {"enter", "rte"}
  /\ f.pc \notin Late => Unstarted(w) /\ Outside(h)
  /\ f.pc \in {"ier", "unmask", "setup"} => NoDma(w)
  /\ f.pc = "go" => Channels(w) /\ w.dma["A"].count = Length
  /\ f.pc \in Late => DmaRuns(w)

LEMMA RunsUnless ==
  ASSUME NEW w, NEW v, DmaRuns(w), Alike(v, w), v.req \subseteq w.req \cup {"IRQ0"}
  PROVE  DmaRuns(v)
<1>1. /\ On(v, "TE") /\ Channels(v) /\ Holds(v) /\ Given(v, Length - w.dma["A"].count)
  BY AlikeIs DEF DmaRuns
<1>2. ~On(v, "TEIE") /\ v.dma = w.dma
  BY DEF DmaRuns, Alike, On
<1>3. AskedOnce(v)
  BY DEF DmaRuns, AskedOnce, Alike
<1> QED
  BY <1>1, <1>2, <1>3 DEF DmaRuns

LEMMA ByDmaUnless ==
  ASSUME NEW w, NEW v, NEW f, NEW h, ByDma(w, f, h), Alike(v, w),
         v.req \subseteq w.req \cup {"IRQ0"}
  PROVE  ByDma(v, f, h)
<1>1. /\ Holds(v) /\ (NoDma(w) => NoDma(v)) /\ (Channels(w) => Channels(v))
  BY AlikeIs DEF ByDma
<1>2. Unstarted(w) => Unstarted(v)
  BY DEF Unstarted, Alike
<1>3. v.dma = w.dma /\ v.dtc = w.dtc
  BY DEF Alike
<1> QED
  BY <1>1, <1>2, <1>3, RunsUnless DEF ByDma

LEMMA ByDmaAfter ==
  ASSUME NEW w, NEW f, NEW h, Become(w), ByDma(w, f, h)
  PROVE  ByDma(World', f, h)
BY BecomeIsAlike, ByDmaUnless

LEMMA DmaSetupIs ==
  ASSUME IInv, Unstarted(World), Holds(World), DOMAIN dma = SubChannels
  PROVE  /\ Unstarted(DmaSetup) /\ Holds(DmaSetup) /\ Channels(DmaSetup)
         /\ DmaSetup.dma["A"].count = Length /\ DmaSetup.dtc = dtc
<1>1. PICK w : w = World
  OBVIOUS
<1>2. PICK c : c = [NoChannel EXCEPT !.dte = TRUE, !.dta = TRUE, !.dtie = TRUE,
                                     !.count = Length]
  OBVIOUS
<1>3. PICK a : a = [c EXCEPT !.trigger = "TXI", !.mem = 1, !.io = TDR]
  OBVIOUS
<1>4. PICK b : b = [c EXCEPT !.trigger = "RXI", !.toMem = TRUE,
                             !.mem = Received1, !.io = RDR]
  OBVIOUS
<1>5. PICK x : x = [w EXCEPT !.dma.A = a, !.dma.B = b]
  OBVIOUS
<1>6. DmaSetup = x
  BY <1>1, <1>2, <1>3, <1>4, <1>5 DEF DmaSetup
<1>7. /\ DOMAIN w = WorldFields /\ DOMAIN w.dma = SubChannels /\ w.dtc = dtc
  BY <1>1, WorldIs
<1>8. /\ x.sci = w.sci /\ x.dev = w.dev /\ x.req = w.req /\ x.mem = w.mem /\ x.dtc = w.dtc
      /\ DOMAIN x.dma = SubChannels /\ x.dma["A"] = a /\ x.dma["B"] = b
  BY <1>5, <1>7 DEF WorldFields, SubChannels
<1>9. /\ DOMAIN c = ChannelFields /\ c.dta /\ c.rpe = FALSE /\ c.dtid = FALSE
      /\ c.toMem = FALSE /\ c.count = Length
  BY <1>2 DEF NoChannel, ChannelFields
<1>10. Length \in Nat /\ Length > 0 /\ 1 = Length + 1 - Length
       /\ Received1 = 2 * Length + 1 - Length
  BY CpuAssumption DEF Received1
<1>11. Counting(a) /\ Outgoing(a) /\ a.count = Length
  BY <1>3, <1>9, <1>10 DEF Counting, Outgoing, ChannelFields
<1>12. Counting(b) /\ Incoming(b)
  BY <1>4, <1>9, <1>10 DEF Counting, Incoming, ChannelFields
<1> QED
  BY <1>1, <1>6, <1>7, <1>8, <1>11, <1>12 DEF Unstarted, Holds, Channels

(* The transmitter is enabled, and asks for the first byte. *)
LEMMA EnabledAsks ==
  ASSUME NEW w, Fit(w), Unstarted(w), NEW val, "TE" \in val, "TIE" \in val
  PROVE  /\ SetSCR(w, val).sci.scr = val /\ SetSCR(w, val).req = w.req \cup {"TXI"}
         /\ SetSCR(w, val).sci.delayed = {} /\ AskedOnce(SetSCR(w, val))
         /\ Given(SetSCR(w, val), 0)
         /\ SetSCR(w, val).mem = w.mem /\ SetSCR(w, val).dma = w.dma
         /\ SetSCR(w, val).dtc = w.dtc
<1>1. PICK x : x = SetSCR(w, val)
  OBVIOUS
<1>2. IsWorld(w)
  BY DEF Fit
<1>3. "TIE" \in val \ w.sci.scr /\ "TDRE" \in w.sci.ssr
  BY DEF Unstarted
<1>4. /\ Untouched(x, w) /\ x.sci.scr = val /\ x.req = w.req \cup {"TXI"}
      /\ x.sci.ssr = w.sci.ssr
  BY <1>1, <1>2, <1>3, SetSCRIs
<1>5. /\ x.sci.delayed = {} /\ x.dev.wrote = << >> /\ "TDRE" \in x.sci.ssr
      /\ x.mem = w.mem /\ x.dma = w.dma /\ x.dtc = w.dtc
  BY <1>4 DEF Untouched, Unstarted
<1> QED
  BY <1>1, <1>4, <1>5, PrefixOfNone DEF AskedOnce, Given

(* An interrupt is disabled, and nothing else happens. *)
LEMMA DisabledIs ==
  ASSUME NEW w, Fit(w), On(w, "TE"), NEW bit, bit # "TE"
  PROVE  /\ SetSCR(w, w.sci.scr \ {bit}).sci.scr = w.sci.scr \ {bit}
         /\ SetSCR(w, w.sci.scr \ {bit}).req = w.req
         /\ SetSCR(w, w.sci.scr \ {bit}).sci.ssr = w.sci.ssr
         /\ SetSCR(w, w.sci.scr \ {bit}).sci.tdr = w.sci.tdr
         /\ SetSCR(w, w.sci.scr \ {bit}).sci.delayed = w.sci.delayed
         /\ SetSCR(w, w.sci.scr \ {bit}).dev = w.dev
         /\ SetSCR(w, w.sci.scr \ {bit}).mem = w.mem
         /\ SetSCR(w, w.sci.scr \ {bit}).dma = w.dma
         /\ SetSCR(w, w.sci.scr \ {bit}).dtc = w.dtc
<1>1. PICK val : val = w.sci.scr \ {bit}
  OBVIOUS
<1>2. IsWorld(w) /\ "TE" \in val /\ "TIE" \notin val \ w.sci.scr
  BY <1>1 DEF Fit, On
<1>3. /\ Untouched(SetSCR(w, val), w) /\ SetSCR(w, val).sci.scr = val
      /\ SetSCR(w, val).req = w.req /\ SetSCR(w, val).sci.ssr = w.sci.ssr
      /\ SetSCR(w, val).sci.tdr = w.sci.tdr
  BY <1>2, SetSCRIs
<1> QED
  BY <1>1, <1>3 DEF Untouched

LEMMA DmaFirmware ==
  ASSUME IInv, ByDma(World, fw, handler), fw.program \in {"dma", "dmaAsync"},
         Start \/ sciWrite \/ sciRead \/ HaveMoved \/ Finished
  PROVE  ByDma(World', fw', handler')
<1>1. PICK w : w = World
  OBVIOUS
<1>2. PICK u : u = Accessed
  OBVIOUS
<1>3. /\ ByDma(w, fw, handler) /\ Fit(w) /\ Orderly /\ u = update(w)
      /\ w.sci = sci /\ w.dma = dma /\ w.dtc = dtc /\ w.req = req
  BY <1>1, <1>2, WorldIs DEF IInv, Accessed
<1>4. /\ fw.pc \in {"ier", "unmask", "setup", "go"} \cup Late
      /\ w.dtc.enabled = {} /\ Holds(w) /\ DOMAIN w.dma = SubChannels
      /\ fw.pc \notin Late => Unstarted(w) /\ Outside(handler)
      /\ fw.pc \in {"ier", "unmask", "setup"} => NoDma(w)
      /\ fw.pc = "go" => Channels(w) /\ w.dma["A"].count = Length
      /\ fw.pc \in Late => DmaRuns(w)
      /\ handler.source # "none" => handler.pc \in {"enter", "rte"}
  BY <1>3 DEF ByDma
<1>5. CASE Start
  <2>1. fw.pc # "enable"
    BY <1>4 DEF Late
  <2>2. CASE Instruct("ier", Go("unmask"), WriteIER(TRUE))
    <3>1. PICK x : x = WriteIER(TRUE)
      OBVIOUS
    <3>2. fw' = Go("unmask") /\ Become(x) /\ handler' = handler /\ fw.pc = "ier"
      BY <2>2, <3>1 DEF Instruct
    <3>3. Alike(x, w) /\ x.req \subseteq w.req \cup {"IRQ0"}
      BY <1>1, <1>3, <3>1, WorldIs DEF WriteIER, Alike, WorldFields
    <3>4. ByDma(w, Go("unmask"), handler)
      BY <1>3, <1>4, <3>2, GoIs DEF ByDma, Late
    <3>5. ByDma(x, Go("unmask"), handler)
      BY <3>3, <3>4, ByDmaUnless
    <3> QED
      BY <3>2, <3>5, ByDmaAfter
  <2>3. CASE Unmask
    <3>1. fw' = Go("setup") /\ Become(w) /\ handler' = handler /\ fw.pc = "unmask"
      BY <1>1, <2>3, WorldIs DEF Unmask, Polls, world, Become
    <3>2. ByDma(w, Go("setup"), handler)
      BY <1>3, <1>4, <3>1, GoIs DEF ByDma, Late
    <3> QED
      BY <3>1, <3>2, ByDmaAfter
  <2> QED
    BY <1>5, <2>1, <2>2, <2>3 DEF Start, Main, Instruct
<1>6. CASE sciWrite
  BY <1>4, <1>6 DEF sciWrite, WaitFor, Branch, Main, Instruct, ReadSSR, CountByte, Late
<1>7. CASE sciRead
  BY <1>4, <1>7 DEF sciRead, WaitFor, Branch, Main, Instruct, ReadSSR, CountByte, Late
<1>8. CASE HaveMoved
  <2>1. CASE Main("setup", "go", IF fw.program \in {"dma", "dmaAsync"}
                                 THEN DmaSetup ELSE DtcSetup)
    <3>1. PICK x : x = DmaSetup
      OBVIOUS
    <3>2. fw' = Go("go") /\ Become(x) /\ handler' = handler /\ fw.pc = "setup"
      BY <2>1, <3>1 DEF Main, Instruct
    <3>3. /\ Unstarted(x) /\ Holds(x) /\ Channels(x) /\ x.dma["A"].count = Length
          /\ x.dtc = w.dtc
      BY <1>1, <1>3, <1>4, <3>1, <3>2, DmaSetupIs DEF Late
    <3>4. ByDma(x, Go("go"), handler)
      BY <1>3, <1>4, <3>2, <3>3, GoIs DEF ByDma, Late, Channels
    <3> QED
      BY <3>2, <3>4, ByDmaAfter
  <2>2. CASE Main("go", "wait", SetSCR(Accessed, Directions \cup Enables))
    <3>1. PICK val : val = Directions \cup Enables
      OBVIOUS
    <3>2. PICK x : x = SetSCR(u, val)
      OBVIOUS
    <3>3. fw' = Go("wait") /\ Become(x) /\ handler' = handler /\ fw.pc = "go"
      BY <1>2, <2>2, <3>1, <3>2 DEF Main, Instruct
    <3>4. "TE" \in val /\ "TIE" \in val /\ "TEIE" \notin val
      BY <3>1 DEF Directions, Enables, Transmits
    <3>5. Unstarted(u) /\ Moves(u, w) /\ Fit(u)
      BY <1>3, <1>4, <3>3, UnstartedUpdate DEF Late
    <3>6. /\ x.sci.scr = val /\ AskedOnce(x) /\ Given(x, 0)
          /\ x.mem = u.mem /\ x.dma = u.dma /\ x.dtc = u.dtc
      BY <3>2, <3>4, <3>5, EnabledAsks
    <3>7. x.mem = w.mem /\ x.dma = w.dma /\ x.dtc = w.dtc
      BY <3>5, <3>6 DEF Moves
    <3>8. DmaRuns(x)
      <4>1. Length - w.dma["A"].count = 0 /\ Channels(w)
        BY <1>4, <3>3, CpuAssumption
      <4> QED
        BY <1>4, <3>4, <3>6, <3>7, <4>1 DEF DmaRuns, On, Holds, Channels
    <3>9. ByDma(x, Go("wait"), handler)
      BY <1>3, <1>4, <3>7, <3>8, GoIs DEF ByDma, Late, Holds
    <3> QED
      BY <3>3, <3>9, ByDmaAfter
  <2>3. CASE \E to \in Late : Main("wait", to, World)
    <3>1. PICK to \in Late : fw' = Go(to) /\ Become(w) /\ handler' = handler /\ fw.pc = "wait"
      BY <1>1, <2>3 DEF Main, Instruct
    <3>2. ByDma(w, Go(to), handler)
      BY <1>3, <1>4, <3>1, GoIs DEF ByDma, Late
    <3> QED
      BY <3>1, <3>2, ByDmaAfter
  <2>4. CASE WaitFor("TDRE", "drain", "done")
    <3>1. PICK to \in Late : fw' = Go(to) /\ Become(u) /\ handler' = handler /\ fw.pc = "drain"
      BY <1>2, <2>4 DEF WaitFor, Branch, Main, Instruct, Late
    <3>2. DmaRuns(u) /\ u.dtc = w.dtc
      BY <1>3, <1>4, <3>1, UpdateRuns, UpdateFits DEF Late, Keeps
    <3>3. ByDma(u, Go(to), handler)
      BY <1>3, <1>4, <3>1, <3>2, GoIs DEF ByDma, Late, DmaRuns, Channels
    <3> QED
      BY <3>1, <3>3, ByDmaAfter
  <2> QED
    BY <1>8, <2>1, <2>2, <2>3, <2>4 DEF HaveMoved, Late
<1>9. CASE Finished
  <2>1. fw' = Go("done") /\ Become(w) /\ handler' = handler /\ fw.pc = "done"
    BY <1>1, <1>9 DEF Finished, Main, Instruct
  <2>2. ByDma(w, Go("done"), handler)
    BY <1>3, <1>4, <2>1, GoIs DEF ByDma, Late
  <2> QED
    BY <2>1, <2>2, ByDmaAfter
<1> QED
  BY <1>5, <1>6, <1>7, <1>8, <1>9

LEMMA DmaHandlers ==
  ASSUME IInv, ByDma(World, fw, handler), fw.program \in {"dma", "dmaAsync"},
         HandleIrq \/ HandleEnd \/ Return
  PROVE  ByDma(World', fw', handler')
<1>1. PICK w : w = World
  OBVIOUS
<1>2. /\ ByDma(w, fw, handler) /\ Fit(w) /\ Orderly /\ w.sci = sci
  BY <1>1, WorldIs DEF IInv
<1>3. CASE HandleIrq
  <2>1. fw' = fw /\ Become(w) /\ handler' = [handler EXCEPT !.pc = "rte"]
    BY <1>1, <1>3 DEF HandleIrq, Handle
  <2>2. handler'.source = handler.source /\ handler'.pc = "rte"
    BY <1>2, <2>1 DEF Orderly
  <2>3. ByDma(w, fw, handler')
    BY <1>2, <2>2 DEF ByDma, Outside
  <2> QED
    BY <2>1, <2>3, ByDmaAfter
<1>4. CASE HandleEnd
  <2>1. PICK u : u = Accessed
    OBVIOUS
  <2>2. /\ handler.source \notin {"none", "IRQ0"} /\ handler.pc \notin {"get", "put"}
        /\ fw.pc \in Late /\ DmaRuns(w)
    BY <1>2, <1>4 DEF HandleEnd, ByDma, Outside
  <2>3. PICK bit : bit = IF Direction = {"TE"} THEN "TIE" ELSE "RIE"
    OBVIOUS
  <2>4. PICK x : x = SetSCR(u, u.sci.scr \ {bit})
    OBVIOUS
  <2>5. DmaRuns(u) /\ Fit(u) /\ u.dtc = w.dtc /\ u.sci.scr = w.sci.scr
    BY <1>1, <1>2, <2>1, <2>2, UpdateRuns, UpdateFits DEF Accessed, Keeps
  <2>6. Stopped = u.sci.scr \ {bit}
    BY <1>2, <2>3, <2>5 DEF Stopped
  <2>7. /\ Become(x) /\ handler' = [handler EXCEPT !.pc = "rte"]
        /\ fw' = (IF handler.source \in {"DEND1A", "DEND1B"} THEN Ended(Direction) ELSE fw)
    BY <1>4, <2>1, <2>2, <2>4, <2>6 DEF HandleEnd, Handle, IsDtc
  <2>8. /\ x.sci.scr = u.sci.scr \ {bit} /\ x.req = u.req /\ x.sci.ssr = u.sci.ssr
        /\ x.sci.tdr = u.sci.tdr /\ x.sci.delayed = u.sci.delayed /\ x.dev = u.dev
        /\ x.mem = u.mem /\ x.dma = u.dma /\ x.dtc = u.dtc
    <3>1. bit # "TE" /\ Fit(u) /\ On(u, "TE")
      BY <2>3, <2>5 DEF DmaRuns
    <3> HIDE <2>5
    <3> QED
      BY <2>4, <3>1, DisabledIs, Z3
  <2>9. DmaRuns(x)
    BY <2>3, <2>5, <2>8 DEF DmaRuns, On, Channels, Holds, Given, AskedOnce
  <2>10. fw'.pc = fw.pc
    BY <1>2, <2>7 DEF Ended, Orderly, FwFields
  <2>11. handler'.source = handler.source /\ handler'.pc = "rte"
    BY <1>2, <2>7 DEF Orderly
  <2>12. ByDma(x, fw', handler')
    BY <1>2, <2>2, <2>5, <2>8, <2>9, <2>10, <2>11 DEF ByDma, Late, DmaRuns, Channels
  <2> QED
    BY <2>7, <2>12, ByDmaAfter
<1>5. CASE Return
  <2>1. fw' = fw /\ Become(w) /\ handler'.source = "none"
    BY <1>1, <1>5, WorldIs DEF Return, NoHandler, world, Become
  <2>2. ByDma(w, fw, handler')
    BY <1>2, <2>1 DEF ByDma, Outside
  <2> QED
    BY <2>1, <2>2, ByDmaAfter
<1> QED
  BY <1>3, <1>4, <1>5

LEMMA DmaStep ==
  ASSUME IInv, ByDma(World, fw, handler), fw.program \in {"dma", "dmaAsync"},
         [Next]_vars
  PROVE  ByDma(World', fw', handler')
<1>1. PICK w : w = World
  OBVIOUS
<1>2. /\ ByDma(w, fw, handler) /\ Fit(w) /\ w.req = req /\ DOMAIN w = WorldFields
  BY <1>1, WorldIs DEF IInv
<1>3. CASE TransferByDma
  <2>1. PICK x : x = transfer(w)
    OBVIOUS
  <2>2. Become(x) /\ fw' = fw /\ handler' = handler
    BY <1>1, <1>3, <2>1 DEF TransferByDma
  <2>3. CASE fw.pc \in Late
    <3>1. DmaRuns(x) /\ x.dtc = w.dtc
      BY <1>2, <2>1, <2>3, TransferRuns, TransferFits DEF ByDma, Keeps
    <3>2. ByDma(x, fw, handler)
      BY <1>2, <2>3, <3>1 DEF ByDma, DmaRuns, Channels, Late
    <3> QED
      BY <2>2, <3>2, ByDmaAfter
  <2>4. CASE fw.pc \notin Late
    <3>1. x = w
      BY <1>2, <2>1, <2>4, TransferWaits DEF ByDma, Unstarted, NoDma
    <3> QED
      BY <1>2, <2>2, <3>1, ByDmaAfter
  <2> QED
    BY <2>3, <2>4
<1>4. CASE ServeRequests
  <2>1. updateDTC(w) = [w |-> w, triggered |-> FALSE]
    BY <1>2, NoneAsked DEF ByDma
  <2>2. serviceInterrupt(w) /\ fw' = fw
    BY <1>1, <1>4, <2>1 DEF ServeRequests, InterruptUnless
  <2>3. CASE Become(w) /\ handler' = handler
    BY <1>2, <2>2, <2>3, ByDmaAfter
  <2>4. CASE ~(Become(w) /\ handler' = handler)
    <3>1. PICK x : /\ w.req # {} /\ handler' = [source |-> Lowest(w.req), pc |-> "enter"]
                   /\ Become(x) /\ Alike(x, w) /\ x.req = w.req \ {Lowest(w.req)}
      BY <1>2, <2>2, <2>4, RequestServed
    <3>2. fw.pc \notin Late => Lowest(w.req) = "IRQ0"
      BY <1>2, <3>1, LowestIs DEF ByDma, Unstarted
    <3>3. ByDma(w, fw, handler')
      BY <1>2, <3>1, <3>2 DEF ByDma, Outside
    <3>4. ByDma(x, fw, handler')
      BY <3>1, <3>3, ByDmaUnless
    <3> QED
      BY <2>2, <3>1, <3>4, ByDmaAfter
  <2> QED
    BY <2>3, <2>4
<1>5. CASE Instruction
  BY <1>5, DmaFirmware, DmaHandlers DEF Instruction
<1>6. CASE UpdatePeripherals
  <2>1. PICK e : Fit(e) /\ Alike(e, w) /\ e.req = w.req /\ Become(updateForInterrupts(e))
    BY <1>1, <1>2, <1>6, ElapsedIs
  <2>2. ByDma(e, fw, handler)
    BY <1>2, <2>1, ByDmaUnless
  <2>3. CASE updateForInterrupts(e) = e
    BY <1>6, <2>1, <2>2, <2>3, ByDmaAfter DEF UpdatePeripherals
  <2>4. CASE updateForInterrupts(e) # e
    <3>1. updateForInterrupts(e) = update(e) /\ e.sci.scr # {}
      BY <2>4 DEF updateForInterrupts
    <3>2. fw.pc \in Late /\ DmaRuns(e)
      BY <2>2, <3>1 DEF ByDma, Unstarted
    <3>3. PICK x : x = update(e)
      OBVIOUS
    <3>4. DmaRuns(x) /\ x.dtc = e.dtc
      BY <2>1, <3>2, <3>3, UpdateRuns, UpdateFits DEF Keeps
    <3>5. ByDma(x, fw, handler)
      BY <2>2, <3>2, <3>4 DEF ByDma, DmaRuns, Channels, Late
    <3> QED
      BY <1>6, <2>1, <3>1, <3>3, <3>5, ByDmaAfter DEF UpdatePeripherals
  <2> QED
    BY <2>3, <2>4
<1>7. CASE externalInterrupt \/ DeviceInput \/ UNCHANGED vars
  <2>1. PICK v : v = World'
    OBVIOUS
  <2>2. /\ Alike(v, w) /\ v.req \subseteq w.req \cup {"IRQ0"}
        /\ fw' = fw /\ handler' = handler
    BY <1>1, <1>2, <1>7, <2>1, OthersPass
  <2>3. ByDma(v, fw, handler)
    BY <1>2, <2>2, ByDmaUnless
  <2> QED
    BY <2>1, <2>2, <2>3
<1> QED
  BY <1>3, <1>4, <1>5, <1>6, <1>7 DEF Next, Loop

-----------------------------------------------------------------------------
(* A program that has the DTC move the message.  The last byte is given to *)
(* the port by the handler of its interrupt. *)

EndHandled(w, f, h) ==
  /\ w.dtc.enabled = {} /\ Loaded(w, Length - 1) /\ NotAsked(w)
  /\ h.source = "TXI" /\ h.pc \in {"enter", "get", "put"}
  /\ h.pc # "enter" => ~On(w, "TIE")
  /\ h.pc = "put" => "TDRE" \in f.held

Sent(w, h) ==
  /\ w.dtc.enabled = {} /\ Given(w, Length) /\ NotAsked(w) /\ ~On(w, "TIE")
  /\ Outside(h) \/ (h.source = "TXI" /\ h.pc = "rte")

DtcSends(w, f, h) ==
  \/ (Feeding(w) \/ AllMoved(w)) /\ Outside(h)
  \/ EndHandled(w, f, h)
  \/ Sent(w, h)

ByDtc(w, f, h) ==
  /\ f.pc \in {"ier", "unmask", "setup", "go"} \cup Late
  /\ NoDma(w) /\ Holds(w)
  /\ f.pc \notin Late => Unstarted(w) /\ Outside(h)
  /\ f.pc \in {"ier", "unmask", "setup"} => w.dtc.enabled = {}
  /\ f.pc = "go" => Feeding(w)
  /\ f.pc \in Late => Attended(w) /\ DtcSends(w, f, h)

(* As it was, but for requests of IRQ0.                                   *)
AsAsked(v, w) == /\ Alike(v, w) /\ v.req \subseteq w.req \cup {"IRQ0"}
                 /\ "TXI" \in w.req => "TXI" \in v.req

LEMMA SendsUnless ==
  ASSUME NEW w, NEW v, NEW f, NEW h, AsAsked(v, w)
  PROVE  /\ Attended(w) => Attended(v)
         /\ Feeding(w) => Feeding(v)
         /\ DtcSends(w, f, h) => DtcSends(v, f, h)
<1>1. Alike(v, w) /\ v.dtc = w.dtc /\ v.sci.scr = w.sci.scr /\ v.sci.delayed = w.sci.delayed
  BY DEF AsAsked, Alike
<1>2. /\ On(w, "TE") => On(v, "TE")
      /\ \A m : Given(w, m) => Given(v, m)
      /\ \A m : Loaded(w, m) => Loaded(v, m)
      /\ Holds(w) => Holds(v)
      /\ NoDma(w) => NoDma(v)
  BY <1>1, AlikeIs
<1>3. /\ AskedOnce(w) => AskedOnce(v)
      /\ NotAsked(w) => NotAsked(v)
  BY DEF AsAsked, Alike, AskedOnce, NotAsked
<1>4. Attended(w) => Attended(v)
  BY <1>1, <1>2 DEF Attended, AsAsked
<1>5. Feeding(w) => Feeding(v)
  BY <1>1, <1>2, <1>3 DEF Feeding
<1>6. AllMoved(w) => AllMoved(v)
  BY <1>1, <1>2 DEF AllMoved, AsAsked
<1>7. EndHandled(w, f, h) => EndHandled(v, f, h)
  BY <1>1, <1>2, <1>3 DEF EndHandled, On
<1>8. Sent(w, h) => Sent(v, h)
  BY <1>1, <1>2, <1>3 DEF Sent, On
<1> QED
  BY <1>4, <1>5, <1>6, <1>7, <1>8 DEF DtcSends

LEMMA ByDtcUnless ==
  ASSUME NEW w, NEW v, NEW f, NEW h, ByDtc(w, f, h), AsAsked(v, w)
  PROVE  ByDtc(v, f, h)
<1>1. Unstarted(w) => Unstarted(v)
  BY DEF Unstarted, Alike, AsAsked
<1>2. Holds(v) /\ NoDma(v) /\ v.dtc = w.dtc
  BY AlikeIs DEF ByDtc, AsAsked, Alike
<1>3. /\ Attended(w) => Attended(v)
      /\ Feeding(w) => Feeding(v)
      /\ DtcSends(w, f, h) => DtcSends(v, f, h)
  BY SendsUnless
<1> QED
  BY <1>1, <1>2, <1>3 DEF ByDtc

LEMMA ByDtcAfter ==
  ASSUME NEW w, NEW f, NEW h, Become(w), ByDtc(w, f, h)
  PROVE  ByDtc(World', f, h)
BY BecomeIsAlike, ByDtcUnless DEF AsAsked

(* The port is brought up to date while the DTC attends to it.             *)
LEMMA AttendedUpdate ==
  ASSUME NEW w, Fit(w), Attended(w), NEW m, Given(w, m), AskedOnce(w)
  PROVE  /\ Attended(update(w)) /\ Given(update(w), m) /\ AskedOnce(update(w))
         /\ update(w).sci.tdr = w.sci.tdr /\ update(w).dtc = w.dtc
         /\ update(w).sci.scr = w.sci.scr
         /\ update(w).req = w.req \cup w.sci.delayed
         /\ update(w).sci.delayed \subseteq Raisable(w)
         /\ "TDRE" \in w.sci.ssr => "TDRE" \in update(w).sci.ssr
         /\ "TDRE" \in w.sci.ssr => "TXI" \notin update(w).sci.delayed
<1>1. PICK u : u = update(w)
  OBVIOUS
<1>2. ~On(w, "TEIE") /\ On(w, "TE") /\ Raisable(w) \subseteq {"TXI"}
  BY DEF Attended, On, Raisable
<1>3. /\ Moves(u, w) /\ Given(u, m) /\ AskedOnce(u) /\ u.sci.tdr = w.sci.tdr
      /\ u.req = w.req \cup w.sci.delayed /\ u.sci.delayed \subseteq Raisable(w)
      /\ w.sci.ssr \subseteq u.sci.ssr
      /\ "TDRE" \in w.sci.ssr => "TXI" \notin u.sci.delayed
  BY <1>1, <1>2, UpdateGives
<1>4. Attended(u)
  BY <1>2, <1>3 DEF Attended, Moves, On, Holds, NoDma
<1> QED
  BY <1>1, <1>3, <1>4 DEF Moves

LEMMA LoadedIsGiven ==
  ASSUME NEW w, NEW m
  PROVE  Loaded(w, m) <=> /\ Given(w, m) /\ "TDRE" \in w.sci.ssr /\ w.sci.tdr = m + 1
BY DEF Loaded, Given

LEMMA LoadedUpdate ==
  ASSUME NEW w, Fit(w), Attended(w), NEW m, Loaded(w, m), AskedOnce(w)
  PROVE  /\ Attended(update(w)) /\ Loaded(update(w), m) /\ update(w).dtc = w.dtc
         /\ update(w).sci.scr = w.sci.scr /\ "TXI" \notin update(w).sci.delayed
         /\ update(w).req = w.req \cup w.sci.delayed
<1>1. Given(w, m) /\ "TDRE" \in w.sci.ssr /\ w.sci.tdr = m + 1
  BY LoadedIsGiven
<1>2. PICK u : u = update(w)
  OBVIOUS
<1>3. /\ Attended(u) /\ Given(u, m) /\ u.sci.tdr = w.sci.tdr /\ u.dtc = w.dtc
      /\ u.sci.scr = w.sci.scr /\ u.req = w.req \cup w.sci.delayed
      /\ "TDRE" \in u.sci.ssr /\ "TXI" \notin u.sci.delayed
  BY <1>1, <1>2, AttendedUpdate
<1> QED
  BY <1>1, <1>2, <1>3, LoadedIsGiven

LEMMA SendsUpdate ==
  ASSUME NEW w, Fit(w), Attended(w), NEW f, NEW h, DtcSends(w, f, h)
  PROVE  Attended(update(w)) /\ DtcSends(update(w), f, h) /\ Fit(update(w))
<1>1. PICK u : u = update(w)
  OBVIOUS
<1>2. CASE Feeding(w) /\ Outside(h)
  <2>1. PICK m \in 0 .. Length - 1 : Feeds(w.dtc.descs[1], m) /\ Given(w, m)
    BY <1>2 DEF Feeding
  <2>2. Attended(u) /\ Given(u, m) /\ AskedOnce(u) /\ u.dtc = w.dtc
    BY <1>1, <1>2, <2>1, AttendedUpdate DEF Feeding
  <2>3. Feeding(u)
    BY <1>2, <2>1, <2>2 DEF Feeding
  <2> QED
    BY <1>1, <1>2, <2>2, <2>3, UpdateFits DEF DtcSends, Keeps
<1>3. CASE AllMoved(w) /\ Outside(h)
  <2>1. Loaded(w, Length - 1) /\ AskedOnce(w)
    BY <1>3 DEF AllMoved, AskedOnce, Loaded
  <2>2. /\ Attended(u) /\ Loaded(u, Length - 1) /\ u.dtc = w.dtc
        /\ "TXI" \notin u.sci.delayed /\ u.req = w.req \cup w.sci.delayed
    BY <1>1, <2>1, LoadedUpdate
  <2>3. AllMoved(u)
    BY <1>3, <2>2 DEF AllMoved
  <2> QED
    BY <1>1, <1>3, <2>2, <2>3, UpdateFits DEF DtcSends, Keeps
<1>4. CASE EndHandled(w, f, h)
  <2>1. Loaded(w, Length - 1) /\ AskedOnce(w) /\ NotAsked(w)
    BY <1>4 DEF EndHandled, AskedOnce, NotAsked
  <2>2. /\ Attended(u) /\ Loaded(u, Length - 1) /\ u.dtc = w.dtc /\ u.sci.scr = w.sci.scr
        /\ "TXI" \notin u.sci.delayed /\ u.req = w.req \cup w.sci.delayed
    BY <1>1, <2>1, LoadedUpdate
  <2>3. NotAsked(u)
    BY <2>1, <2>2 DEF NotAsked
  <2>4. EndHandled(u, f, h)
    BY <1>4, <2>2, <2>3 DEF EndHandled, On
  <2> QED
    BY <1>1, <2>2, <2>4, UpdateFits DEF DtcSends, Keeps
<1>5. CASE Sent(w, h)
  <2>1. Given(w, Length) /\ AskedOnce(w) /\ NotAsked(w) /\ Raisable(w) = {}
    BY <1>5 DEF Sent, AskedOnce, NotAsked, Raisable, Attended, On
  <2>2. /\ Attended(u) /\ Given(u, Length) /\ u.dtc = w.dtc /\ u.sci.scr = w.sci.scr
        /\ u.sci.delayed \subseteq Raisable(w) /\ u.req = w.req \cup w.sci.delayed
    BY <1>1, <2>1, AttendedUpdate
  <2>3. NotAsked(u)
    BY <2>1, <2>2 DEF NotAsked
  <2>4. Sent(u, h)
    BY <1>5, <2>2, <2>3 DEF Sent, On
  <2> QED
    BY <1>1, <2>2, <2>4, UpdateFits DEF DtcSends, Keeps
<1> QED
  BY <1>2, <1>3, <1>4, <1>5 DEF DtcSends

(* What the DTC has not taken goes to the processor.                       *)
LEMMA DtcInterrupted ==
  ASSUME NEW w, DOMAIN w = WorldFields, Attended(w), DtcSends(w, fw, handler),
         Feeding(w) => "TXI" \notin w.req, Orderly, serviceInterrupt(w)
  PROVE  \E x : Become(x) /\ Attended(x) /\ DtcSends(x, fw, handler')
<1>1. CASE Become(w) /\ handler' = handler
  BY <1>1
<1>2. CASE ~(Become(w) /\ handler' = handler)
  <2>1. PICK x : /\ w.req # {} /\ ~masked
                 /\ handler' = [source |-> Lowest(w.req), pc |-> "enter"]
                 /\ Become(x) /\ Alike(x, w) /\ x.req = w.req \ {Lowest(w.req)}
    BY <1>2, RequestServed
  <2>2. handler.source = "none"
    BY <2>1 DEF Orderly
  <2>3. w.req \subseteq {"IRQ0", "TXI"}
    BY DEF Attended
  <2>4. Lowest(w.req) \in w.req
    BY <2>1, <2>3, LowestIs
  <2>5. CASE Lowest(w.req) = "IRQ0"
    <3>1. AsAsked(x, w)
      BY <2>1, <2>5 DEF AsAsked
    <3>2. Attended(x)
      BY <3>1, SendsUnless
    <3>3. DtcSends(w, fw, handler')
      BY <2>1, <2>2, <2>5 DEF DtcSends, EndHandled, Sent, Outside
    <3>4. DtcSends(x, fw, handler')
      BY <3>1, <3>3, SendsUnless
    <3> QED
      BY <2>1, <3>2, <3>4
  <2>6. CASE Lowest(w.req) = "TXI"
    <3>1. AllMoved(w)
      BY <2>2, <2>4, <2>6 DEF DtcSends, EndHandled, Sent, NotAsked
    <3>3. Attended(x)
      BY <2>1, AlikeIs DEF Attended, Alike
    <3>4. EndHandled(x, fw, handler')
      <4>1. Loaded(x, Length - 1)
        BY <2>1, <3>1, AlikeIs DEF AllMoved
      <4> QED
        BY <2>1, <2>6, <3>1, <4>1 DEF EndHandled, AllMoved, NotAsked, Alike
    <3> QED
      BY <2>1, <3>3, <3>4 DEF DtcSends
  <2> QED
    BY <2>3, <2>4, <2>5, <2>6
<1> QED
  BY <1>1, <1>2

LEMMA DtcRequests ==
  ASSUME IInv, ByDtc(World, fw, handler), ServeRequests
  PROVE  ByDtc(World', fw', handler')
<1>1. PICK w : w = World
  OBVIOUS
<1>2. /\ ByDtc(w, fw, handler) /\ Fit(w) /\ Orderly /\ Chainable(w.dtc)
      /\ DOMAIN w = WorldFields /\ fw' = fw
  BY <1>1, WorldIs DEF IInv, ServeRequests
<1>3. PICK r : r = updateDTC(w)
  OBVIOUS
<1>4. /\ r.triggered => Become(r.w) /\ handler' = handler
      /\ ~r.triggered => serviceInterrupt(r.w)
  BY <1>1, <1>3 DEF ServeRequests, InterruptUnless
<1>5. DOMAIN r.w = WorldFields
  BY <1>2, <1>3, DtcFits DEF Fit, IsWorld
<1>6. CASE fw.pc \notin Late
  <2>1. /\ Unstarted(w) /\ Outside(handler)
        /\ w.dtc.enabled \subseteq {"TXI"}
    BY <1>2, <1>6 DEF ByDtc, Feeding
  <2>2. r = [w |-> w, triggered |-> FALSE]
    BY <1>3, <2>1, NoneAsked DEF Unstarted
  <2>3. serviceInterrupt(w)
    BY <1>4, <2>2
  <2>4. CASE Become(w) /\ handler' = handler
    BY <1>2, <2>4, ByDtcAfter
  <2>5. CASE ~(Become(w) /\ handler' = handler)
    <3>1. PICK x : /\ w.req # {} /\ handler' = [source |-> Lowest(w.req), pc |-> "enter"]
                   /\ Become(x) /\ Alike(x, w) /\ x.req = w.req \ {Lowest(w.req)}
      BY <1>2, <2>3, <2>5, RequestServed
    <3>2. Lowest(w.req) = "IRQ0"
      BY <2>1, <3>1, LowestIs DEF Unstarted
    <3>3. ByDtc(w, fw, handler')
      BY <1>2, <1>6, <3>1, <3>2 DEF ByDtc, Outside
    <3>4. AsAsked(x, w)
      BY <3>1, <3>2 DEF AsAsked
    <3>5. ByDtc(x, fw, handler')
      BY <3>3, <3>4, ByDtcUnless
    <3> QED
      BY <1>2, <3>1, <3>5, ByDtcAfter
  <2> QED
    BY <2>4, <2>5
<1>7. CASE fw.pc \in Late
  <2>1. Attended(w) /\ DtcSends(w, fw, handler)
    BY <1>2, <1>7 DEF ByDtc
  <2>2. \E x : Become(x) /\ Attended(x) /\ DtcSends(x, fw, handler')
    <3>1. CASE Feeding(w) /\ "TXI" \in w.req
      <4>1. PICK v : /\ Attended(v)
                     /\ \/ r = [w |-> v, triggered |-> TRUE] /\ Feeding(v)
                        \/ r = [w |-> v, triggered |-> FALSE] /\ AllMoved(v)
        BY <1>2, <1>3, <2>1, <3>1, DtcServes
      <4>2. Outside(handler)
        BY <2>1, <3>1 DEF DtcSends, Feeding, EndHandled, Sent
      <4>3. CASE r = [w |-> v, triggered |-> TRUE] /\ Feeding(v)
        BY <1>4, <4>1, <4>2, <4>3 DEF DtcSends
      <4>4. CASE r = [w |-> v, triggered |-> FALSE] /\ AllMoved(v)
        <5>1. serviceInterrupt(v) /\ DOMAIN v = WorldFields
          BY <1>4, <1>5, <4>4
        <5>2. DtcSends(v, fw, handler) /\ ~Feeding(v)
          BY <4>2, <4>4 DEF DtcSends, AllMoved, Feeding
        <5> QED
          BY <1>2, <4>1, <5>1, <5>2, DtcInterrupted
      <4> QED
        BY <4>1, <4>3, <4>4
    <3>2. CASE ~(Feeding(w) /\ "TXI" \in w.req)
      <4>1. w.dtc.enabled \cap w.req = {}
        BY <2>1, <3>2 DEF DtcSends, Feeding, AllMoved, EndHandled, Sent
      <4>2. r = [w |-> w, triggered |-> FALSE]
        BY <1>3, <4>1, NoneAsked
      <4> QED
        BY <1>2, <1>4, <2>1, <3>2, <4>2, DtcInterrupted
    <3> QED
      BY <3>1, <3>2
  <2>3. PICK x : Become(x) /\ Attended(x) /\ DtcSends(x, fw, handler')
    BY <2>2
  <2>4. ByDtc(x, fw, handler')
    BY <1>2, <1>7, <2>3 DEF ByDtc, Attended, Late
  <2> QED
    BY <1>2, <2>3, <2>4, ByDtcAfter
<1> QED
  BY <1>6, <1>7

LEMMA DtcSetupIs ==
  ASSUME IInv, Unstarted(World), Holds(World), fw.program = "dtcTx"
  PROVE  /\ Unstarted(DtcSetup) /\ Holds(DtcSetup) /\ Feeding(DtcSetup)
         /\ DtcSetup.dma = dma
<1>1. PICK w : w = World
  OBVIOUS
<1>2. PICK v : v = [TXI |-> 1, RXI |-> IF fw.program = "dtcLog" THEN 2 ELSE 3]
  OBVIOUS
<1>3. PICK d : d = Descriptor(1, 1, TDR, 0)
  OBVIOUS
<1>4. PICK b : b = [Descriptor(Received1, 1, Log + 1, 1) EXCEPT
                      !.mode = "block", !.hi = Length, !.countB = Length,
                      !.chain = TRUE, !.srcBlock = TRUE]
  OBVIOUS
<1>5. PICK c : c = Descriptor(RDR, 0, Received1, 1)
  OBVIOUS
<1>6. PICK descs : descs = <<d, b, c>>
  OBVIOUS
<1>7. PICK e : e = (IF fw.program \in Transmits THEN {"TXI"} ELSE {}) \cup
                   (IF fw.program \in Receives THEN {"RXI"} ELSE {})
  OBVIOUS
<1>8. PICK x : x = [w EXCEPT !.dtc.enabled = e, !.dtc.vec = v, !.dtc.descs = descs]
  OBVIOUS
<1>9. DtcSetup = x
  BY <1>1, <1>2, <1>3, <1>4, <1>5, <1>6, <1>7, <1>8 DEF DtcSetup
<1>10. /\ DOMAIN w = WorldFields /\ DOMAIN w.dtc = {"enabled", "vec", "descs"}
       /\ w.dma = dma
  BY <1>1, WorldIs DEF IInv, Chainable
<1>11. /\ x.sci = w.sci /\ x.dev = w.dev /\ x.req = w.req /\ x.mem = w.mem /\ x.dma = w.dma
       /\ x.dtc.enabled = e /\ x.dtc.vec = v /\ x.dtc.descs = descs
  BY <1>8, <1>10 DEF WorldFields
<1>12. e = {"TXI"} /\ v["TXI"] = 1 /\ descs[1] = d
  BY <1>2, <1>6, <1>7 DEF Transmits, Receives
<1>13. Feeds(d, 0)
  <2>1. Length \in Nat /\ 0 * 256 + Length = Length - 0
    BY CpuAssumption
  <2> QED
    BY <1>3, <2>1 DEF Descriptor, Feeds, CountA, Bytes
<1>14. Unstarted(x) /\ Holds(x)
  BY <1>1, <1>11 DEF Unstarted, Holds
<1>15. AskedOnce(x) /\ Given(x, 0) /\ 0 \in 0 .. Length - 1
  BY <1>14, PrefixOfNone, CpuAssumption DEF Unstarted, AskedOnce, Given
<1>16. Feeding(x)
  BY <1>11, <1>12, <1>13, <1>15 DEF Feeding
<1> QED
  BY <1>9, <1>10, <1>11, <1>14, <1>16

LEMMA DtcFirmware ==
  ASSUME IInv, ByDtc(World, fw, handler), fw.program = "dtcTx",
         Start \/ sciWrite \/ sciRead \/ HaveMoved \/ Finished
  PROVE  ByDtc(World', fw', handler')
<1>1. PICK w : w = World
  OBVIOUS
<1>2. PICK u : u = Accessed
  OBVIOUS
<1>3. /\ ByDtc(w, fw, handler) /\ Fit(w) /\ Orderly /\ u = update(w)
      /\ w.sci = sci /\ w.dma = dma /\ w.dtc = dtc /\ w.req = req
  BY <1>1, <1>2, WorldIs DEF IInv, Accessed
<1>4. /\ fw.pc \in {"ier", "unmask", "setup", "go"} \cup Late
      /\ NoDma(w) /\ Holds(w)
      /\ fw.pc \notin Late => Unstarted(w) /\ Outside(handler)
      /\ fw.pc \in {"ier", "unmask", "setup"} => w.dtc.enabled = {}
      /\ fw.pc = "go" => Feeding(w)
      /\ fw.pc \in Late => Attended(w) /\ DtcSends(w, fw, handler)
  BY <1>3 DEF ByDtc
<1>5. ASSUME NEW x, NEW to \in Late, NEW g, Attended(x), DtcSends(x, g, handler),
             g = Go(to)
      PROVE  ByDtc(x, g, handler)
  BY <1>3, <1>5, GoIs DEF ByDtc, Attended, Late
<1>6. \A x, to : DtcSends(x, Go(to), handler) <=> DtcSends(x, fw, handler)
  BY <1>3, GoIs DEF DtcSends, EndHandled
<1>7. CASE Start
  <2>1. fw.pc # "enable"
    BY <1>4 DEF Late
  <2>2. CASE Instruct("ier", Go("unmask"), WriteIER(TRUE))
    <3>1. PICK x : x = WriteIER(TRUE)
      OBVIOUS
    <3>2. fw' = Go("unmask") /\ Become(x) /\ handler' = handler /\ fw.pc = "ier"
      BY <2>2, <3>1 DEF Instruct
    <3>3. AsAsked(x, w)
      BY <1>1, <1>3, <3>1, WorldIs DEF WriteIER, AsAsked, Alike, WorldFields
    <3>4. ByDtc(w, Go("unmask"), handler)
      BY <1>3, <1>4, <3>2, GoIs DEF ByDtc, Late
    <3>5. ByDtc(x, Go("unmask"), handler)
      BY <3>3, <3>4, ByDtcUnless
    <3> QED
      BY <3>2, <3>5, ByDtcAfter
  <2>3. CASE Unmask
    <3>1. fw' = Go("setup") /\ Become(w) /\ handler' = handler /\ fw.pc = "unmask"
      BY <1>1, <2>3, WorldIs DEF Unmask, Polls, world, Become
    <3>2. ByDtc(w, Go("setup"), handler)
      BY <1>3, <1>4, <3>1, GoIs DEF ByDtc, Late
    <3> QED
      BY <3>1, <3>2, ByDtcAfter
  <2> QED
    BY <1>7, <2>1, <2>2, <2>3 DEF Start, Main, Instruct
<1>8. CASE sciWrite \/ sciRead
  BY <1>4, <1>8
  DEF sciWrite, sciRead, WaitFor, Branch, Main, Instruct, ReadSSR, CountByte, Late
<1>9. CASE HaveMoved
  <2>1. CASE Main("setup", "go", IF fw.program \in {"dma", "dmaAsync"}
                                 THEN DmaSetup ELSE DtcSetup)
    <3>1. PICK x : x = DtcSetup
      OBVIOUS
    <3>2. fw' = Go("go") /\ Become(x) /\ handler' = handler /\ fw.pc = "setup"
      BY <2>1, <3>1 DEF Main, Instruct
    <3>3. Unstarted(x) /\ Holds(x) /\ Feeding(x) /\ x.dma = w.dma
      BY <1>1, <1>3, <1>4, <3>1, <3>2, DtcSetupIs DEF Late
    <3>4. ByDtc(x, Go("go"), handler)
      BY <1>3, <1>4, <3>2, <3>3, GoIs DEF ByDtc, Late, NoDma
    <3> QED
      BY <3>2, <3>4, ByDtcAfter
  <2>2. CASE Main("go", "wait", SetSCR(Accessed, Directions \cup Enables))
    <3>1. PICK val : val = Directions \cup Enables
      OBVIOUS
    <3>2. PICK x : x = SetSCR(u, val)
      OBVIOUS
    <3>3. fw' = Go("wait") /\ Become(x) /\ handler' = handler /\ fw.pc = "go"
      BY <1>2, <2>2, <3>1, <3>2 DEF Main, Instruct
    <3>4. val = {"TE", "TIE"}
      BY <3>1 DEF Directions, Enables, Transmits, Receives
    <3>5. Unstarted(u) /\ Moves(u, w) /\ Fit(u)
      BY <1>3, <1>4, <3>3, UnstartedUpdate DEF Late
    <3>6. /\ x.sci.scr = val /\ x.req = u.req \cup {"TXI"} /\ x.sci.delayed = {}
          /\ AskedOnce(x) /\ Given(x, 0)
          /\ x.mem = u.mem /\ x.dma = u.dma /\ x.dtc = u.dtc
      BY <3>2, <3>4, <3>5, EnabledAsks
    <3>7. x.mem = w.mem /\ x.dma = w.dma /\ x.dtc = w.dtc
      BY <3>5, <3>6 DEF Moves
    <3>8. Attended(x)
      BY <1>4, <3>4, <3>5, <3>6, <3>7 DEF Attended, Unstarted, On, Holds, NoDma
    <3>9. Feeding(x)
      <4>1. PICK m \in 0 .. Length - 1 : Feeds(w.dtc.descs[1], m) /\ Given(w, m)
        BY <1>4, <3>3 DEF Feeding
      <4>2. m = 0
        <5>1. "TDRE" \in w.sci.ssr /\ w.dev.wrote = << >>
          BY <1>4, <3>3 DEF Unstarted, Late
        <5>2. m \in Nat /\ Prefix(m) = << >>
          BY <4>1, <5>1 DEF Given
        <5>3. Len(Prefix(m)) = m
          BY <5>2, PrefixGrows
        <5> QED
          BY <5>2, <5>3
      <4> QED
        BY <1>4, <3>3, <3>6, <3>7, <4>1, <4>2 DEF Feeding
    <3>10. DtcSends(x, fw, handler)
      BY <1>4, <3>3, <3>9 DEF DtcSends, Late
    <3>11. ByDtc(x, Go("wait"), handler)
      BY <1>5, <1>6, <3>8, <3>10 DEF Late
    <3> QED
      BY <3>3, <3>11, ByDtcAfter
  <2>3. CASE \E to \in Late : Main("wait", to, World)
    <3>1. PICK to \in Late : fw' = Go(to) /\ Become(w) /\ handler' = handler /\ fw.pc = "wait"
      BY <1>1, <2>3 DEF Main, Instruct
    <3>2. ByDtc(w, Go(to), handler)
      BY <1>4, <1>5, <1>6, <3>1 DEF Late
    <3> QED
      BY <3>1, <3>2, ByDtcAfter
  <2>4. CASE WaitFor("TDRE", "drain", "done")
    <3>1. PICK to \in Late : fw' = Go(to) /\ Become(u) /\ handler' = handler /\ fw.pc = "drain"
      BY <1>2, <2>4 DEF WaitFor, Branch, Main, Instruct, Late
    <3>2. Attended(u) /\ DtcSends(u, fw, handler)
      BY <1>3, <1>4, <3>1, SendsUpdate DEF Late
    <3>3. ByDtc(u, Go(to), handler)
      BY <1>5, <1>6, <3>1, <3>2
    <3> QED
      BY <3>1, <3>3, ByDtcAfter
  <2> QED
    BY <1>9, <2>1, <2>2, <2>3, <2>4 DEF HaveMoved, Late
<1>10. CASE Finished
  <2>1. fw' = Go("done") /\ Become(w) /\ handler' = handler /\ fw.pc = "done"
    BY <1>1, <1>10 DEF Finished, Main, Instruct
  <2>2. ByDtc(w, Go("done"), handler)
    BY <1>4, <1>5, <1>6, <2>1 DEF Late
  <2> QED
    BY <2>1, <2>2, ByDtcAfter
<1> QED
  BY <1>7, <1>8, <1>9, <1>10


(* The handler of the last byte's interrupt: it lets the port have it.     *)
LEMMA DtcHandlers ==
  ASSUME IInv, ByDtc(World, fw, handler), fw.program = "dtcTx",
         HandleIrq \/ HandleEnd \/ Return
  PROVE  ByDtc(World', fw', handler')
<1>1. PICK w : w = World
  OBVIOUS
<1>2. PICK u : u = Accessed
  OBVIOUS
<1>3. /\ ByDtc(w, fw, handler) /\ Fit(w) /\ Orderly /\ u = update(w) /\ w.sci = sci
  BY <1>1, <1>2, WorldIs DEF IInv, Accessed
<1>4. CASE HandleIrq
  <2>1. /\ fw' = fw /\ Become(w) /\ handler' = [handler EXCEPT !.pc = "rte"]
        /\ handler.source = "IRQ0"
    BY <1>1, <1>4 DEF HandleIrq, Handle
  <2>2. handler'.source = "IRQ0"
    BY <1>3, <2>1 DEF Orderly
  <2>3. ByDtc(w, fw, handler')
    BY <1>3, <2>1, <2>2 DEF ByDtc, DtcSends, EndHandled, Sent, Outside
  <2> QED
    BY <2>1, <2>3, ByDtcAfter
<1>5. CASE HandleEnd
  <2>1. /\ handler.source \notin {"none", "IRQ0"} /\ handler.pc \in {"enter", "get", "put"}
    BY <1>5 DEF HandleEnd, Handle
  <2>2. /\ fw.pc \in Late /\ Attended(w) /\ EndHandled(w, fw, handler)
    BY <1>3, <2>1 DEF ByDtc, DtcSends, Sent, Outside
  <2>3. handler.source = "TXI"
    BY <2>2 DEF EndHandled
  <2>4. /\ Attended(u) /\ EndHandled(u, fw, handler) /\ Fit(u)
        /\ u.sci.scr = w.sci.scr
    <3>1. Loaded(w, Length - 1) /\ AskedOnce(w) /\ NotAsked(w)
      BY <2>2 DEF EndHandled, AskedOnce, NotAsked
    <3>2. /\ Attended(u) /\ Loaded(u, Length - 1) /\ u.dtc = w.dtc /\ u.sci.scr = w.sci.scr
          /\ "TXI" \notin u.sci.delayed /\ u.req = w.req \cup w.sci.delayed
      BY <1>3, <2>2, <3>1, LoadedUpdate
    <3>3. EndHandled(u, fw, handler)
      BY <2>2, <3>1, <3>2 DEF EndHandled, NotAsked, On
    <3> QED
      BY <1>3, <3>2, <3>3, UpdateFits DEF Keeps
  <2>5. ASSUME NEW x, NEW g, NEW h, Become(x), g.pc = fw.pc, Attended(x), DtcSends(x, g, h)
        PROVE  ByDtc(World', g, h)
    <3>1. ByDtc(x, g, h)
      BY <2>2, <2>5 DEF ByDtc, Attended, Late
    <3> QED
      BY <2>5, <3>1, ByDtcAfter
  <2>6. CASE Handle("enter", "get", fw, SetSCR(u, Stopped))
    <3>1. PICK x : x = SetSCR(u, u.sci.scr \ {"TIE"})
      OBVIOUS
    <3>2. Stopped = u.sci.scr \ {"TIE"}
      BY <1>3, <2>3, <2>4 DEF Stopped, Direction
    <3>3. Become(x) /\ handler' = [handler EXCEPT !.pc = "get"] /\ fw' = fw
      BY <2>6, <3>1, <3>2 DEF Handle
    <3>4. handler'.source = "TXI" /\ handler'.pc = "get"
      BY <1>3, <2>3, <3>3 DEF Orderly
    <3>5. /\ x.sci.scr = u.sci.scr \ {"TIE"} /\ x.req = u.req /\ x.sci.ssr = u.sci.ssr
          /\ x.sci.tdr = u.sci.tdr /\ x.sci.delayed = u.sci.delayed /\ x.dev = u.dev
          /\ x.mem = u.mem /\ x.dma = u.dma /\ x.dtc = u.dtc
      <4>1. Fit(u) /\ On(u, "TE") /\ "TIE" # "TE"
        BY <2>4 DEF Attended
      <4> HIDE <2>4
      <4> QED
        BY <3>1, <4>1, DisabledIs, Z3
    <3>6. Attended(x)
      BY <2>4, <3>5 DEF Attended, On, Holds, NoDma
    <3>7. EndHandled(x, fw, handler')
      BY <2>4, <3>4, <3>5 DEF EndHandled, NotAsked, Loaded, On
    <3> QED
      BY <2>5, <3>3, <3>6, <3>7 DEF DtcSends
  <2>7. CASE Handle("get", "put", [fw EXCEPT !.held = u.sci.ssr], u)
    <3>1. PICK g : g = [fw EXCEPT !.held = u.sci.ssr]
      OBVIOUS
    <3>2. /\ Become(u) /\ handler' = [handler EXCEPT !.pc = "put"] /\ fw' = g
          /\ handler.pc = "get"
      BY <2>7, <3>1 DEF Handle
    <3>3. handler'.source = "TXI" /\ handler'.pc = "put"
      BY <1>3, <2>3, <3>2 DEF Orderly
    <3>4. g.pc = fw.pc /\ g.held = u.sci.ssr
      BY <1>3, <3>1 DEF Orderly, FwFields
    <3>5. EndHandled(u, g, handler')
      BY <2>4, <3>2, <3>3, <3>4 DEF EndHandled, Loaded
    <3> QED
      BY <2>4, <2>5, <3>2, <3>4, <3>5 DEF DtcSends
  <2>8. CASE Handle("put", "rte", Ended(Direction), SetSSR(u, fw.held \ {Flagged}))
    <3>1. PICK val : val = fw.held \ {"TDRE"}
      OBVIOUS
    <3>2. PICK x : x = SetSSR(u, val)
      OBVIOUS
    <3>3. Flagged = "TDRE"
      BY <2>3 DEF Flagged, Direction
    <3>4. /\ Become(x) /\ handler' = [handler EXCEPT !.pc = "rte"]
          /\ fw' = Ended(Direction) /\ handler.pc = "put"
      BY <2>8, <3>1, <3>2, <3>3 DEF Handle
    <3>5. handler'.source = "TXI" /\ handler'.pc = "rte" /\ fw'.pc = fw.pc
      BY <1>3, <2>3, <3>4 DEF Orderly, Ended, FwFields
    <3>6. /\ Loaded(u, Length - 1) /\ NotAsked(u) /\ ~On(u, "TIE") /\ On(u, "TE")
          /\ "TDRE" \notin val /\ Raisable(u) = {} /\ u.dtc.enabled = {}
      BY <2>4, <3>1, <3>4 DEF EndHandled, Attended, On, Raisable
    <3>7. /\ Moves(x, u) /\ Given(x, Length - 1 + 1) /\ x.req = u.req
          /\ x.sci.delayed \subseteq u.sci.delayed \cup Raisable(u)
      BY <2>4, <3>2, <3>6, ClearingGives
    <3>8. Given(x, Length)
      BY <3>7, CpuAssumption
    <3>9. Attended(x)
      BY <2>4, <3>6, <3>7 DEF Attended, Moves, On, Holds, NoDma
    <3>10. Sent(x, handler')
      BY <3>5, <3>6, <3>7, <3>8 DEF Sent, Moves, NotAsked, On
    <3> QED
      BY <2>5, <3>4, <3>5, <3>9, <3>10 DEF DtcSends
  <2>9. CASE Handle("enter", IF IsDtc THEN "get" ELSE "rte",
                    IF handler.source \in {"DEND1A", "DEND1B"}
                    THEN Ended(Direction) ELSE fw, SetSCR(u, Stopped))
    <3>1. IsDtc
      BY DEF IsDtc
    <3> QED
      BY <2>3, <2>6, <2>9, <3>1
  <2> QED
    BY <1>2, <1>5, <2>7, <2>8, <2>9 DEF HandleEnd
<1>6. CASE Return
  <2>1. /\ fw' = fw /\ Become(w) /\ handler'.source = "none" /\ handler.pc = "rte"
    BY <1>1, <1>6, WorldIs DEF Return, NoHandler, world, Become
  <2>2. ByDtc(w, fw, handler')
    BY <1>3, <2>1 DEF ByDtc, DtcSends, EndHandled, Sent, Outside
  <2> QED
    BY <2>1, <2>2, ByDtcAfter
<1> QED
  BY <1>4, <1>5, <1>6

LEMMA DtcStep ==
  ASSUME IInv, ByDtc(World, fw, handler), fw.program = "dtcTx", [Next]_vars
  PROVE  ByDtc(World', fw', handler')
<1>1. PICK w : w = World
  OBVIOUS
<1>2. /\ ByDtc(w, fw, handler) /\ Fit(w) /\ w.req = req
  BY <1>1, WorldIs DEF IInv
<1>3. CASE TransferByDma
  <2>1. transfer(w) = w
    BY <1>2, TransferWaits DEF ByDtc, NoDma
  <2> QED
    BY <1>1, <1>2, <1>3, <2>1, ByDtcAfter DEF TransferByDma
<1>4. CASE ServeRequests
  BY <1>4, DtcRequests
<1>5. CASE Instruction
  BY <1>5, DtcFirmware, DtcHandlers DEF Instruction
<1>6. CASE UpdatePeripherals
  <2>1. PICK e : Fit(e) /\ Alike(e, w) /\ e.req = w.req /\ Become(updateForInterrupts(e))
    BY <1>1, <1>2, <1>6, ElapsedIs
  <2>2. ByDtc(e, fw, handler)
    BY <1>2, <2>1, ByDtcUnless DEF AsAsked
  <2>3. fw' = fw /\ handler' = handler
    BY <1>6 DEF UpdatePeripherals
  <2>4. CASE updateForInterrupts(e) = e
    BY <2>1, <2>2, <2>3, <2>4, ByDtcAfter
  <2>5. CASE updateForInterrupts(e) # e
    <3>1. updateForInterrupts(e) = update(e) /\ e.sci.scr # {}
      BY <2>5 DEF updateForInterrupts
    <3>2. fw.pc \in Late /\ Attended(e) /\ DtcSends(e, fw, handler)
      BY <2>2, <3>1 DEF ByDtc, Unstarted
    <3>3. PICK x : x = update(e)
      OBVIOUS
    <3>4. Attended(x) /\ DtcSends(x, fw, handler)
      BY <2>1, <3>2, <3>3, SendsUpdate
    <3>5. ByDtc(x, fw, handler)
      BY <3>2, <3>4 DEF ByDtc, Attended, Late
    <3> QED
      BY <2>1, <2>3, <3>1, <3>3, <3>5, ByDtcAfter
  <2> QED
    BY <2>4, <2>5
<1>7. CASE externalInterrupt \/ DeviceInput \/ UNCHANGED vars
  <2>1. PICK v : v = World'
    OBVIOUS
  <2>2. AsAsked(v, w) /\ fw' = fw /\ handler' = handler
    BY <1>1, <1>2, <1>7, <2>1, OthersPass DEF AsAsked
  <2>3. ByDtc(v, fw, handler)
    BY <1>2, <2>2, ByDtcUnless
  <2> QED
    BY <2>1, <2>2, <2>3
<1> QED
  BY <1>3, <1>4, <1>5, <1>6, <1>7 DEF Next, Loop

-----------------------------------------------------------------------------
(* All programs. *)

Sending(w, f, h) ==
  /\ f.program \in {"transfer", "write"} => Polled(w, f, h)
  /\ f.program \in {"dma", "dmaAsync"} => ByDma(w, f, h)
  /\ f.program = "dtcTx" => ByDtc(w, f, h)

SentInv == IInv /\ fw.program \in Programs /\ Sending(World, fw, handler)

LEMMA InitSends ==
  ASSUME Init
  PROVE  SentInv
<1>1. PICK w : w = World
  OBVIOUS
<1>2. /\ w.sci = IdleSci(fw.program \in Synchronous) /\ w.req = {} /\ w.dma = dma
      /\ w.mem = mem /\ w.dtc.enabled = {} /\ w.dev.wrote = << >>
      /\ fw.pc = "ier" /\ fw.n = 0 /\ fw.program \in Programs /\ handler = NoHandler
  BY <1>1, WorldIs DEF Init
<1>3. Unstarted(w) /\ Outside(handler) /\ handler.source = "none"
  BY <1>2 DEF IdleSci, Unstarted, Outside, NoHandler
<1>4. NoDma(w) /\ DOMAIN w.dma = SubChannels
  BY <1>2 DEF Init, NoDma, NoChannel, SubChannels
<1>5. Holds(w)
  <2>1. Length \in Nat /\ Length * Length \in Nat
    BY CpuAssumption
  <2>2. 2 * Length + Length * Length >= Length
    BY <2>1
  <2>3. 1 .. Length \subseteq Ram
    BY <2>1, <2>2 DEF Ram, Log
  <2>4. mem = [a \in Ram |-> IF a <= Length THEN a ELSE 0]
    BY DEF Init
  <2>5. ASSUME NEW i \in 1 .. Length
        PROVE  mem[i] = i
    <3>1. i \in Ram /\ i <= Length
      BY <2>1, <2>3
    <3> QED
      BY <2>4, <3>1
  <2>6. DOMAIN mem = Ram
    BY <2>4
  <2> QED
    BY <1>2, <2>3, <2>5, <2>6 DEF Holds
<1>6. fw.program = "transfer" => w.sci.sync
  <2> SUFFICES ASSUME fw.program = "transfer" PROVE w.sci.sync
    OBVIOUS
  <2>1. PICK b : b = (fw.program \in Synchronous)
    OBVIOUS
  <2>2. b = TRUE
    BY <2>1 DEF Synchronous
  <2>3. w.sci = IdleSci(b)
    BY <1>2, <2>1, Zenon
  <2> QED
    BY <2>2, <2>3 DEF IdleSci
<1>7. Polled(w, fw, handler)
  BY <1>2, <1>3, <1>4, <1>6 DEF Polled, Polling, PolledTo, PolledSteps, Unstarted
<1>8. ByDma(w, fw, handler) /\ ByDtc(w, fw, handler)
  BY <1>2, <1>3, <1>4, <1>5 DEF ByDma, ByDtc, Late
<1> QED
  BY <1>1, <1>2, <1>7, <1>8, InitFits DEF SentInv, Sending

LEMMA StepSends ==
  ASSUME SentInv, [Next]_vars
  PROVE  SentInv'
<1>1. IInv /\ fw.program \in Programs /\ Sending(World, fw, handler)
  BY DEF SentInv
<1>2. fw'.program = fw.program
  <2>1. CASE Instruction
    BY <1>1, <2>1, FirmwareKeeps DEF IInv, Proceeds
  <2>2. CASE ~Instruction
    BY <2>2 DEF Next, Loop, TransferByDma, ServeRequests, UpdatePeripherals,
       externalInterrupt, DeviceInput, vars
  <2> QED
    BY <2>1, <2>2
<1>3. PICK v : v = World'
  OBVIOUS
<1>4. /\ fw.program \in {"transfer", "write"} => Polled(v, fw', handler')
      /\ fw.program \in {"dma", "dmaAsync"} => ByDma(v, fw', handler')
      /\ fw.program = "dtcTx" => ByDtc(v, fw', handler')
  BY <1>1, <1>3, PolledStep, DmaStep, DtcStep DEF Sending
<1>5. Sending(v, fw', handler')
  BY <1>2, <1>4 DEF Sending
<1> QED
  BY <1>1, <1>2, <1>3, <1>5, StepFits DEF SentInv

(* What has been given to the port has been sent, but for the byte in TDR. *)
LEMMA SendingIs ==
  ASSUME SentInv, fw.program \in Transmits, fw.program # "dtcBoth"
  PROVE  \E m \in Nat : dev.wrote = Prefix(m)
<1>1. PICK w : w = World
  OBVIOUS
<1>2. IInv /\ Sending(w, fw, handler) /\ dev = w.dev
  BY <1>1, WorldIs DEF SentInv
<1>3. 0 \in Nat /\ Prefix(0) = << >>
  BY PrefixOfNone
<1>4. ASSUME NEW n, Given(w, n)
      PROVE  \E m \in Nat : w.dev.wrote = Prefix(m)
  BY <1>4 DEF Given
<1>5. Unstarted(w) => \E m \in Nat : w.dev.wrote = Prefix(m)
  BY <1>3 DEF Unstarted
<1>6. CASE fw.program \in {"transfer", "write"}
  <2>1. PolledTo(w, fw) /\ fw.pc \in PolledSteps(fw) /\ fw.n \in Nat
    BY <1>2, <1>6 DEF Sending, Polled
  <2>2. \/ Unstarted(w) \/ Emptied(w, fw.n) \/ Emptied(w, fw.n + 1)
        \/ Given(w, fw.n) \/ Given(w, fw.n + 1)
    BY <2>1 DEF PolledTo, PolledSteps
  <2> QED
    BY <1>2, <1>4, <1>5, <2>1, <2>2 DEF Emptied
<1>7. CASE fw.program \in {"dma", "dmaAsync"}
  BY <1>2, <1>4, <1>5, <1>7 DEF Sending, ByDma, DmaRuns
<1>8. CASE fw.program = "dtcTx"
  BY <1>2, <1>4, <1>5, <1>8
  DEF Sending, ByDtc, DtcSends, Feeding, AllMoved, EndHandled, Sent, Loaded
<1> QED
  BY <1>2, <1>6, <1>7, <1>8 DEF Transmits

LEMMA MuteIs ==
  ASSUME IInv, fw.program \notin Transmits
  PROVE  dev.wrote \in Seq({Junk})
BY WorldIs DEF IInv, Fit, Silent, Allowed

(* The device is sent the bytes of the message in order and each once,     *)
(* whatever is read back, interrupted and waited for, by polling, by the   *)
(* DMA controller and by the DTC; and a program that only receives has     *)
(* Junk clocked out.  Firmware that lets the DTC both send and receive is  *)
(* left out: its handler can be asked for once more. *)
THEOREM MessageInOrder ==
  ASSUME "dtcBoth" \notin Programs
  PROVE  Spec => []SentInOrder
<1>1. SentInv => SentInOrder
  <2> SUFFICES ASSUME SentInv PROVE SentInOrder
    OBVIOUS
  <2>1. CASE fw.program \in Transmits
    <3>1. PICK m \in Nat : dev.wrote = Prefix(m)
      BY <2>1, SendingIs DEF SentInv
    <3>2. Len(dev.wrote) = m
      BY <3>1, PrefixGrows
    <3> QED
      BY <2>1, <3>1, <3>2 DEF SentInOrder, Prefix
  <2>2. CASE fw.program \notin Transmits
    <3>1. PICK q : q = dev.wrote
      OBVIOUS
    <3>2. q \in Seq({Junk})
      BY <2>2, <3>1, MuteIs DEF SentInv
    <3>3. q = [i \in 1 .. Len(q) |-> Junk]
      BY <3>2
    <3> QED
      BY <2>2, <3>1, <3>3 DEF SentInOrder
  <2> QED
    BY <2>1, <2>2
<1> QED
  BY <1>1, InitSends, StepSends, PTL DEF Spec

=============================================================================
