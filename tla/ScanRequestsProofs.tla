------------------------- MODULE ScanRequestsProofs -------------------------
(***************************************************************************)
(* For every device, parcel and report of the HAL: who is told of networks  *)
(* can read them, through the parcels and back; a one-shot scan asks for    *)
(* what was meant; a scheduled scan and the HAL match the right networks,   *)
(* within what the device announced although products may wrap.  The        *)
(* requests are followed down to the bytes of the packet and back: what the *)
(* kernel reads out of a packet is what CodecProofs says was put into it.   *)
(***************************************************************************)
EXTENDS ScanRequests, CodecProofs

(* Flattening a list of lists of one element gives the elements back.       *)
LEMMA FlattenSingletons ==
    ASSUME NEW T, NEW v \in Seq(T), NEW s, s = [i \in DOMAIN v |-> <<v[i]>>]
    PROVE  FlattenSeq(s) = v
<1> DEFINE n == Len(v)
<1> DEFINE Prefix(i) == [j \in 1..i |-> v[j]]
<1> DEFINE Step(g) == [i \in 1..n |-> IF i = 1 THEN s[i] ELSE g[i - 1] \o s[i]]
<1> DEFINE F == CHOOSE g : g = Step(g)
<1> DEFINE G == [i \in 1..n |-> Prefix(i)]
<1>1. /\ n \in Nat /\ Len(s) = n /\ DOMAIN v = 1..n
      /\ \A i \in 1..n : v[i] \in T /\ s[i] = <<v[i]>>
  OBVIOUS
<1>2. CASE n = 0
  <2>1. s = <<>> /\ v = <<>>
    BY <1>1, <1>2
  <2>2. Len(s) = 0
    BY <1>1, <1>2
  <2> QED
    BY <2>1, <2>2 DEF FlattenSeq
<1>3. CASE n # 0
  <2>1. FlattenSeq(s) = F[n]
    BY <1>1, <1>3 DEF FlattenSeq
  <2>2. G[1] = s[1]
    <3>1. v[1] \in T /\ s[1] = <<v[1]>>
      BY <1>1, <1>3
    <3>2. PICK e \in T : e = v[1]
      BY <3>1
    <3>3. Prefix(1) \in Seq(T)
      BY <1>1, <1>3
    <3>4. PICK b \in Seq(T) : b = Prefix(1)
      BY <3>3
    <3>5. Len(b) = 1 /\ b[1] = e
      BY <1>1, <1>3, <3>2, <3>4
    <3>6. b = <<e>>
      BY <3>5
    <3>7. 1 \in 1..n
      BY <1>1, <1>3
    <3> QED
      BY <3>1, <3>2, <3>4, <3>6, <3>7
  <2>3. ASSUME NEW i \in 1..n, i # 1
        PROVE  Prefix(i) = Prefix(i - 1) \o s[i]
    <3>1. i \in Nat /\ i - 1 \in 1..n /\ v[i] \in T /\ s[i] = <<v[i]>>
      BY <1>1, <2>3
    <3>2. \A k \in 1..n : Prefix(k) \in Seq(T)
      BY <1>1
    <3>3. PICK a \in Seq(T) : a = Prefix(i - 1)
      BY <3>2, <3>1
    <3>4. Len(a) = i - 1 /\ \A j \in 1..(i - 1) : a[j] = v[j]
      BY <1>1, <3>1, <3>3
    <3>5. PICK b \in Seq(T) : b = Prefix(i)
      BY <3>2
    <3>6. Len(b) = i /\ \A j \in 1..i : b[j] = v[j]
      BY <1>1, <3>1, <3>5
    <3>7. PICK e \in T : e = v[i]
      BY <3>1
    <3>8. <<e>> \in Seq(T)
      OBVIOUS
    <3>9. PICK u \in Seq(T) : u = <<e>>
      BY <3>8
    <3>10. Len(u) = 1 /\ u[1] = e
      BY <3>9
    <3>11. /\ a \o u \in Seq(T) /\ Len(a \o u) = i
          /\ \A j \in 1..i : (a \o u)[j] = IF j <= i - 1 THEN a[j] ELSE u[j - (i - 1)]
      BY <3>1, <3>4, <3>9, <3>10, ConcatProperties
    <3>12. \A j \in 1..i : b[j] = (a \o u)[j]
      BY <3>1, <3>4, <3>6, <3>7, <3>10, <3>11
    <3>13. b = a \o u
      BY <3>6, <3>11, <3>12, SeqEqual
    <3> QED
      BY <3>1, <3>3, <3>5, <3>7, <3>9, <3>13
  <2>4. G = Step(G)
    <3>1. ASSUME NEW i \in 1..n PROVE G[i] = Step(G)[i]
      <4>1. CASE i = 1
        BY <2>2, <4>1
      <4>2. CASE i # 1
        <5>1. i - 1 \in 1..n
          BY <1>1, <4>2
        <5> QED
          BY <2>3, <4>2, <5>1
      <4> QED
        BY <4>1, <4>2
    <3> QED
      BY <3>1
  <2>5. F = Step(F)
    <3>1. \E g : g = Step(g)
      BY <2>4
    <3> HIDE DEF Step
    <3> QED
      BY <3>1
  <2> HIDE DEF F
  <2>6. \A i \in 1..n : F[i] = IF i = 1 THEN s[i] ELSE F[i - 1] \o s[i]
    BY <2>5
  <2> DEFINE bad == {i \in 1..n : F[i] # Prefix(i)}
  <2>7. bad = {}
    <3>1. SUFFICES ASSUME bad # {} PROVE FALSE
      OBVIOUS
    <3>2. bad \in SUBSET Nat
      OBVIOUS
    <3>3. PICK i \in bad : \A j \in bad : i <= j
      BY <3>1, <3>2, LeastNumber
    <3>4. i # 1
      BY <2>2, <2>6, <3>3
    <3>5. i - 1 \in 1..n /\ i - 1 \notin bad
      BY <1>1, <3>3, <3>4
    <3>6. F[i] = Prefix(i - 1) \o s[i]
      BY <2>6, <3>3, <3>4, <3>5
    <3> QED
      BY <2>3, <3>3, <3>4, <3>6
  <2>8. F[n] = Prefix(n)
    <3>1. n \in 1..n
      BY <1>1, <1>3
    <3> QED
      BY <2>7, <3>1
  <2>9. Prefix(n) = v
    BY <1>1, <1>3
  <2> QED
    BY <2>1, <2>8, <2>9
<1> QED
  BY <1>2, <1>3

---------------------------------------------------------------------------
(* Parcels.  What is written first is read first.                           *)
LEMMA NineAt ==
    ASSUME NEW p, NEW s, NEW t, \A i \in 1..9 : p[i] = IF i <= 8 THEN s[i] ELSE t[i - 8]
    PROVE  /\ p[1] = s[1] /\ p[2] = s[2] /\ p[3] = s[3] /\ p[4] = s[4] /\ p[5] = s[5]
           /\ p[6] = s[6] /\ p[7] = s[7] /\ p[8] = s[8] /\ p[9] = t[1]
<1>1. p[9] = t[9 - 8]
  OBVIOUS
<1>2. 9 - 8 = 1
  OBVIOUS
<1>3. /\ p[1] = s[1] /\ p[2] = s[2] /\ p[3] = s[3] /\ p[4] = s[4] /\ p[5] = s[5]
      /\ p[6] = s[6] /\ p[7] = s[7] /\ p[8] = s[8]
  OBVIOUS
<1> QED
  BY <1>1, <1>2, <1>3, Zenon

LEMMA ConcatNine ==
    ASSUME NEW T, NEW s \in Seq(T), NEW t \in Seq(T), Len(s) = 8, Len(t) = 1
    PROVE  \A i \in 1..9 : (s \o t)[i] = IF i <= 8 THEN s[i] ELSE t[i - 8]
<1>1. \A i \in 1..(Len(s) + Len(t)) :
         (s \o t)[i] = IF i <= Len(s) THEN s[i] ELSE t[i - Len(s)]
  BY ConcatProperties
<1>2. Len(s) + Len(t) = 9
  OBVIOUS
<1> QED
  BY <1>1, <1>2

LEMMA ParcelOfNine ==
    ASSUME NEW a, NEW b, NEW c, NEW d, NEW e, NEW f, NEW g, NEW h, NEW z, NEW s, NEW t,
           s = <<a, b, c, d, e, f, g, h>>, t = <<z>>, NEW p, p = s \o (t \o <<>>)
    PROVE  /\ p[1] = a /\ p[2] = b /\ p[3] = c /\ p[4] = d /\ p[5] = e
           /\ p[6] = f /\ p[7] = g /\ p[8] = h /\ p[9] = z
<1> DEFINE T == {a, b, c, d, e, f, g, h, z}
<1>1. s \in Seq(T) /\ Len(s) = 8
  OBVIOUS
<1>2. t \in Seq(T) /\ Len(t) = 1
  OBVIOUS
<1>3. t \o <<>> = t
  BY <1>2, ConcatEmptySeq
<1>4. p = s \o t
  BY <1>3
<1>5. /\ s[1] = a /\ s[2] = b /\ s[3] = c /\ s[4] = d /\ s[5] = e
      /\ s[6] = f /\ s[7] = g /\ s[8] = h /\ t[1] = z
  OBVIOUS
<1> HIDE DEF T
<1>6. /\ p[1] = s[1] /\ p[2] = s[2] /\ p[3] = s[3] /\ p[4] = s[4] /\ p[5] = s[5]
      /\ p[6] = s[6] /\ p[7] = s[7] /\ p[8] = s[8] /\ p[9] = t[1]
  <2>1. \A i \in 1..9 : (s \o t)[i] = IF i <= 8 THEN s[i] ELSE t[i - 8]
    BY <1>1, <1>2, ConcatNine
  <2> QED
    BY <1>4, <2>1, NineAt
<1> QED
  BY <1>5, <1>6, Zenon

LEMMA SmallIsKept ==
    ASSUME NEW n \in Nat, NEW c \in Nat, c < n
    PROVE  c % n = c
OBVIOUS

LEMMA Uint16IsKept ==
    ASSUME NEW c \in Uint16
    PROVE  c % 65536 = c
<1>1. c \in Nat /\ c < 65536
  BY SMTT(30) DEF Uint16
<1>2. 65536 \in Nat
  OBVIOUS
<1> QED
  BY <1>1, <1>2, SmallIsKept

LEMMA NoChainsRead ==
    ASSUME NEW p, p[9] = 0
    PROVE  /\ NoNullElements(p, 9, 2)
           /\ ReadTypedList(p, 9, 2, ReadRadioChainInfo) = <<>>
<1>1. ListLength(p, 9) = 0
  BY DEF ListLength
<1> QED
  BY <1>1 DEF NoNullElements, ReadTypedList

LEMMA NoChainsWritten ==
    WriteTypedList(<<>>, WriteRadioChainInfo) = <<0>> \o <<>>
<1>1. ASSUME NEW s, s = [i \in DOMAIN <<>> |-> << 1 >> \o WriteRadioChainInfo(<<>>[i])]
      PROVE  FlattenSeq(s) = <<>>
  <2>1. s = <<>>
    BY <1>1
  <2>2. Len(s) = 0
    BY <2>1
  <2> QED
    BY <2>1, <2>2 DEF FlattenSeq
<1> QED
  BY <1>1 DEF WriteTypedList

(* What is read out of a parcel with these values.                          *)
LEMMA ResultRead ==
    ASSUME NEW p, p[9] = 0
    PROVE  \E y : /\ ReadNativeScanResult(p) = <<y>>
                  /\ y.ssid = p[1] /\ y.bssid = p[2] /\ y.frequency = p[4]
                  /\ y.signal_mbm = p[5] /\ y.capability = p[7] % 65536
<1>1. NoNullElements(p, 9, 2)
  BY NoChainsRead
<1> DEFINE Result(assoc) ==
      [ssid |-> p[1], bssid |-> p[2], info_element |-> p[3],
       frequency |-> p[4], signal_mbm |-> p[5], tsf |-> p[6],
       capability |-> p[7] % 65536, associated |-> assoc,
       radio_chain_infos |-> ReadTypedList(p, 9, 2, ReadRadioChainInfo)]
<1>2. PICK assoc : assoc = (p[8] # 0)
  OBVIOUS
<1> HIDE DEF Result
<1>3. PICK y : y = Result(assoc)
  OBVIOUS
<1>4. ReadNativeScanResult(p) = <<y>>
  BY <1>1, <1>2, <1>3 DEF ReadNativeScanResult, Result
<1>5. /\ y.ssid = p[1] /\ y.bssid = p[2] /\ y.frequency = p[4]
      /\ y.signal_mbm = p[5] /\ y.capability = p[7] % 65536
  BY <1>3 DEF Result
<1> QED
  BY <1>4, <1>5

(* What the framework is to read of a result of the HAL survives the parcel. *)
LEMMA HalResultSurvivesParcel ==
    ASSUME NEW r, r.capability \in Uint16, NEW x,
           x = NativeScanResult(r.ssid, r.bssid, <<>>, r.frequency, r.rssi, 0,
                                r.capability, FALSE, <<>>)
    PROVE  \E y : /\ ReadNativeScanResult(WriteNativeScanResult(x)) = <<y>>
                  /\ y.ssid = r.ssid /\ y.bssid = r.bssid
                  /\ y.frequency = r.frequency /\ y.signal_mbm = r.rssi
                  /\ y.capability = r.capability
<1>1. PICK ssid, bssid, freq, rssi, ie :
         /\ ssid = r.ssid /\ bssid = r.bssid /\ freq = r.frequency /\ rssi = r.rssi
         /\ ie = <<>>
  OBVIOUS
<1>2. PICK cap \in Uint16 : cap = r.capability
  OBVIOUS
<1>3. x = NativeScanResult(ssid, bssid, ie, freq, rssi, 0, cap, FALSE, <<>>)
  BY <1>1, <1>2, Zenon
<1>4. PICK p : p = WriteNativeScanResult(x)
  OBVIOUS
<1>5. /\ x.ssid = ssid /\ x.bssid = bssid /\ x.info_element = ie
      /\ x.frequency = freq /\ x.signal_mbm = rssi /\ x.tsf = 0
      /\ x.capability = cap /\ x.associated = FALSE
      /\ x.radio_chain_infos = <<>>
  BY <1>3 DEF NativeScanResult
<1>6. p = <<ssid, bssid, ie, freq, rssi, 0, cap, 0>> \o (<<0>> \o <<>>)
  BY <1>4, <1>5, NoChainsWritten DEF WriteNativeScanResult, Truth
<1>7. /\ p[1] = ssid /\ p[2] = bssid /\ p[3] = ie /\ p[4] = freq
      /\ p[5] = rssi /\ p[6] = 0 /\ p[7] = cap /\ p[8] = 0 /\ p[9] = 0
  BY <1>6, ParcelOfNine
<1>8. p[7] % 65536 = cap
  BY <1>7, Uint16IsKept
<1>9. PICK y : /\ ReadNativeScanResult(p) = <<y>>
              /\ y.ssid = p[1] /\ y.bssid = p[2] /\ y.frequency = p[4]
              /\ y.signal_mbm = p[5] /\ y.capability = p[7] % 65536
  BY <1>7, ResultRead
<1>10. /\ y.ssid = ssid /\ y.bssid = bssid /\ y.frequency = freq
      /\ y.signal_mbm = rssi /\ y.capability = cap
  BY <1>7, <1>8, <1>9
<1>11. ReadNativeScanResult(WriteNativeScanResult(x)) = <<y>>
  <2>1. ReadNativeScanResult(p) = <<y>>
    BY <1>9
  <2> QED
    BY <1>4, <2>1, Zenon
<1> QED
  BY <1>1, <1>2, <1>10, <1>11

(* All of what the HAL reported is read, in order, and nothing else.        *)
LEMMA ReportSurvivesParcels ==
    ASSUME NEW report \in Seq(HalResult), NEW c, NEW a,
           c = convertToNativeScanResults(report),
           a = FlattenSeq([i \in DOMAIN c |->
                   ReadNativeScanResult(WriteNativeScanResult(c[i]))])
    PROVE  /\ Len(a) = Len(report)
           /\ \A i \in DOMAIN a :
                 /\ a[i].ssid = report[i].ssid
                 /\ a[i].bssid = report[i].bssid
                 /\ a[i].frequency = report[i].frequency
                 /\ a[i].signal_mbm = report[i].rssi
                 /\ a[i].capability = report[i].capability
<1> DEFINE n == Len(report)
<1> DEFINE Read(i) == ReadNativeScanResult(WriteNativeScanResult(c[i]))
<1> DEFINE s == [i \in 1..n |-> Read(i)]
<1> DEFINE v == [i \in 1..n |-> Read(i)[1]]
<1> DEFINE Same(y, i) ==
      /\ y.ssid = report[i].ssid
      /\ y.bssid = report[i].bssid
      /\ y.frequency = report[i].frequency
      /\ y.signal_mbm = report[i].rssi
      /\ y.capability = report[i].capability
<1>1. n \in Nat /\ DOMAIN report = 1..n /\ DOMAIN c = 1..n
  BY DEF convertToNativeScanResults
<1>2. ASSUME NEW i \in 1..n
      PROVE  \E y : Read(i) = <<y>> /\ Same(y, i)
  <2>1. PICK r \in HalResult : r = report[i]
    BY <1>1
  <2>2. c[i] = NativeScanResult(r.ssid, r.bssid, <<>>, r.frequency, r.rssi, 0,
                                r.capability, FALSE, <<>>)
    BY <1>1, <2>1 DEF convertToNativeScanResults
  <2>3. r.capability \in Uint16
    BY DEF HalResult
  <2>4. PICK y : /\ Read(i) = <<y>>
                 /\ y.ssid = r.ssid /\ y.bssid = r.bssid
                 /\ y.frequency = r.frequency /\ y.signal_mbm = r.rssi
                 /\ y.capability = r.capability
    BY <2>2, <2>3, HalResultSurvivesParcel
  <2> QED
    BY <2>1, <2>4
<1> HIDE DEF Read, Same
<1>3. ASSUME NEW i \in 1..n
      PROVE  s[i] = <<v[i]>> /\ Same(v[i], i)
  <2>1. PICK y : Read(i) = <<y>> /\ Same(y, i)
    BY <1>2
  <2>2. Read(i)[1] = y
    BY <2>1
  <2> QED
    BY <2>1, <2>2
<1> DEFINE T == {v[i] : i \in 1..n}
<1>4. v \in Seq(T) /\ Len(v) = n /\ DOMAIN v = 1..n
  BY <1>1
<1>5. s = [i \in DOMAIN v |-> <<v[i]>>]
  BY <1>3, <1>4
<1>6. FlattenSeq(s) = v
  BY <1>4, <1>5, FlattenSingletons
<1>7. a = FlattenSeq(s)
  BY <1>1 DEF Read
<1>8. a = v
  BY <1>6, <1>7
<1>9. Len(a) = n /\ \A i \in DOMAIN a : Same(a[i], i)
  BY <1>3, <1>4, <1>8
<1> QED
  BY <1>9 DEF Same

---------------------------------------------------------------------------
(* The source of the news is the one getPnoScanResults reads.  That the     *)
(* subscriber of now is meant needs that news is forgotten with it, and     *)
(* that results are cached even when nobody is told.                        *)
NewsInv ==
    /\ last_report \in Seq(HalResult)
    /\ cached_scan_results = convertToNativeScanResults(last_report)
    /\ news # "none" => pno_scan_event_handler
    /\ news = "kernel" => ~pno_scan_results_from_offload
    /\ news \notin {"none", "kernel"} => pno_scan_results_from_offload

(* Reading the results as the invariant has it.                             *)
LEMMA NewsAreRead ==
    ASSUME NewsInv, getPnoScanResults
    PROVE  NewsCanBeRead'
<1>1. UNCHANGED <<news, pno_scan_results_from_offload, last_report,
                  cached_scan_results>>
  BY DEF getPnoScanResults, pnoVars, halVars
<1>2. CASE pno_scan_results_from_offload
  <2>1. /\ kernel' = <<>>
        /\ answer' = FlattenSeq([i \in DOMAIN cached_scan_results |->
               ReadNativeScanResult(WriteNativeScanResult(cached_scan_results[i]))])
    BY <1>2 DEF getPnoScanResults, Does
  <2>2. /\ Len(answer') = Len(last_report)
        /\ \A i \in DOMAIN answer' :
              /\ answer'[i].ssid = last_report[i].ssid
              /\ answer'[i].bssid = last_report[i].bssid
              /\ answer'[i].frequency = last_report[i].frequency
              /\ answer'[i].signal_mbm = last_report[i].rssi
              /\ answer'[i].capability = last_report[i].capability
    BY <2>1, ReportSurvivesParcels DEF NewsInv
  <2>3. news # "kernel"
    BY <1>2 DEF NewsInv
  <2> QED
    BY <1>1, <2>1, <2>2, <2>3 DEF NewsCanBeRead
<1>3. CASE ~pno_scan_results_from_offload
  <2>1. kernel' = <<GetScanResultRequest(InterfaceIndex)>>
    BY <1>3 DEF getPnoScanResults, Does
  <2>2. kernel' # <<>>
    BY <2>1
  <2>3. news \in {"none", "kernel"}
    BY <1>3 DEF NewsInv
  <2> QED
    BY <1>1, <2>2, <2>3 DEF NewsCanBeRead
<1> QED
  BY <1>2, <1>3


(* Every other call and every event names itself, and keeps the invariant.  *)
LEMMA NewsStayReadable ==
    ASSUME NewsInv, Next
    PROVE  NewsInv' /\ (getPnoScanResults \/ ~Of({"results"})')
<1> USE DEF NewsInv, Of, Event, Does, pnoVars, halVars
<1>1. CASE getPnoScanResults
  BY <1>1 DEF getPnoScanResults
<1>2. CASE \E p \in SingleParcels : scan(p)
  BY <1>2 DEF scan
<1>3. CASE \E p \in PnoParcels, ok \in BOOLEAN : startPnoScan(p, ok)
  BY <1>3 DEF startPnoScan
<1>4. CASE \E p \in PnoParcels : startPnoScanRefused(p)
  BY <1>4 DEF startPnoScanRefused
<1>5. CASE stopPnoScan
  BY <1>5 DEF stopPnoScan
<1>6. CASE OnOffloadError
  BY <1>6 DEF OnOffloadError
<1>7. CASE \E r \in HalReports : ReportScanResults(r)
  <2>1. PICK r \in HalReports : ReportScanResults(r)
    BY <1>7
  <2>2. r \in Seq(HalResult)
    BY HalReportsAssumption
  <2> QED
    BY <2>1, <2>2 DEF ReportScanResults
<1>8. CASE OnSchedScanResultsReady
  BY <1>8 DEF OnSchedScanResultsReady
<1>9. CASE \E started \in BOOLEAN : abortScan(started)
  BY <1>9 DEF abortScan
<1>10. CASE \E s \in HalStats : getScanStats(s)
  BY <1>10 DEF getScanStats
<1>11. CASE \E on \in BOOLEAN : SubscribePno(on)
  BY <1>11 DEF SubscribePno
<1>12. CASE MlmeEvent
  BY <1>12 DEF MlmeEvent
<1> QED
  BY <1>1, <1>2, <1>3, <1>4, <1>5, <1>6, <1>7, <1>8, <1>9, <1>10, <1>11, <1>12
     DEF Next

(* Who was told of networks by OnPnoNetworkFound reads them: from the       *)
(* kernel, or the last report of the HAL through the parcels, unchanged.    *)
THEOREM NewsAreReadable == Spec => []NewsCanBeRead
<1> DEFINE Inv == NewsInv /\ NewsCanBeRead
<1>1. Init => Inv
  <2> SUFFICES ASSUME Init PROVE Inv
    OBVIOUS
  <2>1. convertToNativeScanResults(<<>>) = <<>>
    BY DEF convertToNativeScanResults
  <2>2. NewsInv
    BY <2>1 DEF Init, NewsInv
  <2>3. NewsCanBeRead
    BY DEF Init, NewsCanBeRead, Of
  <2> QED
    BY <2>2, <2>3
<1>2. Inv /\ [Next]_vars => Inv'
  <2>1. ASSUME Inv, Next PROVE Inv'
    <3>1. NewsInv' /\ (getPnoScanResults \/ ~Of({"results"})')
      BY <2>1, NewsStayReadable
    <3>2. CASE getPnoScanResults
      BY <2>1, <3>1, <3>2, NewsAreRead
    <3>3. CASE ~Of({"results"})'
      BY <3>1, <3>3 DEF NewsCanBeRead
    <3> QED
      BY <3>1, <3>2, <3>3
  <2>2. ASSUME Inv, UNCHANGED vars PROVE Inv'
    BY <2>2 DEF vars, pnoVars, halVars, ioVars, NewsInv, NewsCanBeRead, Of
  <2> QED
    BY <2>1, <2>2
<1>3. QED
  BY <1>1, <1>2, PTL DEF Spec


---------------------------------------------------------------------------
(* Scan plans, the part of PnoScanIsAcceptable that is arithmetic.          *)
LEMMA QuotientBound ==
    ASSUME NEW a \in Nat, NEW m \in Nat, NEW k \in Nat \ {0}, a <= m * k
    PROVE  a \div k <= m
<1>1. PICK q \in Nat, r \in Nat : a = q * k + r /\ q = a \div k
  <2>1. a = (a \div k) * k + (a % k) /\ a \div k \in Nat /\ a % k \in Nat
    OBVIOUS
  <2> QED
    BY <2>1
<1>2. ASSUME q >= m + 1 PROVE FALSE
  <2>1. q * k >= (m + 1) * k
    BY <1>2
  <2>2. (m + 1) * k = m * k + k
    OBVIOUS
  <2> QED
    BY <1>1, <2>1, <2>2
<1> QED
  BY <1>1, <1>2

LEMMA QuotientPositive ==
    ASSUME NEW a \in Nat, NEW k \in Nat \ {0}, a >= k
    PROVE  a \div k \in Nat \ {0}
OBVIOUS

LEMMA RemainderBound ==
    ASSUME NEW a \in Nat, NEW n \in Nat \ {0}
    PROVE  a % n \in Nat /\ a % n <= a
OBVIOUS

(* GenerateIntervalSetting: for an interval of at least a second whose      *)
(* triple fits a word, the plans it makes are ones the driver announced,    *)
(* in number, iterations and, after the division by a second that           *)
(* StartScheduledScan does, intervals; and that holds although the product  *)
(* with max_scan_plan_interval may wrap.  Without plans the interval is the *)
(* one asked for.                                                           *)
THEOREM PlansFitTheDevice ==
    ASSUME NEW interval_ms \in Nat, interval_ms >= kMsecPerSec,
           interval_ms * kSlowScanIntervalMultiplier < Word,
           scan_capabilities.max_num_scan_plans \in Nat,
           scan_capabilities.max_scan_plan_interval \in Nat,
           scan_capabilities.max_scan_plan_iterations \in Nat,
           NEW setting, setting = GenerateIntervalSetting(interval_ms)
    PROVE  \/ setting.plans = <<>> /\ setting.final_interval_ms = interval_ms
           \/ /\ Len(setting.plans) = 1
              /\ Len(setting.plans) + 1 <= scan_capabilities.max_num_scan_plans
              /\ setting.plans[1].n_iterations \in
                    1 .. scan_capabilities.max_scan_plan_iterations
              /\ setting.plans[1].interval_ms \div kMsecPerSec \in
                    1 .. scan_capabilities.max_scan_plan_interval
              /\ setting.final_interval_ms \div kMsecPerSec \in
                    1 .. scan_capabilities.max_scan_plan_interval
<1>1. PICK number, longest, iterations \in Nat :
         /\ number = scan_capabilities.max_num_scan_plans
         /\ longest = scan_capabilities.max_scan_plan_interval
         /\ iterations = scan_capabilities.max_scan_plan_iterations
  OBVIOUS
<1>2. Word \in Nat \ {0} /\ kMsecPerSec \in Nat \ {0}
  BY WordAssumption, SecondAssumption
<1>3. PICK slow \in Nat : slow = interval_ms * 3
  OBVIOUS
<1>4. interval_ms < Word /\ slow < Word /\ interval_ms <= slow
  BY <1>2, <1>3 DEF kSlowScanIntervalMultiplier
<1>5. interval_ms % Word = interval_ms /\ slow % Word = slow
  BY <1>2, <1>4, SmallIsKept
<1>6. PICK supported \in BOOLEAN :
         supported = (/\ number >= 2
                      /\ (longest * kMsecPerSec) % Word >= slow
                      /\ iterations >= 3)
  OBVIOUS
<1>7. setting = IF supported
                THEN [plans |-> <<[interval_ms |-> interval_ms, n_iterations |-> 3]>>,
                      final_interval_ms |-> slow]
                ELSE [plans |-> <<>>, final_interval_ms |-> interval_ms]
  BY <1>1, <1>3, <1>5, <1>6
     DEF GenerateIntervalSetting, kSlowScanIntervalMultiplier, kFastScanIterations
<1>8. CASE ~supported
  BY <1>7, <1>8
<1>9. CASE supported
  <2>1. PICK plan : plan = [interval_ms |-> interval_ms, n_iterations |-> 3]
    OBVIOUS
  <2>2. plan.interval_ms = interval_ms /\ plan.n_iterations = 3
    BY <2>1
  <2>3. setting.plans = <<plan>> /\ setting.final_interval_ms = slow
    BY <1>7, <1>9, <2>1
  <2>4. Len(setting.plans) = 1 /\ setting.plans[1] = plan
    BY <2>3
  <2>5. /\ number >= 2 /\ iterations >= 3
        /\ (longest * kMsecPerSec) % Word >= slow
    BY <1>6, <1>9
  <2>6. PICK product \in Nat : product = longest * kMsecPerSec
    BY <1>2
  <2>7. product % Word \in Nat /\ product % Word <= product
    BY <1>2, <2>6, RemainderBound
  <2>8. slow <= longest * kMsecPerSec /\ interval_ms <= longest * kMsecPerSec
    BY <1>4, <2>5, <2>6, <2>7
  <2>9. /\ slow \div kMsecPerSec <= longest
        /\ interval_ms \div kMsecPerSec <= longest
    BY <1>2, <2>8, QuotientBound
  <2>10. /\ slow \div kMsecPerSec \in Nat \ {0}
         /\ interval_ms \div kMsecPerSec \in Nat \ {0}
    BY <1>2, <1>4, QuotientPositive
  <2>11. /\ slow \div kMsecPerSec \in 1..longest
         /\ interval_ms \div kMsecPerSec \in 1..longest
    BY <2>9, <2>10
  <2>12. 3 \in 1..iterations /\ 1 + 1 <= number
    BY <2>5
  <2> QED
    BY <1>1, <2>2, <2>3, <2>4, <2>11, <2>12
<1> QED
  BY <1>8, <1>9

-----------------------------------------------------------------------------
(* The lists of a request.  First one-shot scans: the hidden networks that  *)
(* are added to the wildcard are the first ones, up to the limit.           *)

\* How many of k hidden networks there is room for beside the wildcard.
RoomFor(k, limit) == IF limit = 0 THEN 0 ELSE IF k <= limit - 1 THEN k ELSE limit - 1

\* The wildcard and the first m hidden networks.
Wanted(hidden, m) == [j \in 1 .. m + 1 |-> IF j = 1 THEN <<>> ELSE hidden[j - 1].ssid]

LEMMA WantedIs ==
    ASSUME NEW hidden \in Seq([ssid : Ssid]), NEW m \in 0..Len(hidden)
    PROVE  /\ Wanted(hidden, m) \in Seq(Ssid) /\ Len(Wanted(hidden, m)) = m + 1
           /\ Wanted(hidden, m)[1] = <<>>
           /\ \A i \in 1..m : Wanted(hidden, m)[i + 1] = hidden[i].ssid
<1>1. <<>> \in Ssid
  BY DEF Ssid
<1>2. ASSUME NEW i \in 1..m PROVE hidden[i].ssid \in Ssid
  <2>1. i \in 1..Len(hidden)
    OBVIOUS
  <2>2. hidden[i] \in [ssid : Ssid]
    BY <2>1, ElementOfSeq, Zenon
  <2> QED
    BY <2>2
<1>3. ASSUME NEW j \in 1..(m + 1) PROVE Wanted(hidden, m)[j] \in Ssid
  <2>1. CASE j = 1
    BY <1>1, <2>1 DEF Wanted
  <2>2. CASE j # 1
    <3>1. j - 1 \in 1..m
      BY <2>2
    <3> QED
      BY <1>2, <2>2, <3>1 DEF Wanted
  <2> QED
    BY <2>1, <2>2
<1>4. Wanted(hidden, m) \in Seq(Ssid) /\ Len(Wanted(hidden, m)) = m + 1
  BY <1>3 DEF Wanted
<1>5. Wanted(hidden, m)[1] = <<>>
  BY DEF Wanted
<1>6. ASSUME NEW i \in 1..m PROVE Wanted(hidden, m)[i + 1] = hidden[i].ssid
  <2>1. i + 1 \in 1..(m + 1) /\ i + 1 # 1 /\ (i + 1) - 1 = i
    OBVIOUS
  <2> QED
    BY <2>1 DEF Wanted
<1> QED
  BY <1>4, <1>5, <1>6

LEMMA WantedGrows ==
    ASSUME NEW hidden \in Seq([ssid : Ssid]), NEW m \in 0..(Len(hidden) - 1)
    PROVE  Append(Wanted(hidden, m), hidden[m + 1].ssid) = Wanted(hidden, m + 1)
<1>1. m \in 0..Len(hidden) /\ m + 1 \in 0..Len(hidden) /\ m + 1 \in 1..Len(hidden)
  OBVIOUS
<1>2. PICK k \in 0..Len(hidden) : k = m + 1 /\ k \in 1..Len(hidden)
  BY <1>1
<1>3. PICK a \in Seq(Ssid) : a = Wanted(hidden, m) /\ Len(a) = m + 1
  BY <1>1, WantedIs, Zenon
<1>4. PICK b \in Seq(Ssid) : b = Wanted(hidden, k) /\ Len(b) = k + 1
  BY WantedIs, Zenon
<1>5. PICK e \in Ssid : e = hidden[k].ssid
  <2>1. hidden[k] \in [ssid : Ssid]
    BY <1>2, ElementOfSeq, Zenon
  <2> QED
    BY <2>1
<1>6. /\ Append(a, e) \in Seq(Ssid) /\ Len(Append(a, e)) = Len(a) + 1
      /\ \A i \in 1..Len(a) : Append(a, e)[i] = a[i]
      /\ Append(a, e)[Len(a) + 1] = e
  BY AppendProperties
<1>7. /\ Len(Append(a, e)) = k + 1
      /\ \A i \in 1..k : Append(a, e)[i] = a[i]
      /\ Append(a, e)[k + 1] = e
  BY <1>2, <1>3, <1>6
<1>8. \A i \in 1..k : b[i] = a[i]
  BY <1>2, <1>3, <1>4 DEF Wanted
<1>9. b[k + 1] = e
  BY <1>2, <1>4, <1>5 DEF Wanted
<1>10. \A i \in 1..(k + 1) : Append(a, e)[i] = b[i]
  <2>1. \A i \in 1..(k + 1) : i \in 1..k \/ i = k + 1
    OBVIOUS
  <2> QED
    BY <1>7, <1>8, <1>9, <2>1, Zenon
<1>11. Append(a, e) = b
  <2>1. Len(Append(a, e)) = Len(b) /\ \A i \in 1..Len(b) : Append(a, e)[i] = b[i]
    BY <1>4, <1>7, <1>10, Zenon
  <2> QED
    BY <1>6, <2>1, SeqEqual
<1> QED
  BY <1>2, <1>3, <1>4, <1>5, <1>11

LEMMA HiddenAreAdded ==
    ASSUME NEW hidden \in Seq([ssid : Ssid]), NEW n \in Nat, n = Len(hidden),
           NEW limit \in Nat, limit = scan_capabilities.max_num_scan_ssids
    PROVE  SingleScanSsids(hidden) = Wanted(hidden, RoomFor(n, limit))
<1> DEFINE Step(g) == [k \in 0..n |-> IF k = 0 THEN <<<<>>>>
                                      ELSE AddHiddenSsid(g[k - 1], hidden[k])]
<1> DEFINE F == CHOOSE g : g = Step(g)
<1> DEFINE W == [k \in 0..n |-> Wanted(hidden, RoomFor(k, limit))]
<1>1. SingleScanSsids(hidden) = F[n]
  BY DEF SingleScanSsids
<1>2. \A k \in 0..n : RoomFor(k, limit) \in 0..k /\ RoomFor(k, limit) \in 0..n
  BY DEF RoomFor
<1>3. Wanted(hidden, 0) = <<<<>>>>
  BY DEF Wanted
<1>4. W[0] = <<<<>>>>
  BY <1>3 DEF RoomFor
<1>5. ASSUME NEW k \in 1..n PROVE AddHiddenSsid(W[k - 1], hidden[k]) = W[k]
  <2>1. k - 1 \in 0..n /\ k \in 0..n
    OBVIOUS
  <2>2. PICK m \in 0..n : m = RoomFor(k - 1, limit) /\ m \in 0..(k - 1)
    BY <1>2, <2>1
  <2>3. W[k - 1] = Wanted(hidden, m) /\ W[k] = Wanted(hidden, RoomFor(k, limit))
    BY <2>1, <2>2
  <2>4. Len(Wanted(hidden, m)) = m + 1
    BY WantedIs
  <2>5. CASE m + 2 > limit
    <3>1. RoomFor(k, limit) = m
      BY <2>2, <2>5 DEF RoomFor
    <3>2. Len(Wanted(hidden, m)) + 1 > limit
      BY <2>4, <2>5
    <3> QED
      BY <2>3, <3>1, <3>2 DEF AddHiddenSsid
  <2>6. CASE ~(m + 2 > limit)
    <3>1. m = k - 1 /\ RoomFor(k, limit) = k
      BY <2>2, <2>6 DEF RoomFor
    <3>2. ~(Len(Wanted(hidden, m)) + 1 > limit)
      BY <2>4, <2>6
    <3>3. m \in 0..(n - 1) /\ m + 1 = k
      BY <3>1
    <3>4. Append(Wanted(hidden, m), hidden[m + 1].ssid) = Wanted(hidden, m + 1)
      BY <3>3, WantedGrows
    <3> QED
      BY <2>3, <3>1, <3>2, <3>3, <3>4 DEF AddHiddenSsid
  <2> QED
    BY <2>5, <2>6
<1>6. W = [k \in 0..n |-> W[k]] /\ W[n] = Wanted(hidden, RoomFor(n, limit))
  OBVIOUS
<1> HIDE DEF W
<1>7. W = Step(W)
  <2>1. ASSUME NEW k \in 0..n PROVE W[k] = Step(W)[k]
    <3>1. CASE k = 0
      BY <1>4, <3>1
    <3>2. CASE k # 0
      <4>1. k \in 1..n
        BY <3>2
      <4> QED
        BY <1>5, <3>2, <4>1
    <3> QED
      BY <3>1, <3>2
  <2> QED
    BY <1>6, <2>1
<1>8. F = Step(F)
  <2> HIDE DEF Step
  <2> QED
    BY <1>7
<1> HIDE DEF F
<1>9. F[0] = <<<<>>>> /\ \A k \in 1..n : F[k] = AddHiddenSsid(F[k - 1], hidden[k])
  BY <1>8
<1> DEFINE S == {k \in 0..n : F[k] = W[k]}
<1>10. 0 \in S
  BY <1>4, <1>9
<1>11. ASSUME NEW k \in 0..(n - 1), k \in S PROVE k + 1 \in S
  <2>1. k + 1 \in 1..n /\ k + 1 \in 0..n /\ (k + 1) - 1 = k
    OBVIOUS
  <2>2. F[k + 1] = AddHiddenSsid(F[k], hidden[k + 1]) /\ W[k + 1] = AddHiddenSsid(W[k], hidden[k + 1])
    BY <1>5, <1>9, <2>1
  <2> QED
    BY <1>11, <2>1, <2>2
<1> HIDE DEF S
<1>12. n \in S
  <2>1. \A k \in 0..n : k \in S
    BY <1>10, <1>11, Induction, Zenon
  <2> QED
    BY <2>1
<1> QED
  BY <1>1, <1>6, <1>12 DEF S

-----------------------------------------------------------------------------
(* Packets *)

\* The attribute of a packet with this id, if any.
Find(p, id) == GetAttributeImpl(p.body, id)

IsPacket(p) ==
    \E t, c, f, b : p = [type |-> t, command |-> c, flags |-> f, body |-> b] /\ WellFormed(b)

LEMMA NewPacket ==
    ASSUME NEW t, NEW c, NEW f, NEW p, p = AddFlag(NL80211Packet(t, c), f)
    PROVE  IsPacket(p) /\ \A id : Find(p, id) = <<>>
<1>1. PICK b : b = <<>>
  OBVIOUS
<1>2. PICK g : g = {"NLM_F_REQUEST"} \cup {f}
  OBVIOUS
<1>3. p = [type |-> t, command |-> c, flags |-> g, body |-> b]
  BY <1>1, <1>2 DEF AddFlag, NL80211Packet
<1>4. WellFormed(b) /\ \A id : GetAttributeImpl(b, id) = <<>>
  BY <1>1, EmptyBuffer, Zenon
<1>5. p.body = b
  BY <1>3
<1> QED
  BY <1>3, <1>4, <1>5, Zenon DEF IsPacket, Find

LEMMA PacketGrows ==
    ASSUME NEW p, IsPacket(p), NEW a \in Attr, NEW q, q = PacketAdd(p, a)
    PROVE  /\ IsPacket(q)
           /\ \A id : Find(q, id) = IF Find(p, id) # <<>> THEN Find(p, id)
                                    ELSE IF GetAttributeId(a) = id THEN <<a>> ELSE <<>>
<1>1. PICK t, c, f, b : p = [type |-> t, command |-> c, flags |-> f, body |-> b] /\ WellFormed(b)
  BY DEF IsPacket
<1>2. PICK d : d = b \o a
  BY Zenon
<1>3. q = [type |-> t, command |-> c, flags |-> f, body |-> d]
  <2>1. q = [p EXCEPT !.body = d]
    BY <1>1, <1>2 DEF PacketAdd
  <2> QED
    BY <1>1, <2>1
<1>4. p.body = b /\ q.body = d
  BY <1>1, <1>3
<1>5. /\ WellFormed(d)
      /\ \A id : GetAttributeImpl(d, id) =
                   IF GetAttributeImpl(b, id) # <<>> THEN GetAttributeImpl(b, id)
                   ELSE IF GetAttributeId(a) = id THEN <<a>> ELSE <<>>
  BY <1>1, <1>2, BufferGrows
<1> QED
  BY <1>3, <1>4, <1>5, Zenon DEF IsPacket, Find

LEMMA Ids ==
    /\ ATTR.IFINDEX = 3 /\ ATTR.SCAN_FREQUENCIES = 44 /\ ATTR.SCAN_SSIDS = 45
    /\ ATTR.SCHED_SCAN_INTERVAL = 119 /\ ATTR.SCHED_SCAN_MATCH = 132
    /\ ATTR.SCAN_FLAGS = 158 /\ ATTR.SCHED_SCAN_PLANS = 225
    /\ ATTR.SCHED_SCAN_RSSI_ADJUST = 247
BY DEF ATTR

(* What the kernel reads out of a list.                                     *)
LEMMA ValuesOfNest ==
    ASSUME NEW p, NEW id, NEW a, NEW attrs \in Seq(Attr), IsNest(a, id, attrs), Find(p, id) = <<a>>,
           NEW T, NEW values \in Seq(T), Len(attrs) = Len(values),
           \A i \in 1..Len(values) : RawValue(attrs[i]) = values[i]
    PROVE  Values(p, id) = values
<1>1. IfFound(GetNested(p.body, id), AttributesOf) = attrs
  BY NestIsFound DEF Find
<1>2. Values(p, id) = [i \in DOMAIN attrs |-> RawValue(attrs[i])]
  BY <1>1 DEF Values
<1>3. DOMAIN attrs = 1..Len(values) /\ DOMAIN values = 1..Len(values)
  OBVIOUS
<1>4. values = [i \in 1..Len(values) |-> values[i]]
  OBVIOUS
<1> QED
  BY <1>2, <1>3, <1>4

LEMMA ValuesOfNothing ==
    ASSUME NEW p, NEW id, Find(p, id) = <<>>
    PROVE  Values(p, id) = <<>>
<1>1. IfFound(GetNested(p.body, id), AttributesOf) = <<>>
  BY NothingIsFound DEF Find
<1> QED
  BY <1>1 DEF Values

(* An SSID in an attribute takes at most 40 bytes.                          *)
LEMMA SsidAttribute ==
    ASSUME NEW id \in Nat, id < Size16, NEW ssid \in Ssid
    PROVE  \E a \in Attr : /\ a = BaseNL80211Attr(id, ssid)
                           /\ GetAttributeId(a) = id
                           /\ RawValue(a) = ssid
                           /\ Len(a) <= 40
<1>1. ssid \in Seq(Byte) /\ Len(ssid) <= 32
  BY DEF Ssid
<1>2. PICK raw \in Seq(Byte) : raw = ssid
  BY <1>1
<1>3. PICK n \in Nat : n = Len(raw) /\ n <= 32
  BY <1>1, <1>2
<1>4. 4 + n < Size16
  BY <1>3 DEF Size16
<1>5. PICK a \in Attr : /\ a = BaseNL80211Attr(id, raw)
                        /\ GetAttributeId(a) = id
                        /\ RawValue(a) = raw
                        /\ nla_len(a, 1) = 4 + n
                        /\ Len(a) = 4 + NLA_ALIGN(n)
  <2>1. n = Len(raw)
    BY <1>3, Zenon
  <2> QED
    BY <1>4, <2>1, AttributeIsBuilt, Zenon
<1>6. Len(a) <= 40
  BY <1>3, <1>5 DEF NLA_ALIGN
<1> QED
  BY <1>2, <1>5, <1>6, Zenon

(* A list attribute: one attribute for each value, numbered from 0.         *)
LEMMA SsidsAreListed ==
    ASSUME NEW id \in Nat, id < Size16, NEW ssids \in Seq(Ssid), NEW n \in Nat, n = Len(ssids),
           n <= 256
    PROVE  \E attrs \in Seq(Attr) :
              /\ IsNest(SsidsAttr(id, ssids), id, attrs)
              /\ Len(attrs) = n
              /\ \A i \in 1..n : RawValue(attrs[i]) = ssids[i]
<1> DEFINE attrs == [i \in 1..n |-> BaseNL80211Attr(i - 1, ssids[i])]
<1>1. DOMAIN ssids = 1..n
  OBVIOUS
<1>2. SsidsAttr(id, ssids) = Nest(id, attrs)
  BY <1>1 DEF SsidsAttr, ListAttr
<1>3. ASSUME NEW i \in 1..n
      PROVE  /\ BaseNL80211Attr(i - 1, ssids[i]) \in Attr
             /\ RawValue(BaseNL80211Attr(i - 1, ssids[i])) = ssids[i]
             /\ Len(BaseNL80211Attr(i - 1, ssids[i])) <= 40
  <2>1. PICK j \in Nat : j = i - 1
    OBVIOUS
  <2>2. j < Size16
    BY <2>1 DEF Size16
  <2>3. ssids[i] \in Ssid
    OBVIOUS
  <2>4. PICK ssid \in Ssid : ssid = ssids[i]
    BY <2>3, Zenon
  <2>5. PICK a \in Attr : /\ a = BaseNL80211Attr(j, ssid)
                          /\ GetAttributeId(a) = j
                          /\ RawValue(a) = ssid
                          /\ Len(a) <= 40
    BY <2>2, SsidAttribute, Zenon
  <2> QED
    BY <2>1, <2>4, <2>5, Zenon
<1>4. attrs \in Seq(Attr) /\ Len(attrs) = n
  BY <1>3
<1>5. \A i \in 1..n : RawValue(attrs[i]) = ssids[i] /\ Len(attrs[i]) <= 40
  BY <1>3
<1> HIDE DEF attrs
<1> DEFINE top == [k \in 0..n |-> 4 + 40 * k]
<1>6. top \in [0..n -> Nat] /\ top[0] >= 4
  OBVIOUS
<1>7. \A i \in 1..n : top[i - 1] + Len(attrs[i]) <= top[i]
  <2>1. \A i \in 1..n : Len(attrs[i]) \in Nat
    BY <1>4, AttrIsAligned
  <2> QED
    BY <1>5, <2>1
<1>8. \A i \in 0..n : top[i] < Size16
  BY DEF Size16
<1> HIDE DEF top
<1>9. IsNest(Nest(id, attrs), id, attrs)
  BY <1>4, <1>6, <1>7, <1>8, NestHolds
<1> QED
  BY <1>2, <1>4, <1>5, <1>9, Zenon

LEMMA FreqsAreListed ==
    ASSUME NEW freqs \in Seq(Uint32), NEW n \in Nat, n = Len(freqs), 4 + 8 * n < Size16
    PROVE  \E attrs \in Seq(Attr) :
              /\ IsNest(FreqsAttr(freqs), ATTR.SCAN_FREQUENCIES, attrs)
              /\ Len(attrs) = n
              /\ \A i \in 1..n : RawValue(attrs[i]) = IntBytes(freqs[i], 4)
<1> DEFINE attrs == [i \in 1..n |-> IntAttr(i - 1, freqs[i], 4)]
<1>1. DOMAIN freqs = 1..n
  OBVIOUS
<1>2. FreqsAttr(freqs) = Nest(ATTR.SCAN_FREQUENCIES, attrs)
  BY <1>1 DEF FreqsAttr, ListAttr
<1>3. ASSUME NEW i \in 1..n
      PROVE  /\ IntAttr(i - 1, freqs[i], 4) \in Attr
             /\ RawValue(IntAttr(i - 1, freqs[i], 4)) = IntBytes(freqs[i], 4)
             /\ Len(IntAttr(i - 1, freqs[i], 4)) = 8
  <2>1. PICK j \in Nat : j = i - 1
    OBVIOUS
  <2>2. j < Size16
    BY <2>1 DEF Size16
  <2>3. freqs[i] \in Int
    BY DEF Uint32
  <2>4. PICK a \in Attr : /\ a = IntAttr(j, freqs[i], 4)
                          /\ RawValue(a) = IntBytes(freqs[i], 4)
                          /\ Len(a) = 8
    BY <2>2, <2>3, FourByteAttribute, Zenon
  <2> QED
    BY <2>1, <2>4, Zenon
<1>4. attrs \in Seq(Attr) /\ Len(attrs) = n
  BY <1>3
<1>5. \A i \in 1..n : RawValue(attrs[i]) = IntBytes(freqs[i], 4) /\ Len(attrs[i]) = 8
  BY <1>3
<1> HIDE DEF attrs
<1> DEFINE top == [k \in 0..n |-> 4 + 8 * k]
<1>6. top \in [0..n -> Nat] /\ top[0] >= 4
  OBVIOUS
<1>7. ASSUME NEW i \in 1..n PROVE top[i - 1] + Len(attrs[i]) <= top[i]
  <2>1. i - 1 \in 0..n /\ i \in 0..n
    OBVIOUS
  <2>2. top[i - 1] = 4 + 8 * (i - 1) /\ top[i] = 4 + 8 * i
    BY <2>1
  <2>3. Len(attrs[i]) = 8
    BY <1>5
  <2> HIDE DEF top
  <2> QED
    BY <2>2, <2>3
<1>8. \A i \in 0..n : top[i] < Size16
  BY DEF Size16
<1> HIDE DEF top
<1>9. PICK id \in Nat : id = ATTR.SCAN_FREQUENCIES /\ id < Size16
  BY Ids DEF Size16
<1>10. IsNest(Nest(id, attrs), id, attrs)
  BY <1>4, <1>6, <1>7, <1>8, <1>9, NestHolds
<1> QED
  BY <1>2, <1>4, <1>5, <1>9, <1>10, Zenon

LEMMA PacketMayGrow ==
    ASSUME NEW p, IsPacket(p), NEW c \in BOOLEAN, NEW a, c => a \in Attr,
           NEW q, q = IF c THEN PacketAdd(p, a) ELSE p
    PROVE  /\ IsPacket(q)
           /\ \A id : Find(q, id) = IF Find(p, id) # <<>> THEN Find(p, id)
                                    ELSE IF c /\ GetAttributeId(a) = id THEN <<a>> ELSE <<>>
<1>1. CASE c
  BY <1>1, PacketGrows
<1>2. CASE ~c
  BY <1>2
<1> QED
  BY <1>1, <1>2

LEMMA SingletonIsNotEmpty == \A a : <<a>> # <<>>
OBVIOUS

LEMMA IdsAreSmall ==
    /\ ATTR.IFINDEX \in Nat /\ ATTR.IFINDEX < Size16
    /\ ATTR.SCAN_FREQUENCIES \in Nat /\ ATTR.SCAN_FREQUENCIES < Size16
    /\ ATTR.SCAN_SSIDS \in Nat /\ ATTR.SCAN_SSIDS < Size16
    /\ ATTR.SCHED_SCAN_INTERVAL \in Nat /\ ATTR.SCHED_SCAN_INTERVAL < Size16
    /\ ATTR.SCHED_SCAN_MATCH \in Nat /\ ATTR.SCHED_SCAN_MATCH < Size16
    /\ ATTR.SCAN_FLAGS \in Nat /\ ATTR.SCAN_FLAGS < Size16
    /\ ATTR.SCHED_SCAN_PLANS \in Nat /\ ATTR.SCHED_SCAN_PLANS < Size16
    /\ ATTR.SCHED_SCAN_RSSI_ADJUST \in Nat /\ ATTR.SCHED_SCAN_RSSI_ADJUST < Size16
BY Ids DEF Size16

\* Lists that fit into an attribute.
SsidList == {s \in Seq(Ssid) : Len(s) <= 256}
FreqList == {f \in Seq(Uint32) : 4 + 8 * Len(f) < Size16}

\* The flags of a one-shot scan, and what is found in its packet.
ScanFlags(random, type) == FlagIf(random, SCAN_FLAG.RANDOM_ADDR) + ScanTypeFlag(type)

IsScan(p, ssids, freqs, flags) ==
    /\ Find(p, ATTR.SCAN_SSIDS) = <<SsidsAttr(ATTR.SCAN_SSIDS, ssids)>>
    /\ Find(p, ATTR.SCAN_FREQUENCIES) = IF freqs = <<>> THEN <<>> ELSE <<FreqsAttr(freqs)>>
    /\ Find(p, ATTR.SCAN_FLAGS) =
          IF flags = 0 THEN <<>> ELSE <<IntAttr(ATTR.SCAN_FLAGS, flags, 4)>>

(* What was put into the packet of a one-shot scan is found in it.          *)
LEMMA ScanRequestHolds ==
    ASSUME NEW index \in Nat, NEW random, NEW type, NEW ssids \in SsidList,
           NEW freqs \in FreqList, ScanFlags(random, type) \in Nat
    PROVE  IsScan(ScanRequest(index, random, type, ssids, freqs), ssids, freqs,
                  ScanFlags(random, type))
<1>1. PICK flags \in Nat : flags = ScanFlags(random, type)
  OBVIOUS
<1>2. PICK p : p = ScanRequest(index, random, type, ssids, freqs)
  OBVIOUS
<1>3. PICK a1 \in Attr : /\ a1 = IntAttr(ATTR.IFINDEX, index, 4)
                         /\ GetAttributeId(a1) = ATTR.IFINDEX
  <2>1. index \in Int
    OBVIOUS
  <2> QED
    BY <2>1, IdsAreSmall, FourByteAttribute
<1>4. PICK a2 \in Attr : /\ a2 = SsidsAttr(ATTR.SCAN_SSIDS, ssids)
                         /\ GetAttributeId(a2) = ATTR.SCAN_SSIDS
  <2>1. PICK n \in Nat : ssids \in Seq(Ssid) /\ n = Len(ssids) /\ n <= 256
    BY DEF SsidList
  <2>2. PICK attrs : IsNest(SsidsAttr(ATTR.SCAN_SSIDS, ssids), ATTR.SCAN_SSIDS, attrs)
    BY <2>1, IdsAreSmall, SsidsAreListed
  <2> QED
    BY <2>2 DEF IsNest
<1>5. PICK a3 \in Attr : /\ a3 = FreqsAttr(freqs)
                         /\ GetAttributeId(a3) = ATTR.SCAN_FREQUENCIES
  <2>1. PICK n \in Nat : freqs \in Seq(Uint32) /\ n = Len(freqs) /\ 4 + 8 * n < Size16
    BY DEF FreqList
  <2>2. PICK attrs : IsNest(FreqsAttr(freqs), ATTR.SCAN_FREQUENCIES, attrs)
    BY <2>1, FreqsAreListed
  <2> QED
    BY <2>2 DEF IsNest
<1>6. PICK a4 \in Attr : /\ a4 = IntAttr(ATTR.SCAN_FLAGS, flags, 4)
                         /\ GetAttributeId(a4) = ATTR.SCAN_FLAGS
  <2>1. flags \in Int
    OBVIOUS
  <2> QED
    BY <2>1, IdsAreSmall, FourByteAttribute
<1>7. PICK p0 : p0 = AddFlag(NL80211Packet(FamilyId, "TRIGGER_SCAN"), "NLM_F_ACK")
  BY Zenon
<1>8. PICK p1 : p1 = PacketAdd(p0, a1)
  BY Zenon
<1>9. PICK p2 : p2 = PacketAdd(p1, a2)
  BY Zenon
<1>10. PICK some \in BOOLEAN : some = (freqs # <<>>)
  BY Zenon
<1>11. PICK p3 : p3 = IF some THEN PacketAdd(p2, a3) ELSE p2
  BY Zenon
<1>12. PICK flagged \in BOOLEAN : flagged = (flags # 0)
  BY Zenon
<1>13. PICK p4 : p4 = IF flagged THEN PacketAdd(p3, a4) ELSE p3
  BY Zenon
<1>14. p = p4
  BY <1>3, <1>4, <1>5, <1>6, <1>7, <1>8, <1>9, <1>10, <1>11, <1>12, <1>13, <1>1, <1>2
     DEF ScanRequest, AddFreqs, AddScanFlags, ScanFlags
<1>15. IsPacket(p0) /\ \A id : Find(p0, id) = <<>>
  BY <1>7, NewPacket
<1>16. /\ IsPacket(p1)
       /\ \A id : Find(p1, id) = IF Find(p0, id) # <<>> THEN Find(p0, id)
                                 ELSE IF GetAttributeId(a1) = id THEN <<a1>> ELSE <<>>
  BY <1>8, <1>15, PacketGrows
<1>17. /\ IsPacket(p2)
       /\ \A id : Find(p2, id) = IF Find(p1, id) # <<>> THEN Find(p1, id)
                                 ELSE IF GetAttributeId(a2) = id THEN <<a2>> ELSE <<>>
  BY <1>9, <1>16, PacketGrows
<1>18. /\ IsPacket(p3)
       /\ \A id : Find(p3, id) = IF Find(p2, id) # <<>> THEN Find(p2, id)
                                 ELSE IF some /\ GetAttributeId(a3) = id THEN <<a3>> ELSE <<>>
  BY <1>11, <1>17, PacketMayGrow
<1>19. \A id : Find(p4, id) = IF Find(p3, id) # <<>> THEN Find(p3, id)
                              ELSE IF flagged /\ GetAttributeId(a4) = id THEN <<a4>> ELSE <<>>
  BY <1>13, <1>18, PacketMayGrow
<1>20. /\ ATTR.IFINDEX # ATTR.SCAN_SSIDS /\ ATTR.IFINDEX # ATTR.SCAN_FREQUENCIES
       /\ ATTR.IFINDEX # ATTR.SCAN_FLAGS /\ ATTR.SCAN_SSIDS # ATTR.SCAN_FREQUENCIES
       /\ ATTR.SCAN_SSIDS # ATTR.SCAN_FLAGS /\ ATTR.SCAN_FREQUENCIES # ATTR.SCAN_FLAGS
  BY Ids
<1>21. Find(p4, ATTR.SCAN_SSIDS) = <<a2>>
  BY <1>3, <1>4, <1>15, <1>16, <1>17, <1>18, <1>19, <1>20, SingletonIsNotEmpty, Zenon
<1>22. Find(p4, ATTR.SCAN_FREQUENCIES) = IF some THEN <<a3>> ELSE <<>>
  <2>1. Find(p2, ATTR.SCAN_FREQUENCIES) = <<>>
    BY <1>3, <1>4, <1>15, <1>16, <1>17, <1>20, Zenon
  <2>2. Find(p3, ATTR.SCAN_FREQUENCIES) = IF some THEN <<a3>> ELSE <<>>
    BY <1>5, <1>18, <2>1, Zenon
  <2> QED
    BY <1>6, <1>19, <1>20, <2>2, SingletonIsNotEmpty, Zenon
<1>23. Find(p4, ATTR.SCAN_FLAGS) = IF flagged THEN <<a4>> ELSE <<>>
  <2>1. Find(p2, ATTR.SCAN_FLAGS) = <<>>
    BY <1>3, <1>4, <1>15, <1>16, <1>17, <1>20, Zenon
  <2>2. Find(p3, ATTR.SCAN_FLAGS) = <<>>
    BY <1>5, <1>18, <1>20, <2>1, Zenon
  <2> QED
    BY <1>6, <1>19, <2>2, Zenon
<1> QED
  BY <1>4, <1>5, <1>6, <1>10, <1>12, <1>14, <1>21, <1>22, <1>23, <1>1, <1>2, Zenon DEF IsScan

-----------------------------------------------------------------------------
(* One-shot scans *)

LEMMA MaxOfTwo ==
    ASSUME NEW x \in Int, NEW y \in Int
    PROVE  Max({x, y}) = IF x <= y THEN y ELSE x
<1>1. PICK z \in {x, y} : z = IF x <= y THEN y ELSE x
  OBVIOUS
<1>2. \A w \in {x, y} : z >= w
  BY <1>1
<1>3. \A w \in {x, y} : (\A v \in {x, y} : w >= v) => w = z
  BY <1>1
<1> QED
  BY <1>1, <1>2, <1>3 DEF Max

LEMMA RoomAsWritten ==
    ASSUME NEW n \in Nat, NEW limit \in Nat
    PROVE  Max({0, Min({n, limit - 1})}) = RoomFor(n, limit)
<1>1. PICK l \in Int : l = limit - 1
  OBVIOUS
<1>2. Min({n, l}) = IF n <= l THEN n ELSE l
  <2>1. n \in Int
    OBVIOUS
  <2>2. CASE n <= l
    BY <2>1, <2>2, MinOfTwo
  <2>3. CASE ~(n <= l)
    <3>1. l <= n
      BY <2>3
    <3>2. Min({l, n}) = l /\ {l, n} = {n, l}
      BY <2>1, <3>1, MinOfTwo
    <3> QED
      BY <2>3, <3>2
  <2> QED
    BY <2>2, <2>3
<1>3. PICK m \in Int : m = IF n <= l THEN n ELSE l
  OBVIOUS
<1>4. Max({0, m}) = IF 0 <= m THEN m ELSE 0
  <2>1. 0 \in Int
    OBVIOUS
  <2> QED
    BY <2>1, MaxOfTwo
<1>5. (IF 0 <= m THEN m ELSE 0) = RoomFor(n, limit)
  BY <1>1, <1>3 DEF RoomFor
<1> QED
  BY <1>1, <1>2, <1>3, <1>4, <1>5, Zenon

LEMMA WantedAsWritten ==
    ASSUME NEW hidden \in Seq([ssid : Ssid]), NEW m \in 0..Len(hidden)
    PROVE  Wanted(hidden, m) = <<<<>>>> \o [i \in 1..m |-> hidden[i].ssid]
<1> DEFINE names == [i \in 1..m |-> hidden[i].ssid]
<1>1. PICK none \in Ssid : none = <<>>
  <2>1. <<>> \in Ssid
    BY DEF Ssid
  <2> QED
    BY <2>1, Zenon
<1>2. ASSUME NEW i \in 1..m PROVE hidden[i].ssid \in Ssid
  <2>1. i \in 1..Len(hidden)
    OBVIOUS
  <2>2. hidden[i] \in [ssid : Ssid]
    BY <2>1, ElementOfSeq, Zenon
  <2> QED
    BY <2>2
<1>3. names \in Seq(Ssid) /\ Len(names) = m /\ \A i \in 1..m : names[i] = hidden[i].ssid
  BY <1>2
<1> HIDE DEF names
<1>4. PICK t \in Seq(Ssid) : /\ t = names /\ Len(t) = m
                             /\ \A i \in 1..m : t[i] = hidden[i].ssid
  BY <1>3, Zenon
<1>5. PICK s \in Seq(Ssid) : s = <<none>> /\ Len(s) = 1 /\ s[1] = none
  <2>1. <<none>> \in Seq(Ssid) /\ Len(<<none>>) = 1 /\ <<none>>[1] = none
    OBVIOUS
  <2> QED
    BY <2>1, Zenon
<1>6. PICK w \in Seq(Ssid) : /\ w = Wanted(hidden, m) /\ Len(w) = m + 1 /\ w[1] = <<>>
                             /\ \A i \in 1..m : w[i + 1] = hidden[i].ssid
  BY WantedIs, Zenon
<1>7. /\ s \o t \in Seq(Ssid) /\ Len(s \o t) = Len(s) + Len(t)
      /\ \A i \in 1..Len(s) : (s \o t)[i] = s[i]
      /\ \A j \in 1..Len(t) : (s \o t)[Len(s) + j] = t[j]
  BY Joined
<1>8. PICK u \in Seq(Ssid) : /\ u = s \o t /\ Len(u) = 1 + m
                             /\ \A i \in 1..1 : u[i] = s[i]
                             /\ \A j \in 1..m : u[1 + j] = t[j]
  BY <1>4, <1>5, <1>7, Zenon
<1>9. ASSUME NEW j \in 1..(m + 1) PROVE w[j] = u[j]
  <2>1. CASE j = 1
    <3>1. 1 \in 1..1
      OBVIOUS
    <3> QED
      BY <1>1, <1>5, <1>6, <1>8, <2>1, <3>1, Zenon
  <2>2. CASE j # 1
    <3>1. PICK i \in 1..m : j = i + 1 /\ j = 1 + i
      <4>1. j - 1 \in 1..m /\ j = (j - 1) + 1 /\ j = 1 + (j - 1)
        BY <2>2
      <4> QED
        BY <4>1
    <3>2. w[j] = hidden[i].ssid
      BY <1>6, <3>1, Zenon
    <3>3. u[j] = t[i]
      BY <1>8, <3>1, Zenon
    <3>4. t[i] = hidden[i].ssid
      BY <1>4, Zenon
    <3> QED
      BY <3>2, <3>3, <3>4, Zenon
  <2> QED
    BY <2>1, <2>2
<1>10. w = u
  <2>1. 1 + m = m + 1
    OBVIOUS
  <2>2. Len(w) = Len(u) /\ \A j \in 1..Len(w) : w[j] = u[j]
    BY <1>6, <1>8, <1>9, <2>1, Zenon
  <2> QED
    BY <2>2, SeqEqual
<1> QED
  BY <1>1, <1>4, <1>5, <1>6, <1>8, <1>10, Zenon DEF names

(* The random address flag survives among the others.                       *)
LEMMA FlagIsRead ==
    ASSUME NEW random \in BOOLEAN,
           NEW type \in {"LOW_SPAN", "LOW_POWER", "HIGH_ACCURACY", "DEFAULT"}
    PROVE  \E flags \in Nat :
              /\ flags = ScanFlags(random, type)
              /\ Fits32(flags)
              /\ (flags \div SCAN_FLAG.RANDOM_ADDR) % 2 = 1 <=> random
              /\ flags = 0 => ~random
<1>1. /\ SCAN_FLAG.RANDOM_ADDR = 8 /\ SCAN_FLAG.LOW_SPAN = 256
      /\ SCAN_FLAG.LOW_POWER = 512 /\ SCAN_FLAG.HIGH_ACCURACY = 1024
  <2>1. 2^3 = 8 /\ 2^8 = 256 /\ 2^9 = 512 /\ 2^10 = 1024
    OBVIOUS
  <2> QED
    BY <2>1 DEF SCAN_FLAG
<1>2. ScanTypeFlag(type) \in {0, 256, 512, 1024}
  BY <1>1 DEF ScanTypeFlag
<1>3. PICK t \in {0, 256, 512, 1024} : t = ScanTypeFlag(type)
  BY <1>2
<1>4. PICK r \in {0, 8} : r = (IF random THEN 8 ELSE 0)
  OBVIOUS
<1>5. r = FlagIf(random, SCAN_FLAG.RANDOM_ADDR)
  BY <1>1, <1>4 DEF FlagIf
<1>6. PICK flags \in Nat : flags = r + t
  OBVIOUS
<1>7. Fits32(flags)
  BY <1>6 DEF Fits32, Size16
<1>8. (flags \div 8) % 2 = 1 <=> r = 8
  BY <1>6
<1>9. r = 8 <=> random
  BY <1>4
<1>10. flags = 0 => r # 8
  BY <1>6
<1> QED
  BY <1>1, <1>3, <1>5, <1>6, <1>7, <1>8, <1>9, <1>10 DEF ScanFlags

LEMMA DeviceIs ==
    ASSUME device \in Devices
    PROVE  /\ scan_capabilities.max_num_scan_ssids \in 0..255
           /\ scan_capabilities.max_num_sched_scan_ssids \in 0..255
           /\ scan_capabilities.max_match_sets \in 0..255
           /\ scan_capabilities.max_num_scan_plans \in Nat
           /\ scan_capabilities.max_scan_plan_interval \in Nat
           /\ scan_capabilities.max_scan_plan_iterations \in Nat
           /\ wiphy_features.supports_random_mac_oneshot_scan \in BOOLEAN
           /\ wiphy_features.supports_low_span_oneshot_scan \in BOOLEAN
           /\ wiphy_features.supports_low_power_oneshot_scan \in BOOLEAN
           /\ wiphy_features.supports_high_accuracy_oneshot_scan \in BOOLEAN
           /\ offload_scan_supported \in BOOLEAN
<1>1. device \in [caps : Capabilities, features : ScanFeatures, offload : BOOLEAN]
  BY DevicesAssumption
<1>2. /\ scan_capabilities \in Capabilities /\ wiphy_features \in ScanFeatures
      /\ offload_scan_supported \in BOOLEAN
  BY <1>1 DEF scan_capabilities, wiphy_features, offload_scan_supported
<1>3. PICK c \in Capabilities : c = scan_capabilities
  BY <1>2
<1>4. /\ c.max_num_scan_ssids \in 0..255 /\ c.max_num_sched_scan_ssids \in 0..255
      /\ c.max_match_sets \in 0..255
  BY DEF Capabilities, Byte
<1>5. /\ c.max_num_scan_plans \in Uint32 /\ c.max_scan_plan_interval \in Uint32
      /\ c.max_scan_plan_iterations \in Uint32
  BY DEF Capabilities
<1>6. \A x \in Uint32 : x \in Nat
  BY DEF Uint32
<1>7. PICK f \in ScanFeatures : f = wiphy_features
  BY <1>2
<1>8. /\ f.supports_random_mac_oneshot_scan \in BOOLEAN
      /\ f.supports_low_span_oneshot_scan \in BOOLEAN
      /\ f.supports_low_power_oneshot_scan \in BOOLEAN
      /\ f.supports_high_accuracy_oneshot_scan \in BOOLEAN
  BY DEF ScanFeatures
<1> QED
  BY <1>2, <1>3, <1>4, <1>5, <1>6, <1>7, <1>8, ZenonT(60)

LEMMA Uint32Fits ==
    ASSUME NEW v \in Uint32
    PROVE  v \in Nat /\ Fits32(v)
<1>1. v \in Nat /\ v \div 65536 \in Uint16
  BY DEF Uint32
<1>2. PICK q \in Uint16 : q = v \div 65536
  BY <1>1
<1>3. q < 65536
  BY DEF Uint16
<1> QED
  BY <1>1, <1>2, <1>3 DEF Fits32, Size16

LEMMA FrequenciesAre ==
    ASSUME NEW channels \in Seq([frequency : Uint32])
    PROVE  /\ Frequencies(channels) \in Seq(Uint32)
           /\ Len(Frequencies(channels)) = Len(channels)
           /\ Frequencies(channels) = <<>> <=> channels = <<>>
<1>1. PICK n \in Nat : n = Len(channels)
  OBVIOUS
<1>2. DOMAIN channels = 1..n
  BY <1>1
<1>3. ASSUME NEW i \in 1..n PROVE channels[i].frequency \in Uint32
  <2>1. i \in 1..Len(channels)
    BY <1>1
  <2>2. channels[i] \in [frequency : Uint32]
    BY <2>1, ElementOfSeq, Zenon
  <2> QED
    BY <2>2
<1>4. PICK f : f = [i \in 1..n |-> channels[i].frequency]
  OBVIOUS
<1>5. f \in Seq(Uint32) /\ Len(f) = n
  BY <1>3, <1>4
<1>6. Frequencies(channels) = f
  BY <1>2, <1>4 DEF Frequencies
<1>7. f = <<>> <=> n = 0
  BY <1>5
<1>8. channels = <<>> <=> n = 0
  BY <1>1
<1> QED
  BY <1>1, <1>5, <1>6, <1>7, <1>8, Zenon

(* The kernel reads the frequencies that were put into the packet.          *)
LEMMA FrequenciesAreRead ==
    ASSUME NEW p, NEW freqs \in FreqList,
           Find(p, ATTR.SCAN_FREQUENCIES) = IF freqs = <<>> THEN <<>> ELSE <<FreqsAttr(freqs)>>
    PROVE  ScannedFrequencies(p) = freqs
<1>1. CASE freqs = <<>>
  <2>1. Values(p, ATTR.SCAN_FREQUENCIES) = <<>>
    BY <1>1, ValuesOfNothing
  <2> QED
    BY <1>1, <2>1 DEF ScannedFrequencies
<1>2. CASE freqs # <<>>
  <2>1. PICK n \in Nat : freqs \in Seq(Uint32) /\ n = Len(freqs) /\ 4 + 8 * n < Size16
    BY DEF FreqList
  <2>2. PICK attrs \in Seq(Attr) :
              /\ IsNest(FreqsAttr(freqs), ATTR.SCAN_FREQUENCIES, attrs)
              /\ Len(attrs) = n
              /\ \A i \in 1..n : RawValue(attrs[i]) = IntBytes(freqs[i], 4)
    BY <2>1, FreqsAreListed
  <2> DEFINE values == [i \in 1..n |-> IntBytes(freqs[i], 4)]
  <2>3. ASSUME NEW i \in 1..n
        PROVE  IntBytes(freqs[i], 4) \in Seq(Byte) /\ Unsigned(IntBytes(freqs[i], 4)) = freqs[i]
    <3>1. PICK v \in Uint32 : v = freqs[i]
      BY <2>1
    <3>2. v \in Nat /\ v \in Int /\ Fits32(v) /\ 4 \in Nat
      BY Uint32Fits
    <3>3. IntBytes(v, 4) \in Seq(Byte)
      BY <3>2, BytesOfInt
    <3>4. Unsigned(IntBytes(v, 4)) = v
      BY <3>2, IntIsRead
    <3> QED
      BY <3>1, <3>3, <3>4
  <2>4. values \in Seq(Seq(Byte)) /\ Len(values) = n /\ DOMAIN values = 1..n
    BY <2>3
  <2>5. \A i \in 1..n : RawValue(attrs[i]) = values[i] /\ Unsigned(values[i]) = freqs[i]
    BY <2>2, <2>3
  <2> HIDE DEF values
  <2>6. Find(p, ATTR.SCAN_FREQUENCIES) = <<FreqsAttr(freqs)>>
    BY <1>2
  <2>7. Values(p, ATTR.SCAN_FREQUENCIES) = values
    <3>1. Len(attrs) = Len(values) /\ \A i \in 1..Len(values) : RawValue(attrs[i]) = values[i]
      BY <2>2, <2>4, <2>5, Zenon
    <3> QED
      BY <2>2, <2>4, <2>6, <3>1, ValuesOfNest
  <2>8. ScannedFrequencies(p) = [i \in 1..n |-> Unsigned(values[i])]
    BY <2>4, <2>7, Zenon DEF ScannedFrequencies
  <2>9. freqs = [i \in 1..n |-> freqs[i]]
    BY <2>1
  <2> QED
    BY <2>5, <2>8, <2>9
<1> QED
  BY <1>1, <1>2

(* The same for SSIDs.                                                      *)
LEMMA SsidsAreRead ==
    ASSUME NEW p, NEW ssids \in SsidList,
           Find(p, ATTR.SCAN_SSIDS) = <<SsidsAttr(ATTR.SCAN_SSIDS, ssids)>>
    PROVE  ProbedSsids(p) = ssids
<1>1. PICK n \in Nat : ssids \in Seq(Ssid) /\ n = Len(ssids) /\ n <= 256
  BY DEF SsidList
<1>2. PICK attrs \in Seq(Attr) :
         /\ IsNest(SsidsAttr(ATTR.SCAN_SSIDS, ssids), ATTR.SCAN_SSIDS, attrs)
         /\ Len(attrs) = n
         /\ \A i \in 1..n : RawValue(attrs[i]) = ssids[i]
  BY <1>1, IdsAreSmall, SsidsAreListed
<1> QED
  BY <1>1, <1>2, ValuesOfNest DEF ProbedSsids

(* Flags are a single integer.                                              *)
LEMMA FlagsAreRead ==
    ASSUME NEW p, NEW flags \in Nat, Fits32(flags), NEW flag,
           Find(p, ATTR.SCAN_FLAGS) =
              IF flags = 0 THEN <<>> ELSE <<IntAttr(ATTR.SCAN_FLAGS, flags, 4)>>
    PROVE  HasScanFlag(p, flag) <=> flags # 0 /\ (flags \div flag) % 2 = 1
<1>1. CASE flags = 0
  <2>1. GetInt(p.body, ATTR.SCAN_FLAGS, 4) = <<>>
    BY <1>1, NothingIsFound DEF Find
  <2>2. ToSet(<<>>) = {}
    BY DEF ToSet
  <2> QED
    BY <1>1, <2>1, <2>2, Zenon DEF HasScanFlag
<1>2. CASE flags # 0
  <2>1. GetInt(p.body, ATTR.SCAN_FLAGS, 4) = <<flags>>
    BY <1>2, IdsAreSmall, IntIsFound DEF Find
  <2>2. ToSet(<<flags>>) = {flags}
    BY DEF ToSet
  <2> QED
    BY <1>2, <2>1, <2>2, Zenon DEF HasScanFlag
<1> QED
  BY <1>1, <1>2, Zenon

(* The request of a one-shot scan says what the settings ask for.           *)
LEMMA SingleScanIsRight ==
    ASSUME device \in Devices, associated \in BOOLEAN, NEW s \in SingleScanSettings,
           4 + 8 * Len(s.channel_settings) < Size16, NEW p, p = SingleScanRequest(s)
    PROVE  /\ ProbedSsids(p) =
                 <<<<>>>> \o [i \in 1 .. Max({0, Min({Len(s.hidden_networks),
                                   scan_capabilities.max_num_scan_ssids - 1})}) |->
                               s.hidden_networks[i].ssid]
           /\ ScannedFrequencies(p) =
                 [i \in DOMAIN s.channel_settings |-> s.channel_settings[i].frequency]
           /\ HasAttribute(p.body, ATTR.SCAN_FREQUENCIES) <=> s.channel_settings # <<>>
           /\ HasScanFlag(p, SCAN_FLAG.RANDOM_ADDR) <=>
                 wiphy_features.supports_random_mac_oneshot_scan /\ ~associated
<1>1. /\ s.scan_type \in {"LOW_SPAN", "LOW_POWER", "HIGH_ACCURACY"}
      /\ s.channel_settings \in Seq([frequency : Uint32])
      /\ s.hidden_networks \in Seq([ssid : Ssid])
  BY DEF SingleScanSettings
<1>2. PICK hidden \in Seq([ssid : Ssid]) : hidden = s.hidden_networks
  BY <1>1, Zenon
<1>3. PICK channels \in Seq([frequency : Uint32]) : channels = s.channel_settings
  BY <1>1, Zenon
<1>4. PICK limit \in Nat : limit = scan_capabilities.max_num_scan_ssids /\ limit <= 255
  <2>1. PICK l \in 0..255 : l = scan_capabilities.max_num_scan_ssids
    BY DeviceIs, Zenon
  <2>2. l \in Nat /\ l <= 255
    OBVIOUS
  <2> QED
    BY <2>1, <2>2
<1>5. PICK n \in Nat : n = Len(hidden)
  OBVIOUS
<1>6. PICK m \in 0..Len(hidden) : m = RoomFor(n, limit) /\ m <= 255
  BY <1>4, <1>5 DEF RoomFor
<1>7. PICK ssids \in Seq(Ssid) : ssids = Wanted(hidden, m) /\ Len(ssids) = m + 1
  BY WantedIs, Zenon
<1>8. SingleScanSsids(hidden) = ssids
  BY <1>4, <1>5, <1>6, <1>7, HiddenAreAdded
<1>9. ssids \in SsidList
  BY <1>6, <1>7 DEF SsidList
<1>10. PICK freqs \in Seq(Uint32) : /\ freqs = Frequencies(channels)
                                    /\ Len(freqs) = Len(channels)
                                    /\ freqs = <<>> <=> channels = <<>>
  BY FrequenciesAre, Zenon
<1>11. freqs \in FreqList
  BY <1>3, <1>10 DEF FreqList
<1>12. PICK random \in BOOLEAN :
          random = (wiphy_features.supports_random_mac_oneshot_scan /\ ~associated)
  BY Zenon
<1>13. PICK type \in {"LOW_SPAN", "LOW_POWER", "HIGH_ACCURACY", "DEFAULT"} :
          type = IF IsScanTypeSupported(s.scan_type) THEN s.scan_type ELSE "DEFAULT"
  BY <1>1
<1>14. PICK flags \in Nat :
              /\ flags = ScanFlags(random, type)
              /\ Fits32(flags)
              /\ (flags \div SCAN_FLAG.RANDOM_ADDR) % 2 = 1 <=> random
              /\ flags = 0 => ~random
  BY FlagIsRead, Zenon
<1>15. p = ScanRequest(InterfaceIndex, random, type, ssids, freqs)
  BY <1>2, <1>3, <1>8, <1>10, <1>12, <1>13, Zenon DEF SingleScanRequest
<1>16. InterfaceIndex \in Nat
  BY InterfaceAssumption
<1>17. /\ Find(p, ATTR.SCAN_SSIDS) = <<SsidsAttr(ATTR.SCAN_SSIDS, ssids)>>
       /\ Find(p, ATTR.SCAN_FREQUENCIES) = IF freqs = <<>> THEN <<>> ELSE <<FreqsAttr(freqs)>>
       /\ Find(p, ATTR.SCAN_FLAGS) =
             IF flags = 0 THEN <<>> ELSE <<IntAttr(ATTR.SCAN_FLAGS, flags, 4)>>
  <2>1. ScanFlags(random, type) \in Nat
    BY <1>14, Zenon
  <2>2. IsScan(p, ssids, freqs, flags)
    BY <1>9, <1>11, <1>14, <1>15, <1>16, <2>1, ScanRequestHolds, Zenon
  <2> QED
    BY <2>2, Zenon DEF IsScan
<1>18. ProbedSsids(p) = ssids
  BY <1>9, <1>17, SsidsAreRead
<1>19. ssids = <<<<>>>> \o [i \in 1 .. Max({0, Min({Len(hidden), limit - 1})}) |-> hidden[i].ssid]
  <2>1. Max({0, Min({n, limit - 1})}) = m
    BY <1>6, RoomAsWritten
  <2>2. ssids = <<<<>>>> \o [i \in 1 .. m |-> hidden[i].ssid]
    BY <1>7, WantedAsWritten
  <2> QED
    BY <1>5, <2>1, <2>2, Zenon
<1>20. ScannedFrequencies(p) = freqs
  BY <1>11, <1>17, FrequenciesAreRead
<1>21. HasAttribute(p.body, ATTR.SCAN_FREQUENCIES) <=> channels # <<>>
  BY <1>10, <1>17, SingletonIsNotEmpty, Zenon DEF HasAttribute, Find
<1>22. HasScanFlag(p, SCAN_FLAG.RANDOM_ADDR) <=> random
  <2>1. HasScanFlag(p, SCAN_FLAG.RANDOM_ADDR) <=>
          flags # 0 /\ (flags \div SCAN_FLAG.RANDOM_ADDR) % 2 = 1
    BY <1>14, <1>17, FlagsAreRead
  <2> QED
    BY <1>14, <2>1, Zenon
<1>23. freqs = [i \in DOMAIN channels |-> channels[i].frequency]
  BY <1>10, Zenon DEF Frequencies
<1> QED
  BY <1>2, <1>3, <1>4, <1>12, <1>18, <1>19, <1>20, <1>21, <1>22, <1>23, Zenon

(* Every other call and every event names itself.                           *)
LEMMA OnlyScanScans ==
    ASSUME associated \in BOOLEAN, Next
    PROVE  /\ device' = device /\ associated' \in BOOLEAN
           /\ Of({"scan"})' => \E p \in SingleParcels : scan(p)
<1> USE DEF Of, Event, Does
<1>1. CASE \E p \in SingleParcels : scan(p)
  <2>1. PICK p \in SingleParcels : scan(p)
    BY <1>1
  <2>2. device' = device /\ associated' = associated
    BY <2>1 DEF scan
  <2> QED
    BY <2>1, <2>2
<1>2. CASE getPnoScanResults
  BY <1>2 DEF getPnoScanResults
<1>3. CASE \E p \in PnoParcels, ok \in BOOLEAN : startPnoScan(p, ok)
  BY <1>3 DEF startPnoScan
<1>4. CASE \E p \in PnoParcels : startPnoScanRefused(p)
  BY <1>4 DEF startPnoScanRefused
<1>5. CASE stopPnoScan
  BY <1>5 DEF stopPnoScan
<1>6. CASE OnOffloadError
  BY <1>6 DEF OnOffloadError
<1>7. CASE \E r \in HalReports : ReportScanResults(r)
  BY <1>7 DEF ReportScanResults
<1>8. CASE OnSchedScanResultsReady
  BY <1>8 DEF OnSchedScanResultsReady
<1>9. CASE \E started \in BOOLEAN : abortScan(started)
  BY <1>9 DEF abortScan
<1>10. CASE \E s \in HalStats : getScanStats(s)
  BY <1>10 DEF getScanStats
<1>11. CASE \E on \in BOOLEAN : SubscribePno(on)
  BY <1>11 DEF SubscribePno
<1>12. CASE MlmeEvent
  BY <1>12 DEF MlmeEvent
<1> QED
  BY <1>1, <1>2, <1>3, <1>4, <1>5, <1>6, <1>7, <1>8, <1>9, <1>10, <1>11, <1>12
     DEF Next

(* A one-shot scan asks for what the framework meant: the wildcard and the  *)
(* first hidden networks there is room for, the channels or all of them, a  *)
(* random address exactly when the device has it and is not associated.     *)
THEOREM ScansAreWhatWasMeant == Spec => []ScanIsWhatWasMeant
<1> DEFINE Inv == device \in Devices /\ associated \in BOOLEAN /\ ScanIsWhatWasMeant
<1>1. Init => Inv
  BY DEF Init, ScanIsWhatWasMeant, Of
<1>2. Inv /\ [Next]_vars => Inv'
  <2>1. ASSUME Inv, Next PROVE Inv'
    <3>1. /\ device' = device /\ associated' \in BOOLEAN
          /\ Of({"scan"})' => \E p \in SingleParcels : scan(p)
      BY <2>1, OnlyScanScans
    <3>2. ASSUME NEW parcel \in SingleParcels, scan(parcel) PROVE ScanIsWhatWasMeant'
      <4>1. /\ device' = device /\ associated' = associated
            /\ call' = [name |-> "scan", parcel |-> parcel]
        BY <3>2 DEF scan, Does
      <4>2. PICK settings \in Seq(SingleScanSettings) : settings = ReadSingleScanSettings(parcel)
        BY SingleParcelsAssumption
      <4>3. kernel' = [i \in DOMAIN settings |-> SingleScanRequest(settings[i])]
        BY <3>2, <4>2 DEF scan, Does
      <4>4. call'.parcel = parcel
        BY <4>1
      <4>5. kernel' = <<>> <=> settings = <<>>
        BY <4>3
      <4>6. CASE settings = <<>>
        BY <4>2, <4>4, <4>5, <4>6 DEF ScanIsWhatWasMeant
      <4>7. CASE settings # <<>>
        <5>1. 1 \in DOMAIN settings /\ settings[1] \in SingleScanSettings
          BY <4>7
        <5>2. PICK s \in SingleScanSettings : s = settings[1]
          BY <5>1
        <5>3. PICK p : p = SingleScanRequest(s)
          OBVIOUS
        <5>4. kernel'[1] = p
          BY <4>3, <5>1, <5>2, <5>3
        <5>5. 4 + 8 * Len(s.channel_settings) < Size16
          <6>1. s \in ToSet(settings)
            BY <5>1, <5>2 DEF ToSet
          <6>2. s.channel_settings \in Seq([frequency : Uint32])
            BY DEF SingleScanSettings
          <6>3. Len(s.channel_settings) \in Nat
            BY <6>2
          <6>4. Len(s.channel_settings) < 8192
            BY <4>2, <6>1, SingleParcelsAssumption
          <6> QED
            BY <6>3, <6>4 DEF Size16
        <5>6. /\ ProbedSsids(p) =
                 <<<<>>>> \o [i \in 1 .. Max({0, Min({Len(s.hidden_networks),
                                   scan_capabilities.max_num_scan_ssids - 1})}) |->
                               s.hidden_networks[i].ssid]
              /\ ScannedFrequencies(p) =
                 [i \in DOMAIN s.channel_settings |-> s.channel_settings[i].frequency]
              /\ HasAttribute(p.body, ATTR.SCAN_FREQUENCIES) <=> s.channel_settings # <<>>
              /\ HasScanFlag(p, SCAN_FLAG.RANDOM_ADDR) <=>
                 wiphy_features.supports_random_mac_oneshot_scan /\ ~associated
          BY <2>1, <5>3, <5>5, SingleScanIsRight
        <5>7. scan_capabilities' = scan_capabilities /\ wiphy_features' = wiphy_features
          BY <4>1 DEF scan_capabilities, wiphy_features
        <5> QED
          BY <4>1, <4>2, <4>4, <4>5, <5>2, <5>4, <5>6, <5>7, Zenon DEF ScanIsWhatWasMeant
      <4> QED
        BY <4>6, <4>7
    <3>3. ASSUME ~Of({"scan"})' PROVE ScanIsWhatWasMeant'
      BY <3>3 DEF ScanIsWhatWasMeant
    <3> QED
      BY <2>1, <3>1, <3>2, <3>3
  <2>2. ASSUME Inv, UNCHANGED vars PROVE Inv'
    BY <2>2 DEF vars, ioVars, ScanIsWhatWasMeant, Of, scan_capabilities, wiphy_features
  <2> QED
    BY <2>1, <2>2
<1>3. Inv => ScanIsWhatWasMeant
  OBVIOUS
<1> QED
  BY <1>1, <1>2, <1>3, PTL DEF Spec

-----------------------------------------------------------------------------
(* PNO scans: which networks are matched and probed for.                    *)

PnoNetwork == [is_hidden : BOOLEAN, ssid : Ssid]
Lists == [scan_ssids : Seq(Ssid), match_ssids : Seq(Ssid)]

\* The network is the one of that SSID, and probed for if hidden.
Source(probed, ssid, network) ==
    /\ network.ssid = ssid
    /\ network.is_hidden => \E q \in 1..Len(probed) : probed[q] = ssid

\* Whoever is matched is one of the first n networks.
Stems(probed, match, networks, n) ==
    \A m \in 1..Len(match) : \E k \in 1..n : Source(probed, match[m], networks[k])

\* All that are matched are among the first n networks.
Early(match, networks, n) == \A m \in 1..Len(match) : \E k \in 1..n : networks[k].ssid = match[m]

\* Network i is matched, or there was no room for it when its turn came.
Served(probed, match, networks, i, S, M) ==
    \/ \E m \in 1..Len(match) : match[m] = networks[i].ssid
    \/ networks[i].is_hidden /\ Len(probed) >= S
    \/ Len(match) >= M /\ Early(match, networks, i - 1)

\* After the first n networks; S and M are the limits of the device.
Chosen(probed, match, networks, n, S, M) ==
    /\ Len(probed) <= 1 \/ Len(probed) <= S
    /\ S > 0 => Len(probed) <= S
    /\ Len(match) <= M
    /\ Stems(probed, match, networks, n)
    /\ \A i \in 1..n : Served(probed, match, networks, i, S, M)

Within(s, t) == Len(s) <= Len(t) /\ \A i \in 1..Len(s) : i \in 1..Len(t) /\ t[i] = s[i]

LEMMA Longer ==
    ASSUME NEW s \in Seq(Ssid), NEW e \in Ssid
    PROVE  \E t \in Seq(Ssid) : /\ t = Append(s, e) /\ Len(t) = Len(s) + 1 /\ t[Len(t)] = e
                                /\ Len(t) \in 1..Len(t)
                                /\ Within(s, t)
<1>1. PICK t \in Seq(Ssid) : /\ t = Append(s, e) /\ Len(t) = Len(s) + 1
                             /\ \A i \in 1..Len(s) : t[i] = s[i]
                             /\ t[Len(s) + 1] = e
  BY AppendProperties
<1>2. Len(s) \in Nat
  OBVIOUS
<1>3. \A i \in 1..Len(s) : i \in 1..Len(t)
  BY <1>1, <1>2
<1>4. Len(t) \in 1..Len(t) /\ Len(s) <= Len(t)
  BY <1>1, <1>2
<1> QED
  BY <1>1, <1>3, <1>4, Zenon DEF Within

LEMMA SourceStays ==
    ASSUME NEW s, NEW t, Within(s, t), NEW ssid, NEW network, Source(s, ssid, network)
    PROVE  Source(t, ssid, network)
BY Zenon DEF Within, Source

(* The next network is passed over, and the lists stay as they are.         *)
LEMMA PassedOver ==
    ASSUME NEW probed \in Seq(Ssid), NEW match \in Seq(Ssid), NEW networks,
           NEW n \in Nat \ {0}, NEW S \in Nat, NEW M \in Nat,
           Chosen(probed, match, networks, n - 1, S, M), networks[n].is_hidden, Len(probed) + 1 > S
    PROVE  Chosen(probed, match, networks, n, S, M)
<1>1. \A k \in 1..(n - 1) : k \in 1..n
  OBVIOUS
<1>2. \A k \in 1..n : k \in 1..(n - 1) \/ k = n
  OBVIOUS
<1>3. Len(probed) >= S
  <2>1. Len(probed) \in Nat
    OBVIOUS
  <2> QED
    BY <2>1
<1>4. Stems(probed, match, networks, n)
  BY <1>1, Zenon DEF Chosen, Stems
<1>5. \A i \in 1..n : Served(probed, match, networks, i, S, M)
  BY <1>2, <1>3, Zenon DEF Chosen, Served
<1> QED
  BY <1>4, <1>5, Zenon DEF Chosen

(* The next network is taken into the lists that have room for it.          *)
LEMMA TakenIn ==
    ASSUME NEW probed \in Seq(Ssid), NEW match \in Seq(Ssid), NEW networks,
           NEW n \in Nat \ {0}, NEW S \in Nat, NEW M \in Nat,
           Chosen(probed, match, networks, n - 1, S, M),
           ~(networks[n].is_hidden /\ Len(probed) + 1 > S),
           NEW e \in Ssid, e = networks[n].ssid,
           NEW probed2 \in Seq(Ssid),
           probed2 = IF networks[n].is_hidden THEN Append(probed, e) ELSE probed,
           NEW match2 \in Seq(Ssid),
           match2 = IF Len(match) + 1 > M THEN match ELSE Append(match, e)
    PROVE  Chosen(probed2, match2, networks, n, S, M)
<1>1. \A k \in 1..(n - 1) : k \in 1..n
  OBVIOUS
<1>2. \A k \in 1..n : k \in 1..(n - 1) \/ k = n
  OBVIOUS
<1>3. n \in 1..n
  OBVIOUS
<1>4. Len(probed) \in Nat /\ Len(match) \in Nat /\ Len(probed2) \in Nat /\ Len(match2) \in Nat
  OBVIOUS
<1>5. /\ Within(probed, probed2)
      /\ networks[n].is_hidden => \E q \in 1..Len(probed2) : probed2[q] = e
      /\ networks[n].is_hidden => Len(probed2) = Len(probed) + 1
      /\ ~networks[n].is_hidden => probed2 = probed
  <2>1. CASE networks[n].is_hidden
    <3>1. probed2 = Append(probed, e)
      BY <2>1
    <3>2. PICK t \in Seq(Ssid) : /\ t = Append(probed, e) /\ Len(t) = Len(probed) + 1
                                /\ t[Len(t)] = e /\ Len(t) \in 1..Len(t) /\ Within(probed, t)
      BY Longer
    <3> QED
      BY <2>1, <3>1, <3>2, Zenon
  <2>2. CASE ~networks[n].is_hidden
    BY <2>2, <1>4 DEF Within
  <2> QED
    BY <2>1, <2>2
<1>6. CASE Len(match) + 1 > M
  <2>1. match2 = match /\ Len(match) >= M
    BY <1>4, <1>6
  <2>2. Stems(probed2, match2, networks, n)
    <3>1. ASSUME NEW m \in 1..Len(match)
          PROVE  \E k \in 1..n : Source(probed2, match[m], networks[k])
      <4>1. PICK k \in 1..(n - 1) : Source(probed, match[m], networks[k])
        BY Zenon DEF Chosen, Stems
      <4> QED
        BY <1>1, <1>5, <4>1, SourceStays, Zenon
    <3> QED
      BY <2>1, <3>1, Zenon DEF Stems
  <2>3. Served(probed2, match2, networks, n, S, M)
    BY <2>1, Zenon DEF Chosen, Stems, Served, Early, Source
  <2>4. ASSUME NEW i \in 1..(n - 1) PROVE Served(probed2, match2, networks, i, S, M)
    <3>1. Len(probed) >= S => Len(probed2) >= S
      BY <1>4, <1>5 DEF Within
    <3> QED
      BY <2>1, <3>1, Zenon DEF Chosen, Served
  <2>5. /\ Len(probed2) <= 1 \/ Len(probed2) <= S
        /\ S > 0 => Len(probed2) <= S
        /\ Len(match2) <= M
    BY <1>4, <1>5, <2>1 DEF Chosen
  <2> QED
    BY <1>2, <2>2, <2>3, <2>4, <2>5, Zenon DEF Chosen
<1>7. CASE ~(Len(match) + 1 > M)
  <2>1. match2 = Append(match, e)
    BY <1>7
  <2>2. Within(match, match2) /\ Len(match2) = Len(match) + 1 /\ match2[Len(match2)] = e
    <3>1. PICK t \in Seq(Ssid) : /\ t = Append(match, e) /\ Len(t) = Len(match) + 1
                                /\ t[Len(t)] = e /\ Len(t) \in 1..Len(t) /\ Within(match, t)
      BY Longer
    <3> QED
      BY <2>1, <3>1, Zenon
  <2>3. \A m \in 1..Len(match2) : m \in 1..Len(match) \/ m = Len(match2)
    BY <1>4, <2>2
  <2>4. Len(match2) \in 1..Len(match2)
    BY <1>4, <2>2
  <2>5. Stems(probed2, match2, networks, n)
    <3>1. \A m \in 1..Len(match) : match2[m] = match[m]
      BY <2>2, Zenon DEF Within
    <3>2. ASSUME NEW m \in 1..Len(match)
          PROVE  \E k \in 1..n : Source(probed2, match[m], networks[k])
      <4>1. PICK k \in 1..(n - 1) : Source(probed, match[m], networks[k])
        BY Zenon DEF Chosen, Stems
      <4> QED
        BY <1>1, <1>5, <4>1, SourceStays, Zenon
    <3>3. Source(probed2, e, networks[n])
      BY <1>5, Zenon DEF Source
    <3> QED
      BY <1>3, <2>2, <2>3, <3>1, <3>2, <3>3, Zenon DEF Stems
  <2>6. Served(probed2, match2, networks, n, S, M)
    BY <2>2, <2>4, Zenon DEF Served
  <2>7. ASSUME NEW i \in 1..(n - 1) PROVE Served(probed2, match2, networks, i, S, M)
    <3>1. Len(probed) >= S => Len(probed2) >= S
      BY <1>4, <1>5 DEF Within
    <3>2. ~(Len(match) >= M)
      BY <1>4, <1>7
    <3> QED
      BY <2>2, <3>1, <3>2, Zenon DEF Chosen, Served, Within
  <2>8. /\ Len(probed2) <= 1 \/ Len(probed2) <= S
        /\ S > 0 => Len(probed2) <= S
        /\ Len(match2) <= M
    BY <1>4, <1>5, <1>7, <2>2 DEF Chosen
  <2> QED
    BY <1>2, <2>5, <2>6, <2>7, <2>8, Zenon DEF Chosen
<1> QED
  BY <1>6, <1>7

LEMMA NetworkIs ==
    ASSUME NEW networks \in Seq(PnoNetwork), NEW k \in 1..Len(networks)
    PROVE  networks[k].ssid \in Ssid /\ networks[k].is_hidden \in BOOLEAN
<1>1. PICK w \in PnoNetwork : w = networks[k]
  <2>1. networks[k] \in PnoNetwork
    BY ElementOfSeq, Zenon
  <2> QED
    BY <2>1, Zenon
<1>2. w.ssid \in Ssid /\ w.is_hidden \in BOOLEAN
  BY DEF PnoNetwork
<1> QED
  BY <1>1, <1>2, Zenon

(* One turn of the loop.                                                    *)
LEMMA NetworkIsAdded ==
    ASSUME NEW networks \in Seq(PnoNetwork), NEW k \in 1..Len(networks), NEW l \in Lists,
           NEW S \in Nat, S = scan_capabilities.max_num_sched_scan_ssids,
           NEW M \in Nat, M = scan_capabilities.max_match_sets
    PROVE  /\ AddPnoNetwork(l, networks[k]) \in Lists
           /\ Chosen(l.scan_ssids, l.match_ssids, networks, k - 1, S, M) =>
                Chosen(AddPnoNetwork(l, networks[k]).scan_ssids,
                       AddPnoNetwork(l, networks[k]).match_ssids, networks, k, S, M)
<1>1. PICK w \in PnoNetwork : w = networks[k]
  <2>1. networks[k] \in PnoNetwork
    BY ElementOfSeq, Zenon
  <2> QED
    BY <2>1, Zenon
<1>2. PICK e \in Ssid : e = w.ssid
  BY DEF PnoNetwork
<1>3. PICK hidden \in BOOLEAN : hidden = w.is_hidden
  BY DEF PnoNetwork
<1>4. PICK probed \in Seq(Ssid) : probed = l.scan_ssids
  BY DEF Lists
<1>5. PICK match \in Seq(Ssid) : match = l.match_ssids
  BY DEF Lists
<1>6. k \in Nat \ {0}
  OBVIOUS
<1>7. CASE hidden /\ Len(probed) + 1 > S
  <2>1. AddPnoNetwork(l, networks[k]) = l
    BY <1>1, <1>3, <1>4, <1>7 DEF AddPnoNetwork
  <2>2. ASSUME Chosen(probed, match, networks, k - 1, S, M)
        PROVE  Chosen(probed, match, networks, k, S, M)
    BY <1>1, <1>3, <1>6, <1>7, <2>2, PassedOver
  <2> QED
    BY <1>4, <1>5, <2>1, <2>2, Zenon
<1>8. CASE ~(hidden /\ Len(probed) + 1 > S)
  <2>1. PICK probed2 \in Seq(Ssid) : probed2 = IF hidden THEN Append(probed, e) ELSE probed
    BY AppendProperties
  <2>2. PICK match2 \in Seq(Ssid) :
           match2 = IF Len(match) + 1 > M THEN match ELSE Append(match, e)
    BY AppendProperties
  <2>3. PICK r : r = [scan_ssids |-> probed2, match_ssids |-> match2]
    OBVIOUS
  <2>4. AddPnoNetwork(l, networks[k]) = r
    BY <1>1, <1>2, <1>3, <1>4, <1>5, <1>8, <2>1, <2>2, <2>3, Zenon DEF AddPnoNetwork
  <2>5. r \in Lists /\ r.scan_ssids = probed2 /\ r.match_ssids = match2
    BY <2>3 DEF Lists
  <2>6. ASSUME Chosen(probed, match, networks, k - 1, S, M)
        PROVE  Chosen(probed2, match2, networks, k, S, M)
    <3>1. /\ ~(networks[k].is_hidden /\ Len(probed) + 1 > S) /\ e = networks[k].ssid
          /\ probed2 = IF networks[k].is_hidden THEN Append(probed, e) ELSE probed
      BY <1>1, <1>2, <1>3, <1>8, <2>1, Zenon
    <3> QED
      BY <1>6, <2>2, <2>6, <3>1, TakenIn
  <2> QED
    BY <1>4, <1>5, <2>4, <2>5, <2>6, Zenon
<1> QED
  BY <1>7, <1>8

(* The loop over all networks.                                              *)
LEMMA NetworksAreChosen ==
    ASSUME NEW networks \in Seq(PnoNetwork), NEW n \in Nat, n = Len(networks),
           NEW first \in Seq(Ssid), Len(first) <= 1,
           NEW S \in Nat, S = scan_capabilities.max_num_sched_scan_ssids,
           NEW M \in Nat, M = scan_capabilities.max_match_sets
    PROVE  \E l \in Lists : /\ l = ParsePnoSettings(networks, first)
                            /\ Chosen(l.scan_ssids, l.match_ssids, networks, n, S, M)
<1> DEFINE base == [scan_ssids |-> first, match_ssids |-> <<>>]
<1> DEFINE Step(g) == [k \in 0..n |-> IF k = 0 THEN base
                                      ELSE AddPnoNetwork(g[k - 1], networks[k])]
<1> DEFINE F == CHOOSE g : g = Step(g)
<1>1. ParsePnoSettings(networks, first) = F[n]
  BY DEF ParsePnoSettings
<1>2. base \in Lists /\ base.scan_ssids = first /\ base.match_ssids = <<>>
  BY DEF Lists
<1>3. Chosen(first, <<>>, networks, 0, S, M)
  <2>1. Len(<<>>) = 0 /\ 1..0 = {} /\ Len(first) \in Nat
    OBVIOUS
  <2> QED
    BY <2>1 DEF Chosen, Stems
<1> HIDE DEF base
<1>4. ASSUME NEW l \in Lists, NEW k \in 1..n
      PROVE  /\ AddPnoNetwork(l, networks[k]) \in Lists
             /\ Chosen(l.scan_ssids, l.match_ssids, networks, k - 1, S, M) =>
                Chosen(AddPnoNetwork(l, networks[k]).scan_ssids,
                       AddPnoNetwork(l, networks[k]).match_ssids, networks, k, S, M)
  <2>1. k \in 1..Len(networks)
    OBVIOUS
  <2> QED
    BY <2>1, NetworkIsAdded, Zenon
<1> DEFINE step == [p \in Lists \X (1..n) |-> AddPnoNetwork(p[1], networks[p[2]])]
<1>5. /\ step \in [Lists \X (1..n) -> Lists]
      /\ \A x \in Lists, k \in 1..n : step[<<x, k>>] = AddPnoNetwork(x, networks[k])
  BY <1>4
<1> HIDE DEF step
<1>6. PICK f : IsRun(f, n, Lists, base, step)
  BY <1>2, <1>5, Recursion
<1>7. f = Step(f)
  <2>1. ASSUME NEW k \in 1..n PROVE f[k] = AddPnoNetwork(f[k - 1], networks[k])
    <3>1. f[k - 1] \in Lists
      <4>1. k - 1 \in 0..n
        OBVIOUS
      <4>2. f \in [0..n -> Lists]
        BY <1>6, Zenon DEF IsRun
      <4> QED
        BY <4>1, <4>2, Zenon
    <3> QED
      BY <1>5, <1>6, <3>1 DEF IsRun
  <2> QED
    BY <1>6, <2>1 DEF IsRun
<1>8. F = Step(F)
  <2> HIDE DEF Step
  <2> QED
    BY <1>7
<1> HIDE DEF F
<1>9. F[0] = base /\ \A k \in 1..n : F[k] = AddPnoNetwork(F[k - 1], networks[k])
  BY <1>8
<1> DEFINE Good == {k \in 0..n : /\ F[k] \in Lists
                                 /\ Chosen(F[k].scan_ssids, F[k].match_ssids, networks, k, S, M)}
<1>10. 0 \in Good
  BY <1>2, <1>3, <1>9
<1>11. ASSUME NEW k \in 0..(n - 1), k \in Good PROVE k + 1 \in Good
  <2>1. PICK j \in 1..n : j = k + 1 /\ j - 1 = k
    OBVIOUS
  <2>2. PICK l \in Lists : l = F[k]
    BY <1>11
  <2>3. Chosen(l.scan_ssids, l.match_ssids, networks, j - 1, S, M)
    BY <1>11, <2>1, <2>2
  <2>4. F[j] = AddPnoNetwork(l, networks[j])
    BY <1>9, <2>1, <2>2
  <2>5. F[j] \in Lists /\ Chosen(F[j].scan_ssids, F[j].match_ssids, networks, j, S, M)
    BY <1>4, <2>3, <2>4, Zenon
  <2>6. j \in 0..n
    OBVIOUS
  <2> QED
    BY <2>1, <2>5, <2>6, Zenon
<1> HIDE DEF Good
<1>12. n \in Good
  <2>1. \A k \in 0..n : k \in Good
    BY <1>10, <1>11, Induction, Zenon
  <2> QED
    BY <2>1
<1> QED
  BY <1>1, <1>12, Zenon DEF Good

LEMMA ElementsAre ==
    ASSUME NEW T, NEW s \in Seq(T)
    PROVE  \A x : x \in ToSet(s) <=> \E i \in 1..Len(s) : s[i] = x
BY DEF ToSet

LEMMA ChosenAreRight ==
    ASSUME NEW networks \in Seq(PnoNetwork), NEW n \in Nat, n = Len(networks),
           NEW probed \in Seq(Ssid), NEW match \in Seq(Ssid),
           NEW S, S = scan_capabilities.max_num_sched_scan_ssids,
           NEW M, M = scan_capabilities.max_match_sets,
           Chosen(probed, match, networks, n, S, M)
    PROVE  AreRight(scan_capabilities, networks, match, probed)
<1>1. DOMAIN networks = 1..n
  OBVIOUS
<1>2. \A x : x \in ToSet(match) <=> \E i \in 1..Len(match) : match[i] = x
  BY ElementsAre, Zenon
<1>3. \A x : x \in ToSet(probed) <=> \E i \in 1..Len(probed) : probed[i] = x
  BY ElementsAre, Zenon
<1>4. \A x : x \in ToSet(networks) <=> \E i \in 1..n : networks[i] = x
  BY ElementsAre, Zenon
<1>5. ASSUME NEW ssid \in ToSet(match)
      PROVE  \E w \in ToSet(networks) : w.ssid = ssid /\ (w.is_hidden => ssid \in ToSet(probed))
  <2>1. PICK m \in 1..Len(match) : match[m] = ssid
    BY <1>2, Zenon
  <2>2. PICK k \in 1..n : Source(probed, match[m], networks[k])
    BY Zenon DEF Chosen, Stems
  <2>3. networks[k] \in ToSet(networks)
    BY <1>4, Zenon
  <2> QED
    BY <1>3, <2>1, <2>2, <2>3, Zenon DEF Source
<1>6. ASSUME NEW i \in 1..n, ~(networks[i].ssid \in ToSet(match))
      PROVE  \/ networks[i].is_hidden /\ Len(probed) >= S
             \/ /\ Len(match) >= M
                /\ \A j \in 1..n : j > i /\ networks[j].ssid \in ToSet(match) =>
                      \E k \in 1 .. i - 1 : networks[k].ssid = networks[j].ssid
  <2>1. Served(probed, match, networks, i, S, M)
    BY Zenon DEF Chosen
  <2>2. ~ \E m \in 1..Len(match) : match[m] = networks[i].ssid
    BY <1>2, <1>6, Zenon
  <2>3. ASSUME Early(match, networks, i - 1), NEW j \in 1..n, networks[j].ssid \in ToSet(match)
        PROVE  \E k \in 1 .. i - 1 : networks[k].ssid = networks[j].ssid
    <3>1. PICK m \in 1..Len(match) : match[m] = networks[j].ssid
      BY <1>2, <2>3, Zenon
    <3> QED
      BY <2>3, <3>1, Zenon DEF Early
  <2> QED
    BY <2>1, <2>2, <2>3, Zenon DEF Served
<1> QED
  BY <1>1, <1>5, <1>6, Zenon DEF AreRight, CanBeFound, NoneIsLeftOut

(* Nests of two attributes and of one.                                      *)
LEMMA NestOfTwo ==
    ASSUME NEW id \in Nat, id < Size16, NEW x \in Attr, NEW y \in Attr, NEW l \in Nat,
           4 + Len(x) + Len(y) <= l, l < Size16
    PROVE  /\ <<x, y>> \in Seq(Attr) /\ Len(<<x, y>>) = 2
           /\ IsNest(Nest(id, <<x, y>>), id, <<x, y>>)
           /\ Len(Nest(id, <<x, y>>)) <= l
<1>1. PICK attrs : attrs = <<x, y>>
  OBVIOUS
<1>2. attrs \in Seq(Attr) /\ 2 = Len(attrs) /\ attrs[1] = x /\ attrs[2] = y
  BY <1>1
<1>3. Len(x) \in Nat /\ Len(y) \in Nat
  BY AttrIsAligned
<1> DEFINE top == [k \in 0..2 |-> IF k = 0 THEN 4 ELSE IF k = 1 THEN 4 + Len(x) ELSE l]
<1>4. /\ top \in [0..2 -> Nat] /\ top[0] = 4 /\ top[1] = 4 + Len(x) /\ top[2] = l
  BY <1>3
<1> HIDE DEF top
<1>5. top[0] >= 4
  BY <1>4
<1>6. \A i \in 1..2 : top[i - 1] + Len(attrs[i]) <= top[i]
  <2>1. ASSUME NEW i \in 1..2 PROVE (i = 1 /\ i - 1 = 0) \/ (i = 2 /\ i - 1 = 1)
    OBVIOUS
  <2>2. top[0] + Len(attrs[1]) <= top[1] /\ top[1] + Len(attrs[2]) <= top[2]
    BY <1>2, <1>3, <1>4
  <2> QED
    BY <2>1, <2>2, Zenon
<1>7. \A i \in 0..2 : top[i] < Size16
  <2>1. \A i \in 0..2 : i = 0 \/ i = 1 \/ i = 2
    OBVIOUS
  <2>2. PICK z \in Nat : z = Size16
    BY DEF Size16
  <2>3. top[0] < z /\ top[1] < z /\ top[2] < z
    BY <1>3, <1>4, <2>2
  <2> QED
    BY <2>1, <2>2, <2>3, Zenon
<1>8. IsNest(Nest(id, attrs), id, attrs) /\ Len(Nest(id, attrs)) <= top[2]
  <2>1. 2 \in Nat
    OBVIOUS
  <2> QED
    BY <1>2, <1>4, <1>5, <1>6, <1>7, <2>1, NestHolds
<1> QED
  BY <1>1, <1>2, <1>4, <1>8

LEMMA NestOfOne ==
    ASSUME NEW id \in Nat, id < Size16, NEW x \in Attr, NEW l \in Nat,
           4 + Len(x) <= l, l < Size16
    PROVE  /\ <<x>> \in Seq(Attr) /\ Len(<<x>>) = 1
           /\ IsNest(Nest(id, <<x>>), id, <<x>>)
           /\ Len(Nest(id, <<x>>)) <= l
<1>1. PICK attrs : attrs = <<x>>
  OBVIOUS
<1>2. attrs \in Seq(Attr) /\ 1 = Len(attrs) /\ attrs[1] = x
  BY <1>1
<1>3. Len(x) \in Nat
  BY AttrIsAligned
<1> DEFINE top == [k \in 0..1 |-> IF k = 0 THEN 4 ELSE l]
<1>4. top \in [0..1 -> Nat] /\ top[0] = 4 /\ top[1] = l
  BY <1>3
<1> HIDE DEF top
<1>5. top[0] >= 4
  BY <1>4
<1>6. \A i \in 1..1 : top[i - 1] + Len(attrs[i]) <= top[i]
  <2>1. ASSUME NEW i \in 1..1 PROVE i = 1 /\ i - 1 = 0
    OBVIOUS
  <2>2. top[0] + Len(attrs[1]) <= top[1]
    BY <1>2, <1>3, <1>4
  <2> QED
    BY <2>1, <2>2, Zenon
<1>7. \A i \in 0..1 : top[i] < Size16
  <2>1. \A i \in 0..1 : i = 0 \/ i = 1
    OBVIOUS
  <2>2. PICK z \in Nat : z = Size16
    BY DEF Size16
  <2>3. top[0] < z /\ top[1] < z
    BY <1>3, <1>4, <2>2
  <2> QED
    BY <2>1, <2>2, <2>3, Zenon
<1>8. IsNest(Nest(id, attrs), id, attrs) /\ Len(Nest(id, attrs)) <= top[1]
  <2>1. 1 \in Nat
    OBVIOUS
  <2> QED
    BY <1>2, <1>4, <1>5, <1>6, <1>7, <2>1, NestHolds
<1> QED
  BY <1>1, <1>2, <1>4, <1>8

LEMMA FoundInTwo ==
    ASSUME NEW a, NEW id, NEW x \in Attr, NEW y \in Attr, IsNest(a, id, <<x, y>>),
           GetAttributeId(x) # GetAttributeId(y)
    PROVE  /\ GetAttributeImpl(RawValue(a), GetAttributeId(x)) = <<x>>
           /\ GetAttributeImpl(RawValue(a), GetAttributeId(y)) = <<y>>
<1>1. PICK attrs : attrs = <<x, y>>
  OBVIOUS
<1>2. Holds(RawValue(a), attrs)
  BY <1>1, NestValue
<1>3. Len(attrs) = 2 /\ attrs[1] = x /\ attrs[2] = y
  BY <1>1
<1>4. 1 \in 1..Len(attrs) /\ 2 \in 1..Len(attrs)
  BY <1>3
<1>5. \A j \in 1..(1 - 1) : GetAttributeId(attrs[j]) # GetAttributeId(x)
  OBVIOUS
<1>6. \A j \in 1..(2 - 1) : GetAttributeId(attrs[j]) # GetAttributeId(y)
  <2>1. \A j \in 1..(2 - 1) : j = 1
    OBVIOUS
  <2> QED
    BY <1>3, <2>1, Zenon
<1>7. GetAttributeImpl(RawValue(a), GetAttributeId(x)) = <<attrs[1]>>
  BY <1>2, <1>3, <1>4, <1>5, AttributeIsFound
<1>8. GetAttributeImpl(RawValue(a), GetAttributeId(y)) = <<attrs[2]>>
  BY <1>2, <1>3, <1>4, <1>6, AttributeIsFound
<1> QED
  BY <1>3, <1>7, <1>8, Zenon

LEMMA FoundInOne ==
    ASSUME NEW a, NEW id, NEW x \in Attr, IsNest(a, id, <<x>>)
    PROVE  /\ GetAttributeImpl(RawValue(a), GetAttributeId(x)) = <<x>>
           /\ \A other : other # GetAttributeId(x) =>
                 GetAttributeImpl(RawValue(a), other) = <<>>
<1>1. PICK attrs : attrs = <<x>>
  OBVIOUS
<1>2. Holds(RawValue(a), attrs)
  BY <1>1, NestValue
<1>3. Len(attrs) = 1 /\ attrs[1] = x
  BY <1>1
<1>4. 1 \in 1..Len(attrs)
  BY <1>3
<1>5. \A j \in 1..(1 - 1) : GetAttributeId(attrs[j]) # GetAttributeId(x)
  OBVIOUS
<1>6. GetAttributeImpl(RawValue(a), GetAttributeId(x)) = <<attrs[1]>>
  BY <1>2, <1>3, <1>4, <1>5, AttributeIsFound
<1>7. ASSUME NEW other, other # GetAttributeId(x)
      PROVE  GetAttributeImpl(RawValue(a), other) = <<>>
  <2>1. \A j \in 1..1 : j = 1
    OBVIOUS
  <2>2. \A j \in 1..Len(attrs) : GetAttributeId(attrs[j]) # other
    BY <1>3, <1>7, <2>1, Zenon
  <2> QED
    BY <1>2, <2>2, AttributeIsMissing
<1> QED
  BY <1>3, <1>6, <1>7, Zenon

-----------------------------------------------------------------------------
(* Match sets *)

MatchSetAttr(i, ssid, rssi) ==
    Nest(i, <<BaseNL80211Attr(MATCH_ATTR.SSID, ssid), IntAttr(MATCH_ATTR.RSSI, rssi, 4)>>)

LEMMA MatchSetIsBuilt ==
    ASSUME NEW i \in Nat, i < Size16, NEW ssid \in Ssid, NEW rssi \in Int
    PROVE  \E a \in Attr : /\ a = MatchSetAttr(i, ssid, rssi)
                           /\ Len(a) <= 52
                           /\ RawValue(a) \in Seq(Byte)
                           /\ GetBytes(RawValue(a), MATCH_ATTR.SSID) = <<ssid>>
<1>1. PICK one \in Nat : one = 1 /\ one < Size16
  BY DEF Size16
<1>2. PICK two \in Nat : two = 2 /\ two < Size16
  BY DEF Size16
<1>3. MATCH_ATTR.SSID = one /\ MATCH_ATTR.RSSI = two /\ one # two
  BY <1>1, <1>2 DEF MATCH_ATTR
<1>4. PICK x \in Attr : /\ x = BaseNL80211Attr(one, ssid)
                        /\ GetAttributeId(x) = one
                        /\ RawValue(x) = ssid
                        /\ Len(x) <= 40
  BY <1>1, SsidAttribute, Zenon
<1>5. PICK y \in Attr : y = IntAttr(two, rssi, 4) /\ GetAttributeId(y) = two /\ Len(y) = 8
  BY <1>2, FourByteAttribute, Zenon
<1>6. PICK l \in Nat : l = 52 /\ l < Size16
  BY DEF Size16
<1>7. 4 + Len(x) + Len(y) <= l
  <2>1. Len(x) \in Nat
    BY AttrIsAligned
  <2>2. PICK m \in Nat : m = Len(x) /\ m <= 40
    BY <1>4, <2>1, Zenon
  <2>3. 4 + m + 8 <= l
    BY <1>6, <2>2
  <2> QED
    BY <1>5, <2>2, <2>3, Zenon
<1>8. PICK a : a = Nest(i, <<x, y>>)
  BY Zenon
<1>9. IsNest(a, i, <<x, y>>) /\ Len(a) <= l
  BY <1>6, <1>7, <1>8, NestOfTwo
<1>10. a = MatchSetAttr(i, ssid, rssi)
  BY <1>3, <1>4, <1>5, <1>8, Zenon DEF MatchSetAttr
<1>11. GetAttributeImpl(RawValue(a), one) = <<x>>
  <2>1. GetAttributeId(x) # GetAttributeId(y)
    BY <1>3, <1>4, <1>5, Zenon
  <2>2. GetAttributeImpl(RawValue(a), GetAttributeId(x)) = <<x>>
    BY <1>9, <2>1, FoundInTwo, Zenon
  <2> QED
    BY <1>4, <2>2, Zenon
<1>12. GetBytes(RawValue(a), MATCH_ATTR.SSID) = <<ssid>>
  <2>1. <<x>> # <<>> /\ <<x>>[1] = x
    OBVIOUS
  <2> QED
    BY <1>3, <1>4, <1>11, <2>1, Zenon DEF GetBytes, IfFound
<1>13. RawValue(a) \in Seq(Byte)
  BY <1>9, NestValue DEF Holds
<1> QED
  BY <1>6, <1>9, <1>10, <1>12, <1>13, Zenon DEF IsNest

MatchList == {s \in Seq(Ssid) : Len(s) <= 255}

LEMMA MatchSetsAreListed ==
    ASSUME NEW ssids \in Seq(Ssid), NEW n \in Nat, n = Len(ssids), n <= 255, NEW rssi \in Int
    PROVE  \E attrs \in Seq(Attr) :
              /\ IsNest(MatchAttr(ssids, rssi), ATTR.SCHED_SCAN_MATCH, attrs)
              /\ Len(attrs) = n
              /\ \A i \in 1..n : /\ RawValue(attrs[i]) \in Seq(Byte)
                                 /\ GetBytes(RawValue(attrs[i]), MATCH_ATTR.SSID) = <<ssids[i]>>
<1> DEFINE attrs == [i \in 1..n |-> MatchSetAttr(i - 1, ssids[i], rssi)]
<1>1. DOMAIN ssids = 1..n
  OBVIOUS
<1>2. MatchAttr(ssids, rssi) = Nest(ATTR.SCHED_SCAN_MATCH, attrs)
  BY <1>1 DEF MatchAttr, ListAttr, MatchSetAttr
<1>3. ASSUME NEW i \in 1..n
      PROVE  /\ attrs[i] \in Attr
             /\ Len(attrs[i]) <= 52
             /\ RawValue(attrs[i]) \in Seq(Byte)
             /\ GetBytes(RawValue(attrs[i]), MATCH_ATTR.SSID) = <<ssids[i]>>
  <2>1. PICK j \in Nat : j = i - 1
    OBVIOUS
  <2>2. j < Size16
    BY <2>1 DEF Size16
  <2>3. PICK e \in Ssid : e = ssids[i]
    OBVIOUS
  <2>4. PICK a \in Attr : /\ a = MatchSetAttr(j, e, rssi)
                          /\ Len(a) <= 52
                          /\ RawValue(a) \in Seq(Byte)
                          /\ GetBytes(RawValue(a), MATCH_ATTR.SSID) = <<e>>
    BY <2>2, MatchSetIsBuilt, Zenon
  <2>5. attrs[i] = a
    BY <2>1, <2>3, <2>4, Zenon
  <2> QED
    BY <2>3, <2>4, <2>5, Zenon
<1>4. attrs \in Seq(Attr) /\ Len(attrs) = n
  <2>1. \A i \in 1..n : attrs[i] \in Attr
    BY <1>3, Zenon
  <2> QED
    BY <2>1
<1> HIDE DEF attrs
<1> DEFINE top == [k \in 0..n |-> 4 + 52 * k]
<1>5. top \in [0..n -> Nat] /\ top[0] >= 4
  OBVIOUS
<1>6. ASSUME NEW i \in 1..n PROVE top[i - 1] + Len(attrs[i]) <= top[i]
  <2>1. i - 1 \in 0..n /\ i \in 0..n
    OBVIOUS
  <2>2. top[i - 1] = 4 + 52 * (i - 1) /\ top[i] = 4 + 52 * i
    BY <2>1
  <2>3. PICK m \in Nat : m = Len(attrs[i]) /\ m <= 52
    <3>1. attrs[i] \in Attr /\ Len(attrs[i]) <= 52
      BY <1>3, Zenon
    <3>2. Len(attrs[i]) \in Nat
      BY <3>1, AttrIsAligned
    <3> QED
      BY <3>1, <3>2, Zenon
  <2> HIDE DEF top
  <2>4. (4 + 52 * (i - 1)) + m <= 4 + 52 * i
    <3>1. m <= 52 /\ i \in Int
      BY <2>3
    <3> QED
      BY <3>1
  <2> QED
    BY <2>2, <2>3, <2>4, Zenon
<1>7. \A i \in 0..n : top[i] < Size16
  BY DEF Size16
<1> HIDE DEF top
<1>8. IsNest(Nest(ATTR.SCHED_SCAN_MATCH, attrs), ATTR.SCHED_SCAN_MATCH, attrs)
  BY <1>4, <1>5, <1>6, <1>7, IdsAreSmall, NestHolds
<1> QED
  BY <1>2, <1>3, <1>4, <1>8, Zenon

(* The kernel matches the SSIDs that were put into the packet.              *)
LEMMA MatchesAreRead ==
    ASSUME NEW p, NEW ssids \in MatchList, NEW rssi \in Int,
           Find(p, ATTR.SCHED_SCAN_MATCH) = <<MatchAttr(ssids, rssi)>>
    PROVE  MatchedSsids(p) = ssids /\ Len(MatchSets(p)) = Len(ssids)
<1>1. PICK n \in Nat : ssids \in Seq(Ssid) /\ n = Len(ssids) /\ n <= 255
  BY DEF MatchList
<1>2. PICK attrs \in Seq(Attr) :
              /\ IsNest(MatchAttr(ssids, rssi), ATTR.SCHED_SCAN_MATCH, attrs)
              /\ Len(attrs) = n
              /\ \A i \in 1..n : /\ RawValue(attrs[i]) \in Seq(Byte)
                                 /\ GetBytes(RawValue(attrs[i]), MATCH_ATTR.SSID) = <<ssids[i]>>
  BY <1>1, MatchSetsAreListed
<1> DEFINE values == [i \in 1..n |-> RawValue(attrs[i])]
<1>3. values \in Seq(Seq(Byte)) /\ Len(values) = n /\ DOMAIN values = 1..n
  BY <1>2
<1>4. \A i \in 1..n : /\ RawValue(attrs[i]) = values[i]
                      /\ GetBytes(values[i], MATCH_ATTR.SSID) = <<ssids[i]>>
  BY <1>2
<1> HIDE DEF values
<1>5. Values(p, ATTR.SCHED_SCAN_MATCH) = values
  <2>1. Len(attrs) = Len(values) /\ \A i \in 1..Len(values) : RawValue(attrs[i]) = values[i]
    BY <1>2, <1>3, <1>4, Zenon
  <2> QED
    BY <1>2, <1>3, <2>1, ValuesOfNest
<1> DEFINE MatchSet(i) == [ssid |-> GetBytes(values[i], MATCH_ATTR.SSID)[1],
                           rssi |-> GetSigned(values[i], MATCH_ATTR.RSSI, 4)[1]]
<1>6. MatchSets(p) = [i \in 1..n |-> MatchSet(i)]
  BY <1>3, <1>5, Zenon DEF MatchSets
<1>7. ASSUME NEW i \in 1..n PROVE MatchSet(i).ssid = ssids[i]
  <2>1. GetBytes(values[i], MATCH_ATTR.SSID)[1] = ssids[i]
    BY <1>4
  <2> QED
    BY <2>1
<1> HIDE DEF MatchSet
<1>8. PICK sets : sets = [i \in 1..n |-> MatchSet(i)]
  OBVIOUS
<1>9. Len(sets) = n /\ DOMAIN sets = 1..n /\ \A i \in 1..n : sets[i].ssid = ssids[i]
  BY <1>7, <1>8
<1>10. MatchedSsids(p) = [i \in 1..n |-> sets[i].ssid]
  BY <1>6, <1>8, <1>9, Zenon DEF MatchedSsids
<1>11. ssids = [i \in 1..n |-> ssids[i]]
  BY <1>1
<1>12. MatchedSsids(p) = ssids
  BY <1>9, <1>10, <1>11
<1> QED
  BY <1>1, <1>6, <1>8, <1>9, <1>12, Zenon

-----------------------------------------------------------------------------
(* Intervals *)

\* One interval, or a plan of fast scans and slow ones after them.
NoPlan(final) == [plans |-> <<>>, final_interval_ms |-> final]
OnePlan(fast, times, slow) ==
    [plans |-> <<[interval_ms |-> fast, n_iterations |-> times]>>, final_interval_ms |-> slow]

FastAttr(fast, times) ==
    Nest(1, <<IntAttr(SCHED_SCAN_PLAN.INTERVAL, fast, 4),
              IntAttr(SCHED_SCAN_PLAN.ITERATIONS, times, 4)>>)
SlowAttr(slow) == Nest(2, <<IntAttr(SCHED_SCAN_PLAN.INTERVAL, slow, 4)>>)

LEMMA FastPlanIsBuilt ==
    ASSUME NEW fast \in Int, NEW times \in Int
    PROVE  \E a \in Attr :
              /\ a = FastAttr(fast, times) /\ Len(a) <= 20 /\ RawValue(a) \in Seq(Byte)
              /\ GetAttributeImpl(RawValue(a), SCHED_SCAN_PLAN.INTERVAL)
                   = <<IntAttr(SCHED_SCAN_PLAN.INTERVAL, fast, 4)>>
              /\ GetAttributeImpl(RawValue(a), SCHED_SCAN_PLAN.ITERATIONS)
                   = <<IntAttr(SCHED_SCAN_PLAN.ITERATIONS, times, 4)>>
<1>1. PICK one \in Nat : one = 1 /\ one < Size16
  BY DEF Size16
<1>2. PICK two \in Nat : two = 2 /\ two < Size16
  BY DEF Size16
<1>3. SCHED_SCAN_PLAN.INTERVAL = one /\ SCHED_SCAN_PLAN.ITERATIONS = two /\ one # two
  BY <1>1, <1>2 DEF SCHED_SCAN_PLAN
<1>4. PICK x \in Attr : x = IntAttr(one, fast, 4) /\ GetAttributeId(x) = one /\ Len(x) = 8
  BY <1>1, FourByteAttribute, Zenon
<1>5. PICK y \in Attr : y = IntAttr(two, times, 4) /\ GetAttributeId(y) = two /\ Len(y) = 8
  BY <1>2, FourByteAttribute, Zenon
<1>6. PICK l \in Nat : l = 20 /\ l < Size16
  BY DEF Size16
<1>7. 4 + Len(x) + Len(y) <= l
  <2>1. 4 + 8 + 8 <= l
    BY <1>6
  <2> QED
    BY <1>4, <1>5, <2>1, Zenon
<1>8. PICK a : a = Nest(one, <<x, y>>)
  BY Zenon
<1>9. IsNest(a, one, <<x, y>>) /\ Len(a) <= l
  BY <1>1, <1>6, <1>7, <1>8, NestOfTwo
<1>10. a = FastAttr(fast, times)
  BY <1>1, <1>3, <1>4, <1>5, <1>8, Zenon DEF FastAttr
<1>11. /\ GetAttributeImpl(RawValue(a), GetAttributeId(x)) = <<x>>
       /\ GetAttributeImpl(RawValue(a), GetAttributeId(y)) = <<y>>
  <2>1. GetAttributeId(x) # GetAttributeId(y)
    BY <1>3, <1>4, <1>5, Zenon
  <2> QED
    BY <1>9, <2>1, FoundInTwo, Zenon
<1>12. RawValue(a) \in Seq(Byte)
  BY <1>9, NestValue DEF Holds
<1>13. a \in Attr /\ Len(a) <= 20
  BY <1>6, <1>9, Zenon DEF IsNest
<1> QED
  BY <1>3, <1>4, <1>5, <1>10, <1>11, <1>12, <1>13, Zenon

LEMMA SlowPlanIsBuilt ==
    ASSUME NEW slow \in Int
    PROVE  \E a \in Attr :
              /\ a = SlowAttr(slow) /\ Len(a) <= 12 /\ RawValue(a) \in Seq(Byte)
              /\ GetAttributeImpl(RawValue(a), SCHED_SCAN_PLAN.INTERVAL)
                   = <<IntAttr(SCHED_SCAN_PLAN.INTERVAL, slow, 4)>>
              /\ GetAttributeImpl(RawValue(a), SCHED_SCAN_PLAN.ITERATIONS) = <<>>
<1>1. PICK one \in Nat : one = 1 /\ one < Size16
  BY DEF Size16
<1>2. PICK two \in Nat : two = 2 /\ two < Size16
  BY DEF Size16
<1>3. SCHED_SCAN_PLAN.INTERVAL = one /\ SCHED_SCAN_PLAN.ITERATIONS = two /\ one # two
  BY <1>1, <1>2 DEF SCHED_SCAN_PLAN
<1>4. PICK x \in Attr : x = IntAttr(one, slow, 4) /\ GetAttributeId(x) = one /\ Len(x) = 8
  BY <1>1, FourByteAttribute, Zenon
<1>5. PICK l \in Nat : l = 12 /\ l < Size16
  BY DEF Size16
<1>6. 4 + Len(x) <= l
  <2>1. 4 + 8 <= l
    BY <1>5
  <2> QED
    BY <1>4, <2>1, Zenon
<1>7. PICK a : a = Nest(two, <<x>>)
  BY Zenon
<1>8. IsNest(a, two, <<x>>) /\ Len(a) <= l
  BY <1>2, <1>5, <1>6, <1>7, NestOfOne
<1>9. a = SlowAttr(slow)
  BY <1>2, <1>3, <1>4, <1>7, Zenon DEF SlowAttr
<1>10. /\ GetAttributeImpl(RawValue(a), GetAttributeId(x)) = <<x>>
       /\ \A other : other # GetAttributeId(x) => GetAttributeImpl(RawValue(a), other) = <<>>
  BY <1>8, FoundInOne, Zenon
<1>11. RawValue(a) \in Seq(Byte)
  BY <1>8, NestValue DEF Holds
<1>12. a \in Attr /\ Len(a) <= 12
  BY <1>5, <1>8, Zenon DEF IsNest
<1> QED
  BY <1>3, <1>4, <1>9, <1>10, <1>11, <1>12, Zenon

LEMMA TwoElements == \A a, b : Append(<<a>>, b) = <<a, b>>
<1> TAKE a, b
<1> DEFINE T == {a, b}
<1>1. PICK s \in Seq(T) : s = <<a>> /\ Len(s) = 1 /\ s[1] = a
  <2>1. <<a>> \in Seq(T) /\ Len(<<a>>) = 1 /\ <<a>>[1] = a
    OBVIOUS
  <2> QED
    BY <2>1, Zenon
<1>2. PICK t \in Seq(T) : t = <<a, b>> /\ Len(t) = 2 /\ t[1] = a /\ t[2] = b
  <2>1. <<a, b>> \in Seq(T) /\ Len(<<a, b>>) = 2 /\ <<a, b>>[1] = a /\ <<a, b>>[2] = b
    OBVIOUS
  <2> QED
    BY <2>1, Zenon
<1>3. b \in T
  OBVIOUS
<1> HIDE DEF T
<1>4. PICK u \in Seq(T) : /\ u = Append(s, b) /\ Len(u) = Len(s) + 1
                          /\ \A i \in 1..Len(s) : u[i] = s[i]
                          /\ u[Len(s) + 1] = b
  BY <1>3, AppendProperties
<1>5. Len(u) = 2 /\ u[1] = a /\ u[2] = b
  BY <1>1, <1>4
<1>6. Len(u) = Len(t) /\ \A i \in 1..Len(u) : u[i] = t[i]
  <2>1. \A i \in 1..2 : i = 1 \/ i = 2
    OBVIOUS
  <2> QED
    BY <1>2, <1>5, <2>1, Zenon
<1>7. u = t
  BY <1>6, SeqEqual
<1> QED
  BY <1>1, <1>2, <1>4, <1>7, Zenon

LEMMA PlanIsAttribute ==
    ASSUME NEW fast \in Int, NEW times \in Int, NEW slow \in Int
    PROVE  IntervalAttr(OnePlan(fast, times, slow)) =
             Nest(ATTR.SCHED_SCAN_PLANS, <<FastAttr(fast \div kMsecPerSec, times),
                                           SlowAttr(slow \div kMsecPerSec)>>)
<1>1. PICK plan : plan = [interval_ms |-> fast, n_iterations |-> times]
  OBVIOUS
<1>2. PICK setting : setting = OnePlan(fast, times, slow)
  OBVIOUS
<1>3. plan.interval_ms = fast /\ plan.n_iterations = times
  BY <1>1
<1>4. setting.plans = <<plan>> /\ setting.final_interval_ms = slow
  BY <1>1, <1>2 DEF OnePlan
<1>5. Len(<<plan>>) = 1 /\ <<plan>> # <<>> /\ DOMAIN <<plan>> = 1..1 /\ <<plan>>[1] = plan
  OBVIOUS
<1>6. PlanAttr(1, plan) = FastAttr(fast \div kMsecPerSec, times)
  BY <1>3, Zenon DEF PlanAttr, FastAttr
<1>7. PICK a : a = PlanAttr(1, plan)
  OBVIOUS
<1>8. [i \in DOMAIN <<plan>> |-> PlanAttr(i, <<plan>>[i])] = <<a>>
  <2>1. [i \in DOMAIN <<plan>> |-> PlanAttr(i, <<plan>>[i])] = [i \in 1..1 |-> a]
    <3>1. \A i \in 1..1 : i = 1
      OBVIOUS
    <3>2. \A i \in 1..1 : PlanAttr(i, <<plan>>[i]) = a
      BY <1>5, <1>7, <3>1, Zenon
    <3> QED
      BY <1>5, <3>2
  <2>2. [i \in 1..1 |-> a] = <<a>>
    OBVIOUS
  <2> QED
    BY <2>1, <2>2, Zenon
<1>9. PICK b : b = SlowAttr(slow \div kMsecPerSec)
  OBVIOUS
<1>10. Nest(Len(<<plan>>) + 1, <<IntAttr(SCHED_SCAN_PLAN.INTERVAL, slow \div kMsecPerSec, 4)>>) = b
  <2>1. Len(<<plan>>) + 1 = 2
    BY <1>5
  <2> QED
    BY <1>9, <2>1, Zenon DEF SlowAttr
<1>11. Append(<<a>>, b) = <<a, b>>
  BY TwoElements, Zenon
<1>12. IntervalAttr(setting) = Nest(ATTR.SCHED_SCAN_PLANS, <<a, b>>)
  BY <1>4, <1>5, <1>8, <1>10, <1>11, Zenon DEF IntervalAttr
<1> QED
  BY <1>2, <1>6, <1>7, <1>9, <1>12, Zenon

(* The attribute of the intervals is well formed, and one of two.           *)
LEMMA PlansAreListed ==
    ASSUME NEW fast \in Int, NEW times \in Int, NEW slow \in Int
    PROVE  \E x \in Attr : \E y \in Attr :
              /\ x = FastAttr(fast \div kMsecPerSec, times)
              /\ y = SlowAttr(slow \div kMsecPerSec)
              /\ <<x, y>> \in Seq(Attr) /\ Len(<<x, y>>) = 2
              /\ IsNest(IntervalAttr(OnePlan(fast, times, slow)), ATTR.SCHED_SCAN_PLANS, <<x, y>>)
<1>1. kMsecPerSec \in Nat \ {0}
  BY SecondAssumption
<1>2. PICK u \in Int : u = fast \div kMsecPerSec
  BY <1>1
<1>3. PICK v \in Int : v = slow \div kMsecPerSec
  BY <1>1
<1>4. PICK x \in Attr : x = FastAttr(u, times) /\ Len(x) <= 20
  BY FastPlanIsBuilt, Zenon
<1>5. PICK y \in Attr : y = SlowAttr(v) /\ Len(y) <= 12
  BY SlowPlanIsBuilt, Zenon
<1>6. PICK l \in Nat : l = 36 /\ l < Size16
  BY DEF Size16
<1>7. 4 + Len(x) + Len(y) <= l
  <2>1. Len(x) \in Nat /\ Len(y) \in Nat
    BY AttrIsAligned
  <2>2. PICK m \in Nat : m = Len(x) /\ m <= 20
    BY <1>4, <2>1, Zenon
  <2>3. PICK k \in Nat : k = Len(y) /\ k <= 12
    BY <1>5, <2>1, Zenon
  <2>4. 4 + m + k <= l
    BY <1>6, <2>2, <2>3
  <2> QED
    BY <2>2, <2>3, <2>4, Zenon
<1>8. /\ <<x, y>> \in Seq(Attr) /\ Len(<<x, y>>) = 2
      /\ IsNest(Nest(ATTR.SCHED_SCAN_PLANS, <<x, y>>), ATTR.SCHED_SCAN_PLANS, <<x, y>>)
  BY <1>6, <1>7, IdsAreSmall, NestOfTwo
<1>9. IntervalAttr(OnePlan(fast, times, slow)) = Nest(ATTR.SCHED_SCAN_PLANS, <<x, y>>)
  <2>1. IntervalAttr(OnePlan(fast, times, slow)) =
          Nest(ATTR.SCHED_SCAN_PLANS, <<FastAttr(fast \div kMsecPerSec, times),
                                        SlowAttr(slow \div kMsecPerSec)>>)
    BY PlanIsAttribute, Zenon
  <2> QED
    BY <1>2, <1>3, <1>4, <1>5, <2>1, Zenon
<1> QED
  BY <1>2, <1>3, <1>4, <1>5, <1>8, <1>9, Zenon

(* The kernel reads the two plans that were put into the packet.            *)
LEMMA PlansAreRead ==
    ASSUME NEW p, NEW fast \in Int, NEW times \in Nat, NEW slow \in Int,
           NEW u \in Nat, u = fast \div kMsecPerSec, NEW v \in Nat, v = slow \div kMsecPerSec,
           Fits32(u), Fits32(v), Fits32(times),
           Find(p, ATTR.SCHED_SCAN_PLANS) = <<IntervalAttr(OnePlan(fast, times, slow))>>
    PROVE  /\ Len(ScanPlans(p)) = 2 /\ DOMAIN ScanPlans(p) = 1..2
           /\ ScanPlans(p)[1].interval = <<u>> /\ ScanPlans(p)[1].iterations = <<times>>
           /\ ScanPlans(p)[2].interval = <<v>> /\ ScanPlans(p)[2].iterations = <<>>
<1>1. times \in Int /\ u \in Int /\ v \in Int
  OBVIOUS
<1>2. PICK x \in Attr : \E y \in Attr :
         /\ x = FastAttr(u, times) /\ y = SlowAttr(v)
         /\ <<x, y>> \in Seq(Attr) /\ Len(<<x, y>>) = 2
         /\ IsNest(IntervalAttr(OnePlan(fast, times, slow)), ATTR.SCHED_SCAN_PLANS, <<x, y>>)
  BY <1>1, PlansAreListed, Zenon
<1>3. PICK y \in Attr :
         /\ x = FastAttr(u, times) /\ y = SlowAttr(v)
         /\ <<x, y>> \in Seq(Attr) /\ Len(<<x, y>>) = 2
         /\ IsNest(IntervalAttr(OnePlan(fast, times, slow)), ATTR.SCHED_SCAN_PLANS, <<x, y>>)
  BY <1>2, Zenon
<1>4. /\ RawValue(x) \in Seq(Byte)
      /\ GetAttributeImpl(RawValue(x), SCHED_SCAN_PLAN.INTERVAL)
                   = <<IntAttr(SCHED_SCAN_PLAN.INTERVAL, u, 4)>>
      /\ GetAttributeImpl(RawValue(x), SCHED_SCAN_PLAN.ITERATIONS)
                   = <<IntAttr(SCHED_SCAN_PLAN.ITERATIONS, times, 4)>>
  <2>1. PICK a \in Attr :
              /\ a = FastAttr(u, times) /\ RawValue(a) \in Seq(Byte)
              /\ GetAttributeImpl(RawValue(a), SCHED_SCAN_PLAN.INTERVAL)
                   = <<IntAttr(SCHED_SCAN_PLAN.INTERVAL, u, 4)>>
              /\ GetAttributeImpl(RawValue(a), SCHED_SCAN_PLAN.ITERATIONS)
                   = <<IntAttr(SCHED_SCAN_PLAN.ITERATIONS, times, 4)>>
    BY <1>1, FastPlanIsBuilt, Zenon
  <2> QED
    BY <1>3, <2>1, Zenon
<1>5. /\ RawValue(y) \in Seq(Byte)
      /\ GetAttributeImpl(RawValue(y), SCHED_SCAN_PLAN.INTERVAL)
                   = <<IntAttr(SCHED_SCAN_PLAN.INTERVAL, v, 4)>>
      /\ GetAttributeImpl(RawValue(y), SCHED_SCAN_PLAN.ITERATIONS) = <<>>
  BY <1>1, <1>3, SlowPlanIsBuilt, Zenon
<1>6. /\ SCHED_SCAN_PLAN.INTERVAL \in Nat /\ SCHED_SCAN_PLAN.INTERVAL < Size16
      /\ SCHED_SCAN_PLAN.ITERATIONS \in Nat /\ SCHED_SCAN_PLAN.ITERATIONS < Size16
  BY DEF SCHED_SCAN_PLAN, Size16
<1>7. PICK first \in Seq(Byte) : first = RawValue(x)
  BY <1>4
<1>8. PICK second \in Seq(Byte) : second = RawValue(y)
  BY <1>5
<1>9. GetInt(first, SCHED_SCAN_PLAN.INTERVAL, 4) = <<u>>
  <2>1. GetAttributeImpl(first, SCHED_SCAN_PLAN.INTERVAL)
          = <<IntAttr(SCHED_SCAN_PLAN.INTERVAL, u, 4)>>
    BY <1>4, <1>7, Zenon
  <2> QED
    BY <1>6, <2>1, IntIsFound
<1>10. GetInt(first, SCHED_SCAN_PLAN.ITERATIONS, 4) = <<times>>
  <2>1. GetAttributeImpl(first, SCHED_SCAN_PLAN.ITERATIONS)
          = <<IntAttr(SCHED_SCAN_PLAN.ITERATIONS, times, 4)>>
    BY <1>4, <1>7, Zenon
  <2> QED
    BY <1>6, <2>1, IntIsFound
<1>11. GetInt(second, SCHED_SCAN_PLAN.INTERVAL, 4) = <<v>>
  <2>1. GetAttributeImpl(second, SCHED_SCAN_PLAN.INTERVAL)
          = <<IntAttr(SCHED_SCAN_PLAN.INTERVAL, v, 4)>>
    BY <1>5, <1>8, Zenon
  <2> QED
    BY <1>6, <2>1, IntIsFound
<1>12. GetInt(second, SCHED_SCAN_PLAN.ITERATIONS, 4) = <<>>
  BY <1>5, <1>8, NothingIsFound, Zenon
<1>13. PICK values \in Seq(Seq(Byte)) : /\ Len(values) = 2 /\ DOMAIN values = 1..2
                                        /\ values[1] = first /\ values[2] = second
  <2>1. /\ <<first, second>> \in Seq(Seq(Byte)) /\ Len(<<first, second>>) = 2
        /\ DOMAIN <<first, second>> = 1..2
        /\ <<first, second>>[1] = first /\ <<first, second>>[2] = second
    OBVIOUS
  <2> QED
    BY <2>1, Zenon
<1>14. PICK attrs \in Seq(Attr) : /\ attrs = <<x, y>> /\ Len(attrs) = 2
                                  /\ attrs[1] = x /\ attrs[2] = y
  <2>1. <<x, y>>[1] = x /\ <<x, y>>[2] = y
    OBVIOUS
  <2> QED
    BY <1>3, <2>1, Zenon
<1>15. Values(p, ATTR.SCHED_SCAN_PLANS) = values
  <2>1. \A i \in 1..2 : i = 1 \/ i = 2
    OBVIOUS
  <2>2. Len(attrs) = Len(values) /\ \A i \in 1..Len(values) : RawValue(attrs[i]) = values[i]
    BY <1>7, <1>8, <1>13, <1>14, <2>1, Zenon
  <2>3. PICK a : a = IntervalAttr(OnePlan(fast, times, slow))
    OBVIOUS
  <2>4. IsNest(a, ATTR.SCHED_SCAN_PLANS, attrs) /\ Find(p, ATTR.SCHED_SCAN_PLANS) = <<a>>
    BY <1>3, <1>14, <2>3, Zenon
  <2> QED
    BY <2>2, <2>4, ValuesOfNest
<1> DEFINE Plan(i) == [interval |-> GetInt(values[i], SCHED_SCAN_PLAN.INTERVAL, 4),
                       iterations |-> GetInt(values[i], SCHED_SCAN_PLAN.ITERATIONS, 4)]
<1>16. ScanPlans(p) = [i \in 1..2 |-> Plan(i)]
  BY <1>13, <1>15, Zenon DEF ScanPlans
<1>17. /\ Plan(1).interval = <<u>> /\ Plan(1).iterations = <<times>>
       /\ Plan(2).interval = <<v>> /\ Plan(2).iterations = <<>>
  <2>1. \A i : /\ Plan(i).interval = GetInt(values[i], SCHED_SCAN_PLAN.INTERVAL, 4)
               /\ Plan(i).iterations = GetInt(values[i], SCHED_SCAN_PLAN.ITERATIONS, 4)
    OBVIOUS
  <2> HIDE DEF Plan
  <2> QED
    BY <1>9, <1>10, <1>11, <1>12, <1>13, <2>1, Zenon
<1> HIDE DEF Plan
<1>18. PICK plans : plans = [i \in 1..2 |-> Plan(i)]
  OBVIOUS
<1>19. Len(plans) = 2 /\ DOMAIN plans = 1..2 /\ plans[1] = Plan(1) /\ plans[2] = Plan(2)
  BY <1>18
<1> QED
  BY <1>16, <1>17, <1>18, <1>19, Zenon

-----------------------------------------------------------------------------
(* The packet of a scheduled scan *)

LEMMA AdjustIsBuilt ==
    ASSUME NEW g2 \in Int, NEW g5 \in Int
    PROVE  \E a \in Attr : /\ a = RssiAdjustAttr(g2, g5)
                           /\ GetAttributeId(a) = ATTR.SCHED_SCAN_RSSI_ADJUST
<1>1. PICK d \in Int : d = g2 - g5
  OBVIOUS
<1>2. PICK t \in Seq(Byte) : t = IntBytes(d, 1) /\ Len(t) = 1
  <2>1. 1 \in Nat
    OBVIOUS
  <2> QED
    BY <2>1, BytesOfInt, Zenon
<1>3. PICK s \in Seq(Byte) : s = <<BAND.b2GHZ>> /\ Len(s) = 1
  <2>1. BAND.b2GHZ \in Byte
    BY DEF BAND, Byte
  <2>2. <<BAND.b2GHZ>> \in Seq(Byte) /\ Len(<<BAND.b2GHZ>>) = 1
    BY <2>1
  <2> QED
    BY <2>2, Zenon
<1>4. s \o t \in Seq(Byte) /\ Len(s \o t) = Len(s) + Len(t)
  BY Joined
<1>5. PICK raw \in Seq(Byte) : raw = s \o t
  BY <1>4, Zenon
<1>6. PICK n \in Nat : n = Len(raw) /\ 4 + n < Size16
  <2>1. Len(raw) = 2
    BY <1>2, <1>3, <1>4, <1>5
  <2>2. 2 \in Nat /\ 4 + 2 < Size16
    BY DEF Size16
  <2> QED
    BY <2>1, <2>2, Zenon
<1>7. PICK a \in Attr : /\ a = BaseNL80211Attr(ATTR.SCHED_SCAN_RSSI_ADJUST, raw)
                        /\ GetAttributeId(a) = ATTR.SCHED_SCAN_RSSI_ADJUST
  BY <1>6, IdsAreSmall, AttributeIsBuilt, Zenon
<1>8. a = RssiAdjustAttr(g2, g5)
  BY <1>1, <1>2, <1>3, <1>5, <1>7, Zenon DEF RssiAdjustAttr
<1> QED
  BY <1>7, <1>8, Zenon

\* An attribute for the intervals of a scheduled scan.
IsTiming(t) ==
    /\ t \in Attr
    /\ GetAttributeId(t) \in {ATTR.SCHED_SCAN_INTERVAL, ATTR.SCHED_SCAN_PLANS}

\* What is found in the packet of a scheduled scan.
IsScheduledScan(p, match, g5, probed, timing) ==
    /\ Find(p, ATTR.SCHED_SCAN_MATCH) = <<MatchAttr(match, g5)>>
    /\ Find(p, ATTR.SCAN_SSIDS) = <<SsidsAttr(ATTR.SCAN_SSIDS, probed)>>
    /\ \A id \in {ATTR.SCHED_SCAN_INTERVAL, ATTR.SCHED_SCAN_PLANS} :
          Find(p, id) = IF GetAttributeId(timing) = id THEN <<timing>> ELSE <<>>

\* The flags of a scheduled scan.
SchedFlags(random, low) ==
    FlagIf(random, SCAN_FLAG.RANDOM_ADDR) + FlagIf(low, SCAN_FLAG.LOW_POWER)

LEMMA ScheduledRequestHolds ==
    ASSUME NEW index \in Nat, NEW setting, IsTiming(IntervalAttr(setting)),
           NEW g2 \in Int, NEW g5 \in Int, NEW rssi, rssi = [g2 |-> g2, g5 |-> g5],
           NEW random, NEW low, SchedFlags(random, low) \in Int,
           NEW match \in MatchList, NEW probed \in SsidList, NEW lists,
           lists.match_ssids = match, lists.scan_ssids = probed
    PROVE  IsScheduledScan(StartScheduledScanRequest(index, setting, rssi, random, low, lists, <<>>),
                           match, g5, probed, IntervalAttr(setting))
<1>1. PICK p : p = StartScheduledScanRequest(index, setting, rssi, random, low, lists, <<>>)
  OBVIOUS
<1>2. PICK flags \in Int : flags = SchedFlags(random, low)
  OBVIOUS
<1>3. PICK a1 \in Attr : a1 = MatchAttr(match, g5) /\ GetAttributeId(a1) = ATTR.SCHED_SCAN_MATCH
  <2>1. PICK n \in Nat : match \in Seq(Ssid) /\ n = Len(match) /\ n <= 255
    BY DEF MatchList
  <2>2. PICK attrs : IsNest(MatchAttr(match, g5), ATTR.SCHED_SCAN_MATCH, attrs)
    BY <2>1, MatchSetsAreListed
  <2> QED
    BY <2>2 DEF IsNest
<1>4. PICK a2 \in Attr : /\ a2 = RssiAdjustAttr(g2, g5)
                         /\ GetAttributeId(a2) = ATTR.SCHED_SCAN_RSSI_ADJUST
  BY AdjustIsBuilt, Zenon
<1>5. PICK a3 \in Attr : /\ a3 = IntAttr(ATTR.IFINDEX, index, 4)
                         /\ GetAttributeId(a3) = ATTR.IFINDEX
  <2>1. index \in Int
    OBVIOUS
  <2> QED
    BY <2>1, IdsAreSmall, FourByteAttribute
<1>6. PICK a4 \in Attr : /\ a4 = SsidsAttr(ATTR.SCAN_SSIDS, probed)
                         /\ GetAttributeId(a4) = ATTR.SCAN_SSIDS
  <2>1. PICK n \in Nat : probed \in Seq(Ssid) /\ n = Len(probed) /\ n <= 256
    BY DEF SsidList
  <2>2. PICK attrs : IsNest(SsidsAttr(ATTR.SCAN_SSIDS, probed), ATTR.SCAN_SSIDS, attrs)
    BY <2>1, IdsAreSmall, SsidsAreListed
  <2> QED
    BY <2>2 DEF IsNest
<1>7. PICK a5 \in Attr :
         /\ a5 = IntervalAttr(setting)
         /\ GetAttributeId(a5) \in {ATTR.SCHED_SCAN_INTERVAL, ATTR.SCHED_SCAN_PLANS}
  BY Zenon DEF IsTiming
<1>8. PICK a6 \in Attr : /\ a6 = IntAttr(ATTR.SCAN_FLAGS, flags, 4)
                         /\ GetAttributeId(a6) = ATTR.SCAN_FLAGS
  BY IdsAreSmall, FourByteAttribute
<1>9. PICK p0 : p0 = AddFlag(NL80211Packet(FamilyId, "START_SCHED_SCAN"), "NLM_F_ACK")
  BY Zenon
<1>10. PICK p1 : p1 = PacketAdd(p0, a1)
  BY Zenon
<1>11. PICK p2 : p2 = PacketAdd(p1, a2)
  BY Zenon
<1>12. PICK p3 : p3 = PacketAdd(p2, a3)
  BY Zenon
<1>13. PICK p4 : p4 = PacketAdd(p3, a4)
  BY Zenon
<1>14. PICK p5 : p5 = PacketAdd(p4, a5)
  BY Zenon
<1>15. PICK flagged \in BOOLEAN : flagged = (flags # 0)
  BY Zenon
<1>16. PICK p6 : p6 = IF flagged THEN PacketAdd(p5, a6) ELSE p5
  BY Zenon
<1>17. p = p6
  <2>1. rssi.g2 = g2 /\ rssi.g5 = g5
    OBVIOUS
  <2> QED
    BY <1>1, <1>2, <1>3, <1>4, <1>5, <1>6, <1>7, <1>8, <1>9, <1>10, <1>11, <1>12, <1>13,
       <1>14, <1>15, <1>16, <2>1, Zenon
       DEF StartScheduledScanRequest, AddFreqs, AddScanFlags, SchedFlags
<1>18. IsPacket(p0) /\ \A id : Find(p0, id) = <<>>
  BY <1>9, NewPacket
<1>19. /\ IsPacket(p1)
       /\ \A id : Find(p1, id) = IF Find(p0, id) # <<>> THEN Find(p0, id)
                                 ELSE IF GetAttributeId(a1) = id THEN <<a1>> ELSE <<>>
  BY <1>10, <1>18, PacketGrows
<1>20. /\ IsPacket(p2)
       /\ \A id : Find(p2, id) = IF Find(p1, id) # <<>> THEN Find(p1, id)
                                 ELSE IF GetAttributeId(a2) = id THEN <<a2>> ELSE <<>>
  BY <1>11, <1>19, PacketGrows
<1>21. /\ IsPacket(p3)
       /\ \A id : Find(p3, id) = IF Find(p2, id) # <<>> THEN Find(p2, id)
                                 ELSE IF GetAttributeId(a3) = id THEN <<a3>> ELSE <<>>
  BY <1>12, <1>20, PacketGrows
<1>22. /\ IsPacket(p4)
       /\ \A id : Find(p4, id) = IF Find(p3, id) # <<>> THEN Find(p3, id)
                                 ELSE IF GetAttributeId(a4) = id THEN <<a4>> ELSE <<>>
  BY <1>13, <1>21, PacketGrows
<1>23. /\ IsPacket(p5)
       /\ \A id : Find(p5, id) = IF Find(p4, id) # <<>> THEN Find(p4, id)
                                 ELSE IF GetAttributeId(a5) = id THEN <<a5>> ELSE <<>>
  BY <1>14, <1>22, PacketGrows
<1>24. \A id : Find(p6, id) = IF Find(p5, id) # <<>> THEN Find(p5, id)
                              ELSE IF flagged /\ GetAttributeId(a6) = id THEN <<a6>> ELSE <<>>
  BY <1>16, <1>23, PacketMayGrow
<1>25. \A id, a : Find(p1, id) = <<a>> => Find(p6, id) = <<a>>
  BY <1>20, <1>21, <1>22, <1>23, <1>24, SingletonIsNotEmpty, Zenon
<1>26. \A id, a : Find(p4, id) = <<a>> => Find(p6, id) = <<a>>
  BY <1>23, <1>24, SingletonIsNotEmpty, Zenon
<1>27. Find(p6, ATTR.SCHED_SCAN_MATCH) = <<a1>>
  BY <1>3, <1>18, <1>19, <1>25, Zenon
<1>28. ASSUME NEW id, GetAttributeId(a1) # id, GetAttributeId(a2) # id, GetAttributeId(a3) # id
       PROVE  Find(p3, id) = <<>>
  BY <1>18, <1>19, <1>20, <1>21, <1>28, Zenon
<1>29. Find(p6, ATTR.SCAN_SSIDS) = <<a4>>
  <2>1. /\ ATTR.SCHED_SCAN_MATCH # ATTR.SCAN_SSIDS /\ ATTR.IFINDEX # ATTR.SCAN_SSIDS
        /\ ATTR.SCHED_SCAN_RSSI_ADJUST # ATTR.SCAN_SSIDS
    BY Ids
  <2>2. Find(p3, ATTR.SCAN_SSIDS) = <<>>
    BY <1>3, <1>4, <1>5, <1>28, <2>1, Zenon
  <2> QED
    BY <1>6, <1>22, <1>26, <2>2, Zenon
<1>30. ASSUME NEW id \in {ATTR.SCHED_SCAN_INTERVAL, ATTR.SCHED_SCAN_PLANS}
       PROVE  Find(p6, id) = IF GetAttributeId(a5) = id THEN <<a5>> ELSE <<>>
  <2>1. /\ ATTR.SCHED_SCAN_MATCH # id /\ ATTR.IFINDEX # id /\ ATTR.SCAN_SSIDS # id
        /\ ATTR.SCHED_SCAN_RSSI_ADJUST # id /\ ATTR.SCAN_FLAGS # id
    BY Ids
  <2>2. Find(p3, id) = <<>>
    BY <1>3, <1>4, <1>5, <1>28, <2>1, Zenon
  <2>3. Find(p4, id) = <<>>
    BY <1>6, <1>22, <2>1, <2>2, Zenon
  <2>4. Find(p5, id) = IF GetAttributeId(a5) = id THEN <<a5>> ELSE <<>>
    BY <1>23, <2>3, Zenon
  <2> QED
    BY <1>8, <1>24, <2>1, <2>4, SingletonIsNotEmpty, Zenon
<1> QED
  BY <1>1, <1>3, <1>6, <1>7, <1>17, <1>27, <1>29, <1>30, Zenon DEF IsScheduledScan

LEMMA SettingIs ==
    ASSUME NEW interval_ms \in Int
    PROVE  \E fast \in Int : \E slow \in Int :
              \/ GenerateIntervalSetting(interval_ms) = NoPlan(fast)
              \/ GenerateIntervalSetting(interval_ms) = OnePlan(fast, 3, slow)
<1>1. Word \in Nat \ {0}
  BY WordAssumption
<1>2. PICK fast \in Int : fast = interval_ms % Word
  BY <1>1
<1>3. PICK triple \in Int : triple = fast * kSlowScanIntervalMultiplier
  BY DEF kSlowScanIntervalMultiplier
<1>4. PICK slow \in Int : slow = triple % Word
  BY <1>1
<1>5. \/ GenerateIntervalSetting(interval_ms) = NoPlan(fast)
      \/ GenerateIntervalSetting(interval_ms) = OnePlan(fast, 3, slow)
  BY <1>2, <1>3, <1>4, Zenon
     DEF GenerateIntervalSetting, NoPlan, OnePlan, kFastScanIterations
<1> QED
  BY <1>5, Zenon

LEMMA SettingIsTiming ==
    ASSUME NEW interval_ms \in Int
    PROVE  IsTiming(IntervalAttr(GenerateIntervalSetting(interval_ms)))
<1>1. PICK fast \in Int : \E slow \in Int :
         \/ GenerateIntervalSetting(interval_ms) = NoPlan(fast)
         \/ GenerateIntervalSetting(interval_ms) = OnePlan(fast, 3, slow)
  BY SettingIs, Zenon
<1>2. PICK slow \in Int :
         \/ GenerateIntervalSetting(interval_ms) = NoPlan(fast)
         \/ GenerateIntervalSetting(interval_ms) = OnePlan(fast, 3, slow)
  BY <1>1, Zenon
<1>3. IntervalAttr(NoPlan(fast)) = IntAttr(ATTR.SCHED_SCAN_INTERVAL, fast, 4)
  <2>1. PICK s : s = NoPlan(fast)
    OBVIOUS
  <2>2. s.plans = <<>> /\ s.final_interval_ms = fast
    BY <2>1 DEF NoPlan
  <2> QED
    BY <2>1, <2>2, Zenon DEF IntervalAttr
<1>4. IsTiming(IntervalAttr(NoPlan(fast)))
  <2>1. PICK a \in Attr : /\ a = IntAttr(ATTR.SCHED_SCAN_INTERVAL, fast, 4)
                          /\ GetAttributeId(a) = ATTR.SCHED_SCAN_INTERVAL
    BY IdsAreSmall, FourByteAttribute, Zenon
  <2> QED
    BY <1>3, <2>1, Zenon DEF IsTiming
<1>5. IsTiming(IntervalAttr(OnePlan(fast, 3, slow)))
  <2>1. 3 \in Int
    OBVIOUS
  <2>2. \E attrs : IsNest(IntervalAttr(OnePlan(fast, 3, slow)), ATTR.SCHED_SCAN_PLANS, attrs)
    BY <2>1, PlansAreListed, Zenon
  <2> QED
    BY <2>2, Zenon DEF IsNest, IsTiming
<1> QED
  BY <1>2, <1>4, <1>5, Zenon

LEMMA SchedFlagsAre ==
    ASSUME NEW random, NEW low
    PROVE  SchedFlags(random, low) \in Int
<1>1. SCAN_FLAG.RANDOM_ADDR = 8 /\ SCAN_FLAG.LOW_POWER = 512
  <2>1. 2^3 = 8 /\ 2^9 = 512
    OBVIOUS
  <2> QED
    BY <2>1 DEF SCAN_FLAG
<1>2. PICK x \in Int : x = FlagIf(random, SCAN_FLAG.RANDOM_ADDR)
  BY <1>1 DEF FlagIf
<1>3. PICK y \in Int : y = FlagIf(low, SCAN_FLAG.LOW_POWER)
  BY <1>1 DEF FlagIf
<1> QED
  BY <1>2, <1>3 DEF SchedFlags

LEMMA SettingsAre ==
    ASSUME NEW s \in PnoSettings
    PROVE  /\ s.interval_ms \in Int /\ s.min_2g_rssi \in Int /\ s.min_5g_rssi \in Int
           /\ s.pno_networks \in Seq(PnoNetwork)
BY DEF PnoSettings, PnoNetwork

LEMMA LimitsAre ==
    ASSUME device \in Devices
    PROVE  /\ \E S \in Nat : S = scan_capabilities.max_num_sched_scan_ssids /\ S <= 255
           /\ \E M \in Nat : M = scan_capabilities.max_match_sets /\ M <= 255
<1>1. PICK S \in 0..255 : S = scan_capabilities.max_num_sched_scan_ssids
  BY DeviceIs, Zenon
<1>2. PICK M \in 0..255 : M = scan_capabilities.max_match_sets
  BY DeviceIs, Zenon
<1>3. S \in Nat /\ S <= 255 /\ M \in Nat /\ M <= 255
  OBVIOUS
<1> QED
  BY <1>1, <1>2, <1>3, Zenon

\* The lists that are made of the networks of a PNO scan.
IsChoice(l, networks) ==
    /\ l \in Lists
    /\ Chosen(l.scan_ssids, l.match_ssids, networks, Len(networks),
              scan_capabilities.max_num_sched_scan_ssids, scan_capabilities.max_match_sets)
    /\ l.match_ssids \in MatchList
    /\ l.scan_ssids \in SsidList

LEMMA ListsAreChosen ==
    ASSUME device \in Devices, NEW networks \in Seq(PnoNetwork),
           NEW first \in Seq(Ssid), Len(first) <= 1
    PROVE  IsChoice(ParsePnoSettings(networks, first), networks)
<1>1. PICK S \in Nat : S = scan_capabilities.max_num_sched_scan_ssids /\ S <= 255
  BY LimitsAre, Zenon
<1>2. PICK M \in Nat : M = scan_capabilities.max_match_sets /\ M <= 255
  BY LimitsAre, Zenon
<1>3. PICK n \in Nat : n = Len(networks)
  OBVIOUS
<1>4. PICK l \in Lists : /\ l = ParsePnoSettings(networks, first)
                         /\ Chosen(l.scan_ssids, l.match_ssids, networks, n, S, M)
  BY <1>1, <1>2, <1>3, NetworksAreChosen
<1>5. PICK match \in Seq(Ssid) : match = l.match_ssids
  BY DEF Lists
<1>6. PICK probed \in Seq(Ssid) : probed = l.scan_ssids
  BY DEF Lists
<1>7. /\ Len(probed) <= 1 \/ Len(probed) <= S
      /\ Len(match) <= M
  BY <1>4, <1>5, <1>6, Zenon DEF Chosen
<1>8. match \in MatchList
  <2>1. Len(match) \in Nat
    OBVIOUS
  <2>2. Len(match) <= 255
    BY <1>2, <1>7, <2>1
  <2> QED
    BY <2>2 DEF MatchList
<1>9. probed \in SsidList
  <2>1. Len(probed) \in Nat
    OBVIOUS
  <2>2. Len(probed) <= 256
    BY <1>1, <1>7, <2>1
  <2> QED
    BY <2>2 DEF SsidList
<1> QED
  BY <1>1, <1>2, <1>3, <1>4, <1>5, <1>6, <1>8, <1>9, Zenon DEF IsChoice

(* The packet of a PNO scan holds the chosen networks and the intervals.    *)
LEMMA PnoRequestHolds ==
    ASSUME device \in Devices, NEW s \in PnoSettings
    PROVE  \E l : /\ IsChoice(l, s.pno_networks)
                  /\ IsScheduledScan(PnoScanRequest(s), l.match_ssids, s.min_5g_rssi,
                        l.scan_ssids, IntervalAttr(GenerateIntervalSetting(s.interval_ms)))
<1>1. PICK first \in Seq(Ssid) : first = <<<<>>>> /\ Len(first) <= 1
  <2>1. <<>> \in Ssid
    BY DEF Ssid
  <2>2. <<<<>>>> \in Seq(Ssid) /\ Len(<<<<>>>>) <= 1
    BY <2>1
  <2> QED
    BY <2>2, Zenon
<1>2. PICK networks \in Seq(PnoNetwork) : networks = s.pno_networks
  BY SettingsAre, Zenon
<1>3. PICK l : l = ParsePnoSettings(networks, first)
  OBVIOUS
<1>4. IsChoice(l, networks)
  BY <1>1, <1>3, ListsAreChosen
<1>5. PICK match \in MatchList : match = l.match_ssids
  BY <1>4, Zenon DEF IsChoice
<1>6. PICK probed \in SsidList : probed = l.scan_ssids
  BY <1>4, Zenon DEF IsChoice
<1>7. PICK setting : setting = GenerateIntervalSetting(s.interval_ms)
  OBVIOUS
<1>8. IsTiming(IntervalAttr(setting))
  BY <1>7, SettingsAre, SettingIsTiming, Zenon
<1>9. PICK random :
         random = (wiphy_features.supports_random_mac_sched_scan /\ ~associated)
  OBVIOUS
<1>10. PICK low : low = wiphy_features.supports_low_power_oneshot_scan
  OBVIOUS
<1>11. PICK g2 \in Int : g2 = s.min_2g_rssi
  BY SettingsAre, Zenon
<1>12. PICK g5 \in Int : g5 = s.min_5g_rssi
  BY SettingsAre, Zenon
<1>13. PICK rssi : rssi = [g2 |-> g2, g5 |-> g5]
  OBVIOUS
<1>14. PnoScanRequest(s) =
         StartScheduledScanRequest(InterfaceIndex, setting, rssi, random, low, l, <<>>)
  BY <1>1, <1>2, <1>3, <1>7, <1>9, <1>10, <1>11, <1>12, <1>13, Zenon DEF PnoScanRequest
<1>15. IsScheduledScan(
          StartScheduledScanRequest(InterfaceIndex, setting, rssi, random, low, l, <<>>),
          match, g5, probed, IntervalAttr(setting))
  <2>1. InterfaceIndex \in Nat
    BY InterfaceAssumption
  <2>2. SchedFlags(random, low) \in Int
    BY SchedFlagsAre
  <2> QED
    BY <1>5, <1>6, <1>8, <1>13, <2>1, <2>2, ScheduledRequestHolds
<1> QED
  BY <1>2, <1>4, <1>5, <1>6, <1>7, <1>12, <1>14, <1>15, Zenon

(* The kernel matches and probes for the right networks.                    *)
LEMMA PnoNetworksAreRight ==
    ASSUME device \in Devices, NEW s \in PnoSettings
    PROVE  /\ AreRight(scan_capabilities, s.pno_networks, MatchedSsids(PnoScanRequest(s)),
                       ProbedSsids(PnoScanRequest(s)))
           /\ IsChoice([match_ssids |-> MatchedSsids(PnoScanRequest(s)),
                        scan_ssids |-> ProbedSsids(PnoScanRequest(s))], s.pno_networks)
           /\ Len(MatchSets(PnoScanRequest(s))) = Len(MatchedSsids(PnoScanRequest(s)))
<1>1. PICK l : /\ IsChoice(l, s.pno_networks)
               /\ IsScheduledScan(PnoScanRequest(s), l.match_ssids, s.min_5g_rssi,
                        l.scan_ssids, IntervalAttr(GenerateIntervalSetting(s.interval_ms)))
  BY PnoRequestHolds, Zenon
<1>2. PICK networks \in Seq(PnoNetwork) : networks = s.pno_networks
  BY SettingsAre, Zenon
<1>3. PICK match \in Seq(Ssid) : match = l.match_ssids
  BY <1>1 DEF IsChoice, Lists
<1>4. PICK probed \in Seq(Ssid) : probed = l.scan_ssids
  BY <1>1 DEF IsChoice, Lists
<1>5. match \in MatchList /\ probed \in SsidList
  BY <1>1, <1>3, <1>4, Zenon DEF IsChoice
<1>6. PICK p : p = PnoScanRequest(s)
  OBVIOUS
<1>7. PICK g5 \in Int : g5 = s.min_5g_rssi
  BY SettingsAre, Zenon
<1>8. /\ Find(p, ATTR.SCHED_SCAN_MATCH) = <<MatchAttr(match, g5)>>
      /\ Find(p, ATTR.SCAN_SSIDS) = <<SsidsAttr(ATTR.SCAN_SSIDS, probed)>>
  BY <1>1, <1>3, <1>4, <1>6, <1>7, Zenon DEF IsScheduledScan
<1>9. MatchedSsids(p) = match /\ Len(MatchSets(p)) = Len(match)
  BY <1>5, <1>8, MatchesAreRead
<1>10. ProbedSsids(p) = probed
  BY <1>5, <1>8, SsidsAreRead
<1>11. PICK n \in Nat : n = Len(networks)
  OBVIOUS
<1>12. PICK S : S = scan_capabilities.max_num_sched_scan_ssids
  OBVIOUS
<1>13. PICK M : M = scan_capabilities.max_match_sets
  OBVIOUS
<1>14. Chosen(probed, match, networks, n, S, M)
  BY <1>1, <1>2, <1>3, <1>4, <1>11, <1>12, <1>13, Zenon DEF IsChoice
<1>15. AreRight(scan_capabilities, networks, match, probed)
  BY <1>11, <1>12, <1>13, <1>14, ChosenAreRight
<1>16. PICK r : r = [match_ssids |-> match, scan_ssids |-> probed]
  OBVIOUS
<1>17. r \in Lists /\ r.match_ssids = match /\ r.scan_ssids = probed
  BY <1>16 DEF Lists
<1>18. IsChoice(r, networks)
  BY <1>5, <1>11, <1>12, <1>13, <1>14, <1>17, Zenon DEF IsChoice
<1> QED
  BY <1>2, <1>6, <1>9, <1>10, <1>15, <1>16, <1>18, Zenon

(* So does the HAL.                                                         *)
LEMMA HalNetworksAreRight ==
    ASSUME device \in Devices, NEW s \in PnoSettings, NEW h, h = HalRequest(s),
           NEW list, list = h.filter.preferredNetworkInfoList
    PROVE  AreRight(scan_capabilities, s.pno_networks, [i \in DOMAIN list |-> list[i].ssid],
                    h.param.ssidList)
<1>1. PICK first \in Seq(Ssid) : first = <<>> /\ Len(first) <= 1
  <2>1. <<>> \in Seq(Ssid) /\ Len(<<>>) <= 1
    OBVIOUS
  <2> QED
    BY <2>1, Zenon
<1>2. PICK networks \in Seq(PnoNetwork) : networks = s.pno_networks
  BY SettingsAre, Zenon
<1>3. PICK l : l = ParsePnoSettings(networks, first)
  OBVIOUS
<1>4. IsChoice(l, networks)
  BY <1>1, <1>3, ListsAreChosen
<1>5. PICK match \in Seq(Ssid) : match = l.match_ssids
  BY <1>4 DEF IsChoice, Lists
<1>6. PICK probed \in Seq(Ssid) : probed = l.scan_ssids
  BY <1>4 DEF IsChoice, Lists
<1>7. PICK n \in Nat : n = Len(match)
  OBVIOUS
<1>8. PICK security : security = [i \in DOMAIN match |-> 0]
  OBVIOUS
<1>9. Len(security) = n /\ DOMAIN match = 1..n
  BY <1>7, <1>8
<1>10. Min({n, n}) = n
  <2>1. n \in Int /\ n <= n
    OBVIOUS
  <2> QED
    BY <2>1, MinOfTwo
<1>11. PICK param : param = createScanParam(probed, <<>>, s.interval_ms % Word)
  OBVIOUS
<1>12. PICK filter : filter = createScanFilter(match, security, s.min_5g_rssi)
  OBVIOUS
<1>13. h = [param |-> param, filter |-> filter]
  BY <1>1, <1>2, <1>3, <1>5, <1>6, <1>8, <1>11, <1>12, Zenon DEF HalRequest
<1>14. h.param = param /\ h.filter = filter
  BY <1>13
<1>15. param.ssidList = probed
  BY <1>11 DEF createScanParam
<1>16. PICK infos : infos = [i \in 1..n |-> [ssid |-> match[i], flags |-> security[i]]]
  OBVIOUS
<1>17. filter.preferredNetworkInfoList = infos
  <2>1. PICK threshold : threshold = Signed(IntBytes(s.min_5g_rssi, 1))
    OBVIOUS
  <2>2. filter = [rssiThreshold |-> threshold, preferredNetworkInfoList |-> infos]
    BY <1>7, <1>9, <1>10, <1>12, <1>16, <2>1, Zenon DEF createScanFilter
  <2> QED
    BY <2>2
<1>18. list = infos
  BY <1>14, <1>17, Zenon
<1>19. DOMAIN infos = 1..n /\ \A i \in 1..n : infos[i].ssid = match[i]
  BY <1>16
<1>20. [i \in DOMAIN list |-> list[i].ssid] = match
  <2>1. match = [i \in 1..n |-> match[i]]
    BY <1>7
  <2>2. [i \in DOMAIN infos |-> infos[i].ssid] = [i \in 1..n |-> match[i]]
    BY <1>19
  <2> QED
    BY <1>18, <2>1, <2>2, Zenon
<1>21. PICK m \in Nat : m = Len(networks)
  OBVIOUS
<1>22. PICK S : S = scan_capabilities.max_num_sched_scan_ssids
  OBVIOUS
<1>23. PICK M : M = scan_capabilities.max_match_sets
  OBVIOUS
<1>24. Chosen(probed, match, networks, m, S, M)
  BY <1>4, <1>5, <1>6, <1>21, <1>22, <1>23, Zenon DEF IsChoice
<1>25. AreRight(scan_capabilities, networks, match, probed)
  BY <1>21, <1>22, <1>23, <1>24, ChosenAreRight
<1> QED
  BY <1>2, <1>14, <1>15, <1>20, <1>25, Zenon

LEMMA SmallerFits ==
    ASSUME NEW x \in Nat, NEW y \in Uint32, x <= y
    PROVE  Fits32(x)
<1>1. y \in Nat /\ y \div 65536 \in Uint16
  BY DEF Uint32
<1>2. PICK q \in Nat : q = y \div 65536 /\ q < 65536
  BY <1>1, SMTT(30) DEF Uint16
<1>3. PICK r \in Nat : r = x \div 65536
  OBVIOUS
<1>4. r <= q
  BY <1>1, <1>2, <1>3
<1> QED
  BY <1>2, <1>3, <1>4 DEF Fits32, Size16

LEMMA LongestIs ==
    ASSUME device \in Devices
    PROVE  scan_capabilities.max_scan_plan_interval \in Uint32
<1>1. device \in [caps : Capabilities, features : ScanFeatures, offload : BOOLEAN]
  BY DevicesAssumption
<1>2. PICK c \in Capabilities : c = scan_capabilities
  BY <1>1 DEF scan_capabilities
<1>3. c.max_scan_plan_interval \in Uint32
  BY DEF Capabilities
<1> QED
  BY <1>2, <1>3, Zenon

LEMMA PlansAreAccepted ==
    ASSUME NEW plans, Len(plans) = 2, DOMAIN plans = 1..2,
           NEW u \in Nat, NEW v \in Nat, NEW times \in Nat,
           plans[1].interval = <<u>>, plans[1].iterations = <<times>>,
           plans[2].interval = <<v>>, plans[2].iterations = <<>>,
           2 <= scan_capabilities.max_num_scan_plans,
           u \in 1 .. scan_capabilities.max_scan_plan_interval,
           v \in 1 .. scan_capabilities.max_scan_plan_interval,
           times \in 1 .. scan_capabilities.max_scan_plan_iterations
    PROVE  AcceptsPlans(plans) /\ plans # <<>>
<1>1. \A i \in 1..2 : i = 1 \/ i = 2
  OBVIOUS
<1>2. /\ <<u>> # <<>> /\ <<u>>[1] = u /\ <<v>> # <<>> /\ <<v>>[1] = v
      /\ <<times>> # <<>> /\ <<times>>[1] = times
  OBVIOUS
<1>3. 1 # 2 /\ Len(<<>>) # 2
  OBVIOUS
<1> QED
  BY <1>1, <1>2, <1>3, Zenon DEF AcceptsPlans

(* The kernel has no reason to refuse the scan.                             *)
LEMMA PnoIsAccepted ==
    ASSUME device \in Devices, NEW s \in PnoSettings, NEW p, p = PnoScanRequest(s),
           s.interval_ms >= kMsecPerSec, s.interval_ms * kSlowScanIntervalMultiplier < Word,
           scan_capabilities.max_num_sched_scan_ssids > 0
    PROVE  AcceptsScheduledScan(p)
<1>1. PICK l : /\ IsChoice(l, s.pno_networks)
               /\ IsScheduledScan(p, l.match_ssids, s.min_5g_rssi,
                        l.scan_ssids, IntervalAttr(GenerateIntervalSetting(s.interval_ms)))
  BY PnoRequestHolds, Zenon
<1>2. PICK setting : setting = GenerateIntervalSetting(s.interval_ms)
  OBVIOUS
<1>3. PICK timing : timing = IntervalAttr(setting)
  OBVIOUS
<1>4. \A id \in {ATTR.SCHED_SCAN_INTERVAL, ATTR.SCHED_SCAN_PLANS} :
         Find(p, id) = IF GetAttributeId(timing) = id THEN <<timing>> ELSE <<>>
  BY <1>1, <1>2, <1>3, Zenon DEF IsScheduledScan
<1>5. PICK interval \in Nat : /\ interval = s.interval_ms /\ interval >= kMsecPerSec
                              /\ interval * kSlowScanIntervalMultiplier < Word
  <2>1. s.interval_ms \in Int
    BY SettingsAre, Zenon
  <2>2. s.interval_ms \in Nat
    BY <2>1, SecondAssumption
  <2> QED
    BY <2>2, Zenon
<1>6. /\ Len(ProbedSsids(p)) <= scan_capabilities.max_num_sched_scan_ssids
      /\ Len(MatchSets(p)) <= scan_capabilities.max_match_sets
  <2>1. PICK r : /\ r = [match_ssids |-> MatchedSsids(p), scan_ssids |-> ProbedSsids(p)]
                 /\ IsChoice(r, s.pno_networks)
    BY PnoNetworksAreRight, Zenon
  <2>2. r.match_ssids = MatchedSsids(p) /\ r.scan_ssids = ProbedSsids(p)
    BY <2>1
  <2>3. Len(MatchSets(p)) = Len(MatchedSsids(p))
    BY PnoNetworksAreRight, Zenon
  <2> QED
    BY <2>1, <2>2, <2>3, Zenon DEF IsChoice, Chosen
<1>7. PICK fast \in Int : \E slow \in Int : setting = NoPlan(fast) \/ setting = OnePlan(fast, 3, slow)
  BY <1>2, SettingsAre, SettingIs, Zenon
<1>8. PICK slow \in Int : setting = NoPlan(fast) \/ setting = OnePlan(fast, 3, slow)
  BY <1>7, Zenon
<1>9. \/ setting.plans = <<>> /\ setting.final_interval_ms = interval
      \/ /\ Len(setting.plans) = 1
         /\ Len(setting.plans) + 1 <= scan_capabilities.max_num_scan_plans
         /\ setting.plans[1].n_iterations \in 1 .. scan_capabilities.max_scan_plan_iterations
         /\ setting.plans[1].interval_ms \div kMsecPerSec \in
                    1 .. scan_capabilities.max_scan_plan_interval
         /\ setting.final_interval_ms \div kMsecPerSec \in
                    1 .. scan_capabilities.max_scan_plan_interval
  <2>1. /\ scan_capabilities.max_num_scan_plans \in Nat
        /\ scan_capabilities.max_scan_plan_interval \in Nat
        /\ scan_capabilities.max_scan_plan_iterations \in Nat
    BY DeviceIs, Zenon
  <2>2. setting = GenerateIntervalSetting(interval)
    BY <1>2, <1>5, Zenon
  <2> QED
    BY <1>5, <2>1, <2>2, PlansFitTheDevice
<1>10. IsTiming(timing)
  BY <1>2, <1>3, SettingsAre, SettingIsTiming, Zenon
<1>11. CASE setting = NoPlan(fast)
  <2>1. setting.plans = <<>> /\ setting.final_interval_ms = fast
    BY <1>11 DEF NoPlan
  <2>2. fast = interval
    <3>1. Len(<<>>) # 1
      OBVIOUS
    <3> QED
      BY <1>9, <2>1, <3>1, Zenon
  <2>3. timing = IntAttr(ATTR.SCHED_SCAN_INTERVAL, interval, 4)
    BY <1>3, <2>1, <2>2, Zenon DEF IntervalAttr
  <2>4. GetAttributeId(timing) = ATTR.SCHED_SCAN_INTERVAL
    <3>1. interval \in Int
      OBVIOUS
    <3>2. PICK a \in Attr : /\ a = IntAttr(ATTR.SCHED_SCAN_INTERVAL, interval, 4)
                            /\ GetAttributeId(a) = ATTR.SCHED_SCAN_INTERVAL
      BY <3>1, IdsAreSmall, FourByteAttribute, Zenon
    <3> QED
      BY <2>3, <3>2, Zenon
  <2>5. Find(p, ATTR.SCHED_SCAN_INTERVAL) = <<timing>>
    BY <1>4, <2>4, Zenon
  <2>6. Fits32(interval)
    <3>1. PICK top \in Uint32 : top = Word - 1
      BY WordAssumption
    <3>2. Word \in Nat
      BY WordAssumption
    <3>3. interval <= top
      BY <1>5, <3>1, <3>2 DEF kSlowScanIntervalMultiplier
    <3> QED
      BY <3>3, SmallerFits
  <2>7. GetInt(p.body, ATTR.SCHED_SCAN_INTERVAL, 4) = <<interval>>
    BY <2>3, <2>5, <2>6, IdsAreSmall, IntIsFound DEF Find
  <2>8. interval > 0
    BY <1>5, SecondAssumption
  <2>9. interval \in ToSet(<<interval>>)
    BY DEF ToSet
  <2> QED
    BY <1>6, <2>7, <2>8, <2>9, Zenon DEF AcceptsScheduledScan
<1>12. CASE setting = OnePlan(fast, 3, slow)
  <2>1. PICK plan : plan = [interval_ms |-> fast, n_iterations |-> 3]
    OBVIOUS
  <2>2. plan.interval_ms = fast /\ plan.n_iterations = 3
    BY <2>1
  <2>3. setting.plans = <<plan>> /\ setting.final_interval_ms = slow
    BY <1>12, <2>1 DEF OnePlan
  <2>4. Len(<<plan>>) = 1 /\ <<plan>>[1] = plan /\ <<plan>> # <<>> /\ 1 + 1 = 2
    OBVIOUS
  <2>5. /\ 2 <= scan_capabilities.max_num_scan_plans
        /\ 3 \in 1 .. scan_capabilities.max_scan_plan_iterations
        /\ fast \div kMsecPerSec \in 1 .. scan_capabilities.max_scan_plan_interval
        /\ slow \div kMsecPerSec \in 1 .. scan_capabilities.max_scan_plan_interval
    BY <1>9, <2>2, <2>3, <2>4, Zenon
  <2>6. PICK longest \in Uint32 : longest = scan_capabilities.max_scan_plan_interval
    BY LongestIs, Zenon
  <2>7. longest \in Nat
    BY Uint32Fits
  <2>8. PICK u \in Nat : /\ u = fast \div kMsecPerSec /\ u <= longest
                         /\ u \in 1 .. scan_capabilities.max_scan_plan_interval
    BY <2>5, <2>6, <2>7
  <2>9. PICK v \in Nat : /\ v = slow \div kMsecPerSec /\ v <= longest
                         /\ v \in 1 .. scan_capabilities.max_scan_plan_interval
    BY <2>5, <2>6, <2>7
  <2>10. Fits32(u) /\ Fits32(v)
    BY <2>8, <2>9, SmallerFits
  <2>11. PICK times \in Nat : times = 3 /\ Fits32(times)
    BY DEF Fits32, Size16
  <2>12. timing = IntervalAttr(OnePlan(fast, times, slow))
    BY <1>3, <1>12, <2>11, Zenon
  <2>13. GetAttributeId(timing) = ATTR.SCHED_SCAN_PLANS
    <3>1. times \in Int
      OBVIOUS
    <3>2. \E attrs : IsNest(IntervalAttr(OnePlan(fast, times, slow)), ATTR.SCHED_SCAN_PLANS, attrs)
      BY <3>1, PlansAreListed, Zenon
    <3> QED
      BY <2>12, <3>2, Zenon DEF IsNest
  <2>14. Find(p, ATTR.SCHED_SCAN_PLANS) = <<IntervalAttr(OnePlan(fast, times, slow))>>
    BY <1>4, <2>12, <2>13, Zenon
  <2>15. PICK plans :
            /\ plans = ScanPlans(p)
            /\ Len(plans) = 2 /\ DOMAIN plans = 1..2
            /\ plans[1].interval = <<u>> /\ plans[1].iterations = <<times>>
            /\ plans[2].interval = <<v>> /\ plans[2].iterations = <<>>
    BY <2>8, <2>9, <2>10, <2>11, <2>14, PlansAreRead
  <2>16. times \in 1 .. scan_capabilities.max_scan_plan_iterations
    BY <2>5, <2>11, Zenon
  <2>17. AcceptsPlans(plans) /\ plans # <<>>
    BY <2>5, <2>8, <2>9, <2>15, <2>16, PlansAreAccepted
  <2> QED
    BY <1>6, <2>15, <2>17, Zenon DEF AcceptsScheduledScan
<1> QED
  BY <1>8, <1>11, <1>12

-----------------------------------------------------------------------------
(* The settings that are kept are settings, and there are some while a scan *)
(* runs over the HAL, so that the fall back has something to start with.    *)
SettingsInv ==
    /\ device \in Devices
    /\ pno_settings \in Seq(PnoSettings)
    /\ pno_scan_running_over_offload \in BOOLEAN
    /\ pno_scan_running_over_offload => pno_settings # <<>>

\* What a step asks of the kernel and the HAL, if it starts a scheduled scan.
Starts(s) ==
    /\ pno_settings' # <<>> /\ pno_settings'[1] = s
    /\ ToSet(kernel') \subseteq {PnoScanRequest(s)}
    /\ ToSet(hal') \subseteq {HalRequest(s)}

LEMMA ListOfNone == ToSet(<<>>) = {}
BY DEF ToSet

LEMMA ListOfOne == \A a : ToSet(<<a>>) = {a}
BY DEF ToSet

LEMMA SettingsAtFirst ==
    ASSUME Init
    PROVE  SettingsInv
<1>1. <<>> \in Seq(PnoSettings)
  OBVIOUS
<1>2. pno_settings = <<>> /\ pno_scan_running_over_offload = FALSE /\ device \in Devices
  BY Zenon DEF Init
<1> QED
  BY <1>1, <1>2, Zenon DEF SettingsInv

LEMMA StartingStep ==
    ASSUME SettingsInv, NEW parcel \in PnoParcels, NEW ok \in BOOLEAN, startPnoScan(parcel, ok)
    PROVE  SettingsInv' /\ \E s \in PnoSettings : Starts(s)
<1>1. PICK settings \in Seq(PnoSettings) : settings = ReadPnoSettings(parcel)
  BY PnoParcelsAssumption, Zenon
<1>2. settings # <<>> /\ pno_settings' = settings
  BY <1>1, Zenon DEF startPnoScan
<1>3. PICK s \in PnoSettings : s = settings[1]
  BY <1>2
<1>4. device' = device
  BY DEF startPnoScan
<1>5. offload_scan_supported \in BOOLEAN
  BY DeviceIs DEF SettingsInv
<1>6. pno_scan_running_over_offload' \in BOOLEAN
  BY <1>5 DEF startPnoScan, SettingsInv
<1>7. kernel' = IF ok THEN <<>> ELSE <<PnoScanRequest(s)>>
  BY <1>1, <1>3, Zenon DEF startPnoScan, Does
<1>8. hal' = IF offload_scan_supported THEN <<HalRequest(s)>> ELSE <<>>
  BY <1>1, <1>3, Zenon DEF startPnoScan, Does
<1>9. ToSet(kernel') \subseteq {PnoScanRequest(s)} /\ ToSet(hal') \subseteq {HalRequest(s)}
  BY <1>7, <1>8, ListOfNone, ListOfOne, Zenon
<1>10. Starts(s)
  BY <1>2, <1>3, <1>9, Zenon DEF Starts
<1> QED
  BY <1>2, <1>4, <1>6, <1>10, Zenon DEF SettingsInv

LEMMA FallbackStep ==
    ASSUME SettingsInv, OnOffloadError
    PROVE  SettingsInv' /\ \E s \in PnoSettings : Starts(s)
<1>1. PICK settings \in Seq(PnoSettings) : settings = pno_settings /\ settings # <<>>
  BY Zenon DEF SettingsInv, OnOffloadError
<1>2. PICK s \in PnoSettings : s = settings[1]
  BY <1>1
<1>3. /\ device' = device /\ pno_settings' = settings
      /\ pno_scan_running_over_offload' = FALSE
      /\ kernel' = <<PnoScanRequest(s)>> /\ hal' = <<>>
  BY <1>1, <1>2, Zenon DEF OnOffloadError, Does
<1>4. ToSet(kernel') \subseteq {PnoScanRequest(s)} /\ ToSet(hal') \subseteq {HalRequest(s)}
  BY <1>3, ListOfNone, ListOfOne, Zenon
<1>5. Starts(s)
  BY <1>1, <1>2, <1>3, <1>4, Zenon DEF Starts
<1> QED
  BY <1>1, <1>3, <1>5, Zenon DEF SettingsInv

(* Every step keeps the settings, and starts a scan or none.                *)
LEMMA SettingsStep ==
    ASSUME SettingsInv, Next
    PROVE  /\ SettingsInv' /\ device' = device
           /\ \/ ~Of({"pno", "fallback"})' /\ hal' = <<>>
              \/ \E s \in PnoSettings : Starts(s)
<1> USE DEF Of, Event, Does
<1>1. CASE \E p \in SingleParcels : scan(p)
  BY <1>1 DEF scan, pnoVars, SettingsInv
<1>2. CASE getPnoScanResults
  BY <1>2 DEF getPnoScanResults, pnoVars, SettingsInv
<1>3. CASE \E p \in PnoParcels, ok \in BOOLEAN : startPnoScan(p, ok)
  <2>1. PICK parcel \in PnoParcels, ok \in BOOLEAN : startPnoScan(parcel, ok)
    BY <1>3
  <2>2. SettingsInv' /\ \E s \in PnoSettings : Starts(s)
    BY <2>1, StartingStep
  <2>3. device' = device
    BY <2>1 DEF startPnoScan
  <2> QED
    BY <2>2, <2>3, Zenon
<1>4. CASE \E p \in PnoParcels : startPnoScanRefused(p)
  BY <1>4 DEF startPnoScanRefused, pnoVars, SettingsInv
<1>5. CASE stopPnoScan
  BY <1>5 DEF stopPnoScan, SettingsInv
<1>6. CASE OnOffloadError
  <2>1. SettingsInv' /\ \E s \in PnoSettings : Starts(s)
    BY <1>6, FallbackStep
  <2>2. device' = device
    BY <1>6 DEF OnOffloadError
  <2> QED
    BY <2>1, <2>2, Zenon
<1>7. CASE \E r \in HalReports : ReportScanResults(r)
  BY <1>7 DEF ReportScanResults, SettingsInv
<1>8. CASE OnSchedScanResultsReady
  BY <1>8 DEF OnSchedScanResultsReady, SettingsInv
<1>9. CASE \E started \in BOOLEAN : abortScan(started)
  BY <1>9 DEF abortScan, pnoVars, SettingsInv
<1>10. CASE \E s \in HalStats : getScanStats(s)
  BY <1>10 DEF getScanStats, pnoVars, SettingsInv
<1>11. CASE \E on \in BOOLEAN : SubscribePno(on)
  BY <1>11 DEF SubscribePno, SettingsInv
<1>12. CASE MlmeEvent
  BY <1>12 DEF MlmeEvent, pnoVars, SettingsInv
<1> QED
  BY <1>1, <1>2, <1>3, <1>4, <1>5, <1>6, <1>7, <1>8, <1>9, <1>10, <1>11, <1>12, Zenon
     DEF Next

(* Every network that a scheduled scan or the HAL matches can be found, by  *)
(* its beacon or a probe for it, and none is left out there was room for.   *)
THEOREM NetworksOfScansAreRight == Spec => []NetworksAreRight
<1>1. Init => SettingsInv /\ NetworksAreRight
  <2> SUFFICES ASSUME Init PROVE SettingsInv /\ NetworksAreRight
    OBVIOUS
  <2>1. SettingsInv
    BY SettingsAtFirst
  <2>2. PnoPackets = {}
    BY DEF Init, PnoPackets, Of
  <2>3. ToSet(hal) = {}
    BY ListOfNone DEF Init
  <2> QED
    BY <2>1, <2>2, <2>3, Zenon DEF NetworksAreRight
<1>2. SettingsInv /\ NetworksAreRight /\ [Next]_vars => SettingsInv' /\ NetworksAreRight'
  <2>1. ASSUME SettingsInv, Next PROVE SettingsInv' /\ NetworksAreRight'
    <3>1. SettingsInv' /\ device' = device
      BY <2>1, SettingsStep
    <3>2. scan_capabilities' = scan_capabilities /\ device \in Devices
      BY <2>1, <3>1 DEF scan_capabilities, SettingsInv
    <3>3. ASSUME ~Of({"pno", "fallback"})', hal' = <<>> PROVE NetworksAreRight'
      <4>1. PnoPackets' = {} /\ ToSet(hal') = {}
        BY <3>3, ListOfNone, Zenon DEF PnoPackets
      <4> QED
        BY <4>1, Zenon DEF NetworksAreRight
    <3>4. ASSUME NEW s \in PnoSettings, Starts(s) PROVE NetworksAreRight'
      <4>1. \A packet \in PnoPackets' : packet = PnoScanRequest(s)
        BY <3>4, Zenon DEF PnoPackets, Starts
      <4>2. \A h \in ToSet(hal') : h = HalRequest(s)
        BY <3>4, Zenon DEF Starts
      <4>3. PICK p : p = PnoScanRequest(s)
        OBVIOUS
      <4>4. AreRight(scan_capabilities, s.pno_networks, MatchedSsids(p), ProbedSsids(p))
        BY <3>2, <4>3, PnoNetworksAreRight, Zenon
      <4>5. ASSUME NEW h, h = HalRequest(s),
                   NEW list, list = h.filter.preferredNetworkInfoList
            PROVE  AreRight(scan_capabilities, s.pno_networks,
                            [i \in DOMAIN list |-> list[i].ssid], h.param.ssidList)
        BY <3>2, <4>5, HalNetworksAreRight, Zenon
      <4>6. pno_settings'[1] = s
        BY <3>4, Zenon DEF Starts
      <4> QED
        BY <3>2, <4>1, <4>2, <4>3, <4>4, <4>5, <4>6, Zenon DEF NetworksAreRight
    <3> QED
      BY <2>1, <3>1, <3>3, <3>4, SettingsStep, Zenon
  <2>2. ASSUME SettingsInv, NetworksAreRight, UNCHANGED vars
        PROVE  SettingsInv' /\ NetworksAreRight'
    <3>1. /\ device' = device /\ pno_settings' = pno_settings
          /\ pno_scan_running_over_offload' = pno_scan_running_over_offload
          /\ call' = call /\ kernel' = kernel /\ hal' = hal
      BY <2>2 DEF vars, ioVars, pnoVars
    <3>2. SettingsInv'
      BY <2>2, <3>1, Zenon DEF SettingsInv
    <3>3. scan_capabilities' = scan_capabilities /\ PnoPackets' = PnoPackets
      BY <3>1, Zenon DEF scan_capabilities, PnoPackets, Of
    <3>4. NetworksAreRight'
      BY <2>2, <3>1, <3>3, Zenon DEF NetworksAreRight
    <3> QED
      BY <3>2, <3>4
  <2> QED
    BY <2>1, <2>2
<1> QED
  BY <1>1, <1>2, PTL DEF Spec

(* The kernel has no reason to refuse a scheduled scan: its SSIDs, match    *)
(* sets and scan plans are within what the driver announced.                *)
THEOREM PnoScansAreAcceptable == Spec => []PnoScanIsAcceptable
<1>1. Init => SettingsInv /\ PnoScanIsAcceptable
  <2> SUFFICES ASSUME Init PROVE SettingsInv /\ PnoScanIsAcceptable
    OBVIOUS
  <2>1. SettingsInv
    BY SettingsAtFirst
  <2>2. PnoPackets = {}
    BY DEF Init, PnoPackets, Of
  <2> QED
    BY <2>1, <2>2, Zenon DEF PnoScanIsAcceptable
<1>2. SettingsInv /\ PnoScanIsAcceptable /\ [Next]_vars => SettingsInv' /\ PnoScanIsAcceptable'
  <2>1. ASSUME SettingsInv, Next PROVE SettingsInv' /\ PnoScanIsAcceptable'
    <3>1. SettingsInv' /\ device' = device
      BY <2>1, SettingsStep
    <3>2. scan_capabilities' = scan_capabilities /\ device \in Devices
      BY <2>1, <3>1 DEF scan_capabilities, SettingsInv
    <3>3. ASSUME ~Of({"pno", "fallback"})' PROVE PnoScanIsAcceptable'
      <4>1. PnoPackets' = {}
        BY <3>3, Zenon DEF PnoPackets
      <4> QED
        BY <4>1, Zenon DEF PnoScanIsAcceptable
    <3>4. ASSUME NEW s \in PnoSettings, Starts(s) PROVE PnoScanIsAcceptable'
      <4>1. \A packet \in PnoPackets' : packet = PnoScanRequest(s)
        BY <3>4, Zenon DEF PnoPackets, Starts
      <4>2. pno_settings'[1] = s
        BY <3>4, Zenon DEF Starts
      <4>3. ASSUME NEW p, p = PnoScanRequest(s), s.interval_ms >= kMsecPerSec,
                   s.interval_ms * kSlowScanIntervalMultiplier < Word,
                   scan_capabilities.max_num_sched_scan_ssids > 0
            PROVE  AcceptsScheduledScan(p)'
        <5>1. AcceptsScheduledScan(p)
          BY <3>2, <4>3, PnoIsAccepted
        <5> QED
          BY <3>2, <5>1, Zenon DEF AcceptsScheduledScan, AcceptsPlans
      <4> QED
        BY <3>2, <4>1, <4>2, <4>3, Zenon DEF PnoScanIsAcceptable
    <3> QED
      BY <2>1, <3>1, <3>3, <3>4, SettingsStep, Zenon
  <2>2. ASSUME SettingsInv, PnoScanIsAcceptable, UNCHANGED vars
        PROVE  SettingsInv' /\ PnoScanIsAcceptable'
    BY <2>2 DEF vars, ioVars, pnoVars, SettingsInv, PnoScanIsAcceptable, PnoPackets, Of,
                AcceptsScheduledScan, AcceptsPlans, scan_capabilities
  <2> QED
    BY <2>1, <2>2
<1> QED
  BY <1>1, <1>2, PTL DEF Spec
=============================================================================
