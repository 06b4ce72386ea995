----------------------------- MODULE ScanTable -----------------------------
(***************************************************************************)
(* The table of scan results (wt_wifi.c:295-381): what one result does to  *)
(* it, and what it should hold after any results.                          *)
(***************************************************************************)
EXTENDS Integers, SequencesExt

CONSTANT MaxResults    \* WT_WIFI_SCAN_MAX_RESULTS

ASSUME MaxResultsAssumption == MaxResults \in Nat \ {0}

\* One comparison of the exchange sort, strongest first.
Exchange(s, i, j) ==
  IF s[j].rssi > s[i].rssi THEN [s EXCEPT ![i] = s[j], ![j] = s[i]] ELSE s

\* The inner loop: the strongest entry from slot i on comes to slot i.
Pass(s, i) ==
  LET upTo[j \in i .. Len(s)] ==
        IF j = i THEN s ELSE Exchange(upTo[j - 1], i, j)
  IN  upTo[Len(s)]

Sorted(s) ==
  LET after[i \in 0 .. Len(s)] == IF i = 0 THEN s ELSE Pass(after[i - 1], i)
  IN  after[Len(s)]

SlotsOf(s, ssid) == {i \in DOMAIN s : s[i].ssid = ssid}

RoomForOneMore(s) == Len(s) <= MaxResults   \* faulty: one slot too many
HasRoom(s) == Len(s) < MaxResults

\* A result for a network in the table replaces a weaker entry; a new network
\* takes a free slot, or the weakest one's if it is stronger.
Store(s, e) ==
  IF SlotsOf(s, e.ssid) # {}
    THEN LET i == CHOOSE i \in SlotsOf(s, e.ssid) : TRUE
         IN  IF e.rssi <= s[i].rssi THEN s ELSE Sorted([s EXCEPT ![i] = e])
    ELSE IF HasRoom(s) THEN Sorted(Append(s, e))
    ELSE LET t == Sorted(s)
         IN  IF e.rssi <= Last(t).rssi THEN t
             ELSE Sorted([t EXCEPT ![Len(t)] = e])

-----------------------------------------------------------------------------
(* The reference: a table of the strongest networks, each with its          *)
(* strongest result, strongest first.                                      *)

HoldsStrongest(s, heard) ==
  /\ \A i \in DOMAIN s : s[i] \in heard
  /\ \A i, j \in DOMAIN s : i < j => /\ s[i].ssid # s[j].ssid
                                     /\ s[i].rssi >= s[j].rssi
  /\ \A e \in heard :
       \/ \E i \in SlotsOf(s, e.ssid) : e.rssi <= s[i].rssi
       \/ /\ SlotsOf(s, e.ssid) = {} /\ Len(s) = MaxResults
          /\ e.rssi <= Last(s).rssi
=============================================================================
