------------------------------ MODULE GnmiProofs ------------------------------
(***************************************************************************)
(* Proofs about the operators of Gnmi, for every denylist, every request   *)
(* and every answer a server can give.                                     *)
(***************************************************************************)
EXTENDS Gnmi, TLAPS

(* What a reply shows for a path that is denied. *)
Mask == <<"<", "denied", ">">>

(* The rows of a result in which a sensitive path carries an error. *)
Masked(rows) == \A r \in rows : is_sensitive_path(r.xpath) => r.error = "denied"

(* Rows that are masked in the result are masked in the SMS (format_get    *)
(* shows the error in place of the value).                                 *)
LEMMA FormatMasks ==
  ASSUME NEW r, Masked(r.paths)
  PROVE  \A row \in format_get(r).rows : is_sensitive_path(row.xpath) => row.shown = Mask
  <1>1. CASE ~r.ok
    <2>1. format_get(r).rows = {}
      BY <1>1 DEF format_get, Err
    <2> QED BY <2>1
  <1>2. CASE r.ok
    <2> SUFFICES ASSUME NEW row \in format_get(r).rows, is_sensitive_path(row.xpath)
                 PROVE  row.shown = Mask
      OBVIOUS
    <2>1. PICK p \in r.paths :
            row = [xpath |-> p.xpath,
                   shown |-> IF p.error = "" THEN p.value ELSE <<"<", p.error, ">">>]
      BY <1>2 DEF format_get
    <2>2. p.error = "denied"
      <3>1. row.xpath = p.xpath
        BY <2>1
      <3> QED BY <3>1 DEF Masked
    <2>3. row.shown = <<"<", p.error, ">">>
      BY <2>1, <2>2
    <2> QED BY <2>2, <2>3 DEF Mask
  <1> QED BY <1>1, <1>2

(* The rows recorded before the RPC are masked (the pre-filter of          *)
(* LocalGnmiSink::get).                                                    *)
LEMMA ScreenedMasked == ASSUME NEW xpaths PROVE Masked(Screened(xpaths))
  BY DEF Masked, Screened, Denied, Row

(* LocalGnmiSink::get never shows a sensitive value, whatever was asked    *)
(* and whatever the server answered: not a leaf of its own choosing either.*)
THEOREM RemoteGetMasks ==
  ASSUME NEW xpaths, NEW resp
  PROVE  \A row \in format_get(GetResult(xpaths, resp)).rows :
           is_sensitive_path(row.xpath) => row.shown = Mask
  <1>1. Masked(GetResult(xpaths, resp).paths)
    <2>1. CASE resp.status # 0
      <3>1. GetResult(xpaths, resp).paths = Screened(xpaths)
        BY <2>1 DEF GetResult, Result
      <3> QED BY <3>1, ScreenedMasked
    <2>2. CASE resp.status = 0
      <3> DEFINE back == {IF is_sensitive_path(r.xpath) THEN Denied(r.xpath) ELSE r :
                            r \in resp.rows}
      <3>1. GetResult(xpaths, resp).paths = Screened(xpaths) \cup back
        BY <2>2 DEF GetResult, Result
      <3>2. Masked(back)
        <4> SUFFICES ASSUME NEW q \in back, is_sensitive_path(q.xpath)
                     PROVE  q.error = "denied"
          BY DEF Masked
        <4>1. PICK r \in resp.rows :
                q = IF is_sensitive_path(r.xpath) THEN Denied(r.xpath) ELSE r
          OBVIOUS
        <4>2. q = Denied(r.xpath)
          BY <4>1
        <4> QED BY <4>2 DEF Denied, Row
      <3> HIDE DEF back
      <3> QED BY <3>1, <3>2, ScreenedMasked DEF Masked
    <2> QED BY <2>1, <2>2
  <1> QED BY <1>1, FormatMasks

(* The same for a GET that is answered without an RPC, and for the         *)
(* simulator's own backend (MemGnmiSink::get).                             *)
THEOREM LocalGetMasks ==
  ASSUME NEW xpaths, NEW t
  PROVE  /\ \A row \in format_get(GetWithoutRpc(xpaths)).rows :
              is_sensitive_path(row.xpath) => row.shown = Mask
         /\ \A row \in format_get(MemGet(t, xpaths)).rows :
              is_sensitive_path(row.xpath) => row.shown = Mask
  <1>1. Masked(GetWithoutRpc(xpaths).paths)
    BY ScreenedMasked DEF GetWithoutRpc, Result
  <1>2. Masked(MemGet(t, xpaths).paths)
    <2> DEFINE RowOf(p) == IF is_sensitive_path(p) THEN Denied(p)
                           ELSE IF p \in DOMAIN t THEN Row(p, t[p], "")
                           ELSE Row(p, << >>, "not found")
    <2>1. MemGet(t, xpaths).paths = {RowOf(p) : p \in Range(xpaths)}
      BY DEF MemGet, Result
    <2>2. ASSUME NEW p, is_sensitive_path(RowOf(p).xpath)
          PROVE  RowOf(p).error = "denied"
      <3>1. RowOf(p).xpath = p
        BY DEF Denied, Row
      <3>2. is_sensitive_path(p)
        BY <2>2, <3>1
      <3> QED BY <3>2 DEF Denied, Row
    <2> HIDE DEF RowOf
    <2> QED BY <2>1, <2>2 DEF Masked
  <1> QED BY <1>1, <1>2, FormatMasks
=============================================================================
