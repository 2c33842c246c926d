-------------------------------- MODULE Gnmi --------------------------------
(***************************************************************************)
(* The gNMI command path as operators on values: recognising a command     *)
(* (src/gnmi_command.cpp), deciding what it may do (src/gnmi_executor.cpp),*)
(* the sensitive-path policy (src/path_policy.cpp), the two backends       *)
(* (src/local_gnmi_sink.cpp and the in-memory one of sim/zt_sim.cpp), the  *)
(* reply (src/gnmi_reply.cpp), and the server's tree and handlers          *)
(* (sim/gnmi_tree.hpp, sim/zt_gnmi_simd.cpp).                              *)
(*                                                                         *)
(* A token of an SMS is a sequence of symbols, a comma being one of them.  *)
(* An xpath is the sequence of its segments, << >> the root.  A tree is a  *)
(* function from the xpaths of its leaves to their values, items of an SMS *)
(* too.  The rows of an answer are a set: their order and the 160-character*)
(* clamp are layout.                                                       *)
(***************************************************************************)
EXTENDS Integers, Sequences, SequencesExt

CONSTANT DenyTokens      \* the segments in which a deny token occurs

-----------------------------------------------------------------------------
(* Recognising a command.                                                  *)

(* Letter case is not represented: a token is the word or it is not. *)
ieq(a, b) == a = <<b>>

(* A comma always starts a new item: n commas make n + 1 items, some of    *)
(* which may be empty.                                                     *)
csv(s) ==
  FoldLeft(LAMBDA out, c : IF c = "," THEN Append(out, << >>)
                           ELSE [out EXCEPT ![Len(out)] = Append(@, c)],
           << << >> >>, s)

NotGnmi == [kind |-> "NotGnmi"]

Unknown(error) == [kind |-> "Unknown", error |-> error]

(* GET <xpaths> *)
ParseGet(t) ==
  IF Len(t) < 4 THEN Unknown("missing xpath")
  ELSE [kind |-> "Get", xpaths |-> csv(t[4])]

(* SET <xpaths> <values>: paired by position. *)
ParseSet(t) ==
  IF Len(t) < 5 THEN Unknown("expected xpaths and values")
  ELSE LET xs == csv(t[4])
           vs == csv(t[5])
       IN IF Len(xs) # Len(vs) THEN Unknown("count mismatch")
          ELSE [kind |-> "Set", updates |-> [i \in DOMAIN xs |-> <<xs[i], vs[i]>>]]

parse_gnmi(t) ==
  IF Len(t) < 2 \/ ~ieq(t[1], "iot") \/ ~ieq(t[2], "gnmi") THEN NotGnmi
  ELSE IF Len(t) < 3 THEN Unknown("expected GET or SET")
  ELSE IF ieq(t[3], "get") THEN ParseGet(t)
  ELSE IF ieq(t[3], "set") THEN ParseSet(t)
  ELSE Unknown("unknown operation")

-----------------------------------------------------------------------------
(* Who may do what, and the denylist.                                      *)

(* Mutant of Permitted: any session may SET. *)
PermittedAnySession(cmd, access) ==
  cmd.kind \in {"Get", "Set"} => access # "None"

(* The access an operation needs: GET a session, SET an Admin session. *)
Permitted(cmd, access) ==
  /\ cmd.kind = "Get" => access # "None"
  /\ cmd.kind = "Set" => access = "Admin"

is_sensitive_path(p) == \E i \in DOMAIN p : p[i] \in DenyTokens

Row(p, value, error) == [xpath |-> p, value |-> value, error |-> error]

Denied(p) == Row(p, << >>, "denied")

-----------------------------------------------------------------------------
(* The tree of the server.                                                 *)

Leaves(t, p) ==
  IF p \in DOMAIN t THEN {p} ELSE {q \in DOMAIN t : IsStrictPrefix(p, q)}

lookup(t, p) == {Row(q, t[q], "") : q \in Leaves(t, p)}

SetLeaf(t, p, v) == [q \in DOMAIN t \cup {p} |-> IF q = p THEN v ELSE t[q]]

erase(t, p) == [q \in DOMAIN t \ Leaves(t, p) |-> t[q]]

(* Updates are applied in order, so the last one of an xpath stands. *)
Write(t, updates) == FoldLeft(LAMBDA u, x : SetLeaf(u, x[1], x[2]), t, updates)

-----------------------------------------------------------------------------
(* The server's handlers: from the tree and a request to the new tree and  *)
(* the answer.                                                             *)

(* A request that does not parse has no role and no paths. *)
Malformed(op) == [op |-> op]
Parses(req) == "role" \in DOMAIN req

Refuse(t, status) == [tree |-> t, status |-> status, rows |-> {}]

(* INVALID_ARGUMENT (3) for a request that does not parse; NOT_FOUND (5)   *)
(* only when no path of a non-empty request matched a leaf.                *)
handle_get(t, req) ==
  IF ~Parses(req) THEN Refuse(t, 3)
  ELSE LET rows == UNION {lookup(t, p) : p \in Range(req.paths)}
       IN IF req.paths # << >> /\ rows = {} THEN Refuse(t, 5)
          ELSE [tree |-> t, status |-> 0, rows |-> rows]

(* Updates, then replaces (erase, then write), then deletes, all in one    *)
(* callback; PERMISSION_DENIED (7) unless the role is ADMIN.               *)
handle_set(t, req) ==
  IF ~Parses(req) THEN Refuse(t, 3)
  ELSE IF req.role # "ADMIN" THEN Refuse(t, 7)
  ELSE LET Replace(u, x) == SetLeaf(erase(u, x[1]), x[1], x[2])
           t1 == Write(t, req.update)
           t2 == FoldLeft(Replace, t1, req.replace)
           t3 == FoldLeft(erase, t2, req.delete)
       IN [tree |-> t3, status |-> 0,
           rows |-> {Row(x[1], << >>, "") : x \in Range(req.update \o req.replace)}
                      \cup {Row(p, << >>, "") : p \in Range(req.delete)}]

Serve(t, req) == IF req.op = "Get" THEN handle_get(t, req) ELSE handle_set(t, req)

-----------------------------------------------------------------------------
(* LocalGnmiSink: one RPC per operation, screened on the way out and back. *)

Asked(xpaths) == SelectSeq(xpaths, LAMBDA p : ~is_sensitive_path(p))

Screened(xpaths) == {Denied(p) : p \in {q \in Range(xpaths) : is_sensitive_path(q)}}

GetRequest(xpaths) == [op |-> "Get", role |-> "VIEWER", paths |-> Asked(xpaths)]

SetRequest(updates) ==
  [op |-> "Set", role |-> "ADMIN", update |-> updates, replace |-> << >>,
   delete |-> << >>]

Result(ok, status, rows) == [ok |-> ok, status |-> status, paths |-> rows]

(* A GET of nothing but sensitive paths never reaches the server. *)
GetWithoutRpc(xpaths) == Result(Screened(xpaths) # {}, 0, Screened(xpaths))

(* Mutant of GetResult: only the request is screened. *)
GetResultUnscreened(xpaths, resp) ==
  IF resp.status # 0 THEN Result(FALSE, resp.status, Screened(xpaths))
  ELSE Result(TRUE, 0, Screened(xpaths) \cup resp.rows)

GetResult(xpaths, resp) ==
  IF resp.status # 0 THEN Result(FALSE, resp.status, Screened(xpaths))
  ELSE Result(TRUE, 0, Screened(xpaths)
         \cup {IF is_sensitive_path(r.xpath) THEN Denied(r.xpath) ELSE r : r \in resp.rows})

SetResult(resp) ==
  IF resp.status # 0 THEN Result(FALSE, resp.status, {}) ELSE Result(TRUE, 0, resp.rows)

(* gnmi_client's outcome when it never got a status. *)
TransportError == [status |-> -1, rows |-> {}]

-----------------------------------------------------------------------------
(* MemGnmiSink, the simulator's own backend: exact leaves only.            *)

MemGet(t, xpaths) ==
  Result(TRUE, 0, {IF is_sensitive_path(p) THEN Denied(p)
                   ELSE IF p \in DOMAIN t THEN Row(p, t[p], "")
                   ELSE Row(p, << >>, "not found") : p \in Range(xpaths)})

MemSet(updates) == Result(TRUE, 0, {Row(x[1], << >>, "") : x \in Range(updates)})

-----------------------------------------------------------------------------
(* The reply SMS: what it tells, not how it is worded.                     *)

Err(why) == [ok |-> FALSE, why |-> why, rows |-> {}]

(* The names of the codes that reach a reply; 0 is a failure without one. *)
grpc_status_text(code) ==
  CASE code = -1 -> "transport error"
    [] code = 3  -> "invalid argument"
    [] code = 5  -> "not found"
    [] code = 7  -> "permission denied"
    [] OTHER     -> "failed"

(* A row with an error shows the error in brackets, never the value. *)
format_get(r) ==
  IF ~r.ok THEN Err(grpc_status_text(r.status))
  ELSE [ok |-> TRUE, why |-> "get",
        rows |-> {[xpath |-> p.xpath,
                   shown |-> IF p.error = "" THEN p.value ELSE <<"<", p.error, ">">>] :
                  p \in r.paths}]

format_set(r) ==
  IF ~r.ok THEN Err(grpc_status_text(r.status))
  ELSE [ok |-> TRUE, why |-> "set", rows |-> {}]
=============================================================================
