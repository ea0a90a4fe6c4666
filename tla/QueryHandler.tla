---------------------------- MODULE QueryHandler ----------------------------
(***************************************************************************)
(* The netquery HTTP query handler (netquery/query_handler.go): a request *)
(* payload is turned into one SQL query.  Selected fields, GROUP BY and   *)
(* ORDER BY names are checked by validateColumnName against the table     *)
(* schema and against the names the request itself introduced so far.    *)
(*                                                                         *)
(* A select is a record [kind, field, as, distinct, cond]:                *)
(*   kind "field"    {"field": f}                                         *)
(*        "count"    {"$count": {field, as, distinct}}                    *)
(*        "distinct" {"$distinct": f}                                     *)
(*        "sum"      {"$sum": {field | condition, as}}                    *)
(*        "min"      {"$min": {field | condition, as}}                    *)
(* cond says whether building the condition's WHERE clause fails.  The    *)
(* SQL text is kept as its parts: select entries, group-by and order-by   *)
(* names.  A select entry records the names it puts into the text.        *)
(* The WHERE clause, the text search and the database execution are not  *)
(* in this source: each is an input that fails or not.  A request also    *)
(* carries its HTTP method and the kind of its body: the known payload,   *)
(* the payload with a field the payload type does not have, an empty      *)
(* body, malformed JSON, or a body that cannot be read.                   *)
(***************************************************************************)
EXTENDS Integers, Sequences, SequencesExt

CONSTANTS
    Columns,    \* column names of the connections table schema
    Requests,   \* the request payloads a client may send
    UnsafeNames,\* strings that are not SQL identifiers (they carry SQL text)
    NoRequest   \* no request is being served

VARIABLES
    request,    \* the request being served
    status      \* the HTTP status code sent, 0 before it is sent

(* A select entry of the generated text: expr is the string appended to  *)
(* selectedFields (validateColumnName compares names with it), names the *)
(* identifiers it puts into the SQL text.                                *)
Entry(expr, names) == [expr |-> expr, names |-> names]

(* The state prepareSelectedFields builds up on the request. *)
NoErr == "none"
InitState == [selected |-> << >>, whitelisted |-> << >>, groupBy |-> << >>,
              orderBy |-> << >>, err |-> NoErr]

(* Mutant: the final "not allowed" error is dropped. *)
validateColumnNameAnyName(st, field) ==
    IF field \in Columns THEN [ok |-> TRUE, name |-> field]
    ELSE [ok |-> TRUE, name |-> field]

(* validateColumnName: a schema column, or a name the request already     *)
(* whitelisted or selected.  Returns [ok, name].                          *)
validateColumnName(st, field) ==
    IF field \in Columns THEN [ok |-> TRUE, name |-> field]
    ELSE IF \E i \in DOMAIN st.whitelisted : st.whitelisted[i] = field
         THEN [ok |-> TRUE, name |-> field]
    ELSE IF \E i \in DOMAIN st.selected : st.selected[i].expr = field
         THEN [ok |-> TRUE, name |-> field]
    ELSE [ok |-> FALSE, name |-> ""]

(* The field a select refers to (the first switch of prepareSelectedFields). *)
SelectField(s) ==
    CASE s.kind \in {"sum", "min"} -> IF s.field # "" THEN s.field ELSE "*"
      [] OTHER -> s.field

Fail(st, why) == [st EXCEPT !.err = why]

Add(st, entry, alias) ==
    [st EXCEPT !.selected = Append(@, entry),
               !.whitelisted = IF alias = "" THEN @ ELSE Append(@, alias)]

(* One iteration of prepareSelectedFields for select s. *)
PrepareSelect(st, s) ==
    LET field == SelectField(s)
        check == field # "*" \/ s.kind \notin {"count", "sum"}
        v     == validateColumnName(st, field)
        col   == IF check THEN v.name ELSE "*"
    IN  IF check /\ ~v.ok THEN Fail(st, "column name not allowed")
        ELSE CASE s.kind = "count" ->
                    LET as == IF s.as = "" THEN col \o "_count" ELSE s.as
                        d  == IF s.distinct THEN "DISTINCT " ELSE ""
                    IN  Add(st, Entry("COUNT(" \o d \o col \o ") AS " \o as, {col, as}), as)
               [] s.kind \in {"sum", "min"} /\ s.as = "" ->
                    Fail(st, "missing 'as'")
               [] s.kind \in {"sum", "min"} /\ s.field = "" /\ s.cond = "err" ->
                    Fail(st, "condition")
               [] s.kind \in {"sum", "min"} ->
                    LET fn     == IF s.kind = "sum" THEN "SUM" ELSE "MIN"
                        clause == IF s.field # "" THEN field ELSE "(condition)"
                    IN  Add(st, Entry(fn \o "(" \o clause \o ") AS " \o s.as,
                                      IF s.field # "" THEN {field, s.as} ELSE {s.as}),
                            s.as)
               [] s.kind = "distinct" ->
                    Add(st, Entry("DISTINCT " \o col, {col}), col)
               [] OTHER -> Add(st, Entry(col, {col}), "")

RECURSIVE PrepareSelectedFields(_, _)
PrepareSelectedFields(st, sels) ==
    IF sels = << >> \/ st.err # NoErr THEN st
    ELSE PrepareSelectedFields(PrepareSelect(st, Head(sels)), Tail(sels))

(* Validate a sequence of names in order; the first failure wins. *)
ValidateAll(st, names) ==
    [ok    |-> \A i \in DOMAIN names : validateColumnName(st, names[i]).ok,
     names |-> [i \in DOMAIN names |-> validateColumnName(st, names[i]).name]]

(* generateGroupByClause: validate the names, and default the selection  *)
(* to the group-by columns when nothing was selected.                    *)
generateGroupByClause(st, names) ==
    LET v == ValidateAll(st, names)
    IN  IF ~v.ok THEN Fail(st, "group-by")
        ELSE [st EXCEPT !.groupBy = v.names,
                        !.selected = IF names # << >> /\ @ = << >>
                                     THEN [i \in DOMAIN v.names |->
                                             Entry(v.names[i], {v.names[i]})]
                                     ELSE @]

(* generateOrderByClause: validate the sort fields. *)
generateOrderByClause(st, names) ==
    LET v == ValidateAll(st, names)
    IN  IF ~v.ok THEN Fail(st, "order-by") ELSE [st EXCEPT !.orderBy = v.names]

(* generateSQL: the where clause and the text search (not in this source) *)
(* fail when the request says so; the steps run in the code's order and   *)
(* the first error is returned.                                           *)
generateSQL(req) ==
    LET Then(st, Step(_)) == IF st.err = NoErr THEN Step(st) ELSE st
        Where(st)  == IF req.fail = "where" THEN Fail(st, "where") ELSE st
        Text(st)   == IF req.fail = "text" THEN Fail(st, "text") ELSE st
        Group(st)  == generateGroupByClause(st, req.groupBy)
        Order(st)  == generateOrderByClause(st, req.orderBy)
    IN  Then(Then(Then(Then(PrepareSelectedFields(InitState, req.select),
                             Where), Text), Group), Order)

(* parseRequest: POST and PUT read the body, GET the "q" parameter, any  *)
(* other method is refused.  The blob is then decoded with json.Unmarshal, *)
(* which ignores unknown fields and reports an empty blob as "unexpected   *)
(* end of JSON input", never as io.EOF.  The decoder built with           *)
(* DisallowUnknownFields is not used.  TRUE when the request parses.       *)
parseRequest(req) ==
    /\ req.method \in {"POST", "PUT", "GET"}
    /\ req.body \in {"payload", "unknownField"}

(* ServeHTTP: the status code the request is answered with.  A failed     *)
(* encoding of the result is only logged, after the 200 was sent.         *)
ServeHTTP(req) ==
    CASE ~parseRequest(req)                -> 400
      [] generateSQL(req).err # NoErr      -> 400
      [] req.fail = "execute"              -> 500
      [] OTHER                             -> 200
-----------------------------------------------------------------------------
(* The handler serves one request at a time: it receives a payload,    *)
(* answers it with a status code and returns.                           *)

Init == request = NoRequest /\ status = 0

Receive(r) ==
    /\ request = NoRequest
    /\ request' = r
    /\ UNCHANGED status

Respond ==
    /\ request # NoRequest
    /\ status = 0
    /\ status' = ServeHTTP(request)
    /\ UNCHANGED request

Return ==
    /\ status # 0
    /\ request' = NoRequest
    /\ status' = 0

Next == (\E r \in Requests : Receive(r)) \/ Respond \/ Return

vars == <<request, status>>

Spec == Init /\ [][Next]_vars

-----------------------------------------------------------------------------
(* Properties *)

(* The identifiers an accepted query puts into its SQL text. *)
SQLNames(q) ==
    UNION {q.selected[i].names : i \in DOMAIN q.selected}
      \cup {q.groupBy[i] : i \in DOMAIN q.groupBy}
      \cup {q.orderBy[i] : i \in DOMAIN q.orderBy}

(* Every GROUP BY and ORDER BY name of a query that is executed is a      *)
(* schema column or a name the query's own select list carries: the       *)
(* whitelist of validateColumnName only ever holds names that a select    *)
(* added together with its entry, whatever order the selects come in.    *)
OrderAndGroupResolve ==
    status = 200 =>
        LET q == generateSQL(request)
            out == UNION {q.selected[i].names : i \in DOMAIN q.selected}
        IN  \A n \in {q.groupBy[i] : i \in DOMAIN q.groupBy}
                      \cup {q.orderBy[i] : i \in DOMAIN q.orderBy} :
                n \in Columns \cup out

(* Only identifiers reach the SQL text of an executed query: every name  *)
(* from the request passed validateColumnName, or is at least not SQL     *)
(* text.  The "as" names of $count, $sum and $min are formatted into the  *)
(* query unchecked.                                                       *)
SQLNamesAreIdentifiers ==
    status = 200 => SQLNames(generateSQL(request)) \cap UnsafeNames = {}

(* $min is accepted exactly where the same $sum is: both take a field or  *)
(* a condition and a mandatory "as".                                       *)
MinForSum(r) ==
    [r EXCEPT !.select = [i \in DOMAIN @ |->
        IF @[i].kind = "sum" THEN [@[i] EXCEPT !.kind = "min"] ELSE @[i]]]

MinAcceptedLikeSum ==
    status # 0 => status = ServeHTTP(MinForSum(request))

(* parseRequest decodes the body as the decoder it configures would: a     *)
(* field the payload does not know is refused (DisallowUnknownFields), and *)
(* an empty body is the empty query (the io.EOF exemption).               *)
DecodedAsConfigured ==
    status # 0 =>
        /\ request.body = "unknownField" => status = 400
        /\ request.body = "empty" =>
               status = ServeHTTP([request EXCEPT !.body = "payload"])
=============================================================================
