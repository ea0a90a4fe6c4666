--------------------------- MODULE MC_QueryHandler ---------------------------
EXTENDS QueryHandler, TLC

MC_Columns == {"domain"}

(* A string that closes the select list: sent as an "as" name. *)
Evil == "x FROM connections; --"

MC_UnsafeNames == {Evil}

Sel(k, f, a, d, c) == [kind |-> k, field |-> f, as |-> a, distinct |-> d, cond |-> c]

(* Fields that are a column, an alias of another select, and neither. *)
Names == {"domain", "c", "bogus"}

Selects ==
       {Sel("field", f, "", FALSE, "ok") : f \in Names}
  \cup {Sel("count", f, a, FALSE, "ok") : f \in {"domain", "*"}, a \in {"", "c", Evil}}
  \cup {Sel("count", "domain", "", TRUE, "ok")}
  \cup {Sel("distinct", f, "", FALSE, "ok") : f \in {"domain", "bogus"}}
  \cup {Sel(k, "", a, FALSE, c) : k \in {"sum", "min"}, a \in {"", "c"}, c \in {"ok", "err"}}
  \cup {Sel(k, "domain", a, FALSE, "ok") : k \in {"sum", "min"}, a \in {"", "c"}}

UpTo1(S) == {<< >>} \cup {<<x>> : x \in S}

Fails == {"none", "where", "text", "execute", "encode"}

Selects1 == {<< >>} \cup {<<s>> : s \in Selects}

(* Two selects only with no failing step: a failure does not depend on   *)
(* the select list.  Bodies other than the known payload are sent with   *)
(* one select at most, and the empty and unreadable ones with the empty   *)
(* payload, by every kind of method.                                     *)
MC_Requests ==
    [select : Selects1, groupBy : UpTo1(Names), orderBy : UpTo1(Names),
     fail : Fails, method : {"POST"}, body : {"payload"}]
  \cup
    [select : {<<s, t>> : s, t \in Selects},
     groupBy : UpTo1(Names), orderBy : UpTo1(Names), fail : {"none"},
     method : {"POST"}, body : {"payload"}]
  \cup
    [select : Selects1, groupBy : UpTo1(Names), orderBy : UpTo1(Names),
     fail : {"none"}, method : {"POST"}, body : {"unknownField"}]
  \cup
    {[select |-> << >>, groupBy |-> << >>, orderBy |-> << >>, fail |-> "none",
      method |-> mb[1], body |-> mb[2]] :
        mb \in ({"GET", "POST", "DELETE"} \X {"payload", "empty", "malformed"})
                \cup ({"POST", "PUT"} \X {"readError"})}
=============================================================================
