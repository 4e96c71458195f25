------------------------------ MODULE MCCombine ------------------------------
(***************************************************************************)
(* Combine for TLC: the tables that come in.                               *)
(***************************************************************************)
EXTENDS Combine

\* Columns of keys: of up to n rows with keys of K.  There is one row at least:
\* a result without rows goes wrong where it is made (ComputeGraph).
KeyColumns(K, n) == UNION {[1 .. m -> K] : m \in 1 .. n}

\* A table with the given columns whose keys, in all columns named like a key,
\* are those of f.
WithKeys(cols, f) ==
  [cols |-> cols,
   rows |-> [r \in DOMAIN f |->
               [c \in 1 .. Len(cols) |-> IF cols[c] \in {"id", "uid"} THEN f[r] ELSE 7]]]

\* Two tables: keys that count the rows or do not, NULL, and one that stands
\* for a string (9).
Keys == {1, 2, 9, Null}
Firsts == {WithKeys(<<"id", "a">>, f) : f \in KeyColumns(Keys, 2) \cup KeyColumns(1 .. 3, 3)}
Seconds ==
  {WithKeys(cols, f) : cols \in {<<"uid", "b">>, <<"b", "uid">>},
                       f \in KeyColumns(Keys, 2) \cup KeyColumns(1 .. 3, 3)}

\* Tables that need their own names: a column named like the key of another
\* table, the key twice, no key, a hole left by an outer join.
Odd ==
  {WithKeys(cols, f) : cols \in {<<"uid", "id">>, <<"id", "uid">>, <<"uid", "b", "uid">>,
                                 <<"uid">>, <<"id">>, <<"b">>},
                       f \in KeyColumns(1 .. 2, 2)}
    \cup {[cols |-> <<"uid", "b">>, rows |-> <<<<1, nullptr>>>>],
          [cols |-> <<"uid", "b", "uid">>, rows |-> <<<<2, 7, 1>>, <<1, 7, 2>>>>]}

\* Three tables.
Thirds(name) == {WithKeys(<<name, "b">>, f) : f \in KeyColumns(1 .. 2, 2)}

MCInputs ==
  {<<>>} \cup {<<t>> : t \in Firsts}
    \cup Firsts \X Seconds
    \cup Thirds("id") \X Odd
    \cup Odd \X Thirds("uid")
    \cup Thirds("id") \X Thirds("uid") \X Thirds("id")

MCPrimaryKeys == {<<>>, <<"id">>, <<"id", "uid">>, <<"id", "uid", "id">>}
MCName == {"id", "uid", "a", "b"}
=============================================================================
