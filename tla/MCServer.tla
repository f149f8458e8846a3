------------------------------ MODULE MCServer ------------------------------
EXTENDS Server

CONSTANTS a, b, n, c1, c2

MCSlow == {<<c2, "new">>, <<c2, "delete">>}

MCClient == {c1, c2}
MCPage == {a, b, n}

At(q, i) == [parent |-> q, at |-> i]
MCFirstTree == (a :> At(NoPage, 0)) @@ (b :> At(NoPage, 1))

Browser == [host |-> "own", origin |-> "own", site |-> "same", length |-> "right",
            long |-> FALSE]
\* A page of another site; a name the server was not bound to; heads and
\* bodies over their limits.
MCHeadsOf(c, kind) ==
    {Browser} \cup
    IF c = c1 THEN {}
    ELSE CASE kind = "reload" -> {[Browser EXCEPT !.origin = "foreign", !.site = "cross"]}
           [] kind = "view" -> {[Browser EXCEPT !.host = "foreign"],
                                [Browser EXCEPT !.long = TRUE]}
           [] kind = "attach" -> {[Browser EXCEPT !.length = "over"]}
           [] OTHER -> {}

File(names, size, kind) == [multipart |-> TRUE, names |-> names, size |-> size,
                            envelope |-> 1, kind |-> kind]
MCUpload == {File(<<"f">>, 1, "allowed")}
=============================================================================
