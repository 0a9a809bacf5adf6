------------------------------ MODULE MCServer ------------------------------
(* A small instance of Server: three clients for a map of two buckets, a proxy, and clients *)
(* that write other addresses into the headers.                                             *)
EXTENDS Server, TLC

From(client, remote, header, real, kind, base) ==
    [client |-> client, remote |-> remote, header |-> header, real |-> real, kind |-> kind, base |-> base]

MCRequests ==
    {From("a", "a", <<"b">>, "b", "transfer", None),
     From("a", "proxy", <<"b", "a">>, "junk", "transfer", None),
     From("b", "proxy", <<"junk", "proxy">>, "b", "transfer", None),
     From("c", "c", <<>>, "junk", "transfer", "USD"),
     From("c", "c", <<>>, "junk", "rates", "USD")}

ProcSymmetry == Permutations(Proc)
=============================================================================
