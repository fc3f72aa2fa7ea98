------------------------------ MODULE MCUbcCli ------------------------------
(***************************************************************************)
(* Two processes of the command line tool over three names: what one reads *)
(* the other may replace, names may be links to one file, and containers   *)
(* are whole, damaged or cut.                                              *)
(***************************************************************************)
EXTENDS UbcCli

Args(command, in, out, keyFile) ==
  [command |-> command, in |-> in, out |-> out, keyFile |-> keyFile, env |-> Unset,
   stdin |-> "f1", help |-> FALSE, parses |-> TRUE, hugeChunks |-> FALSE,
   metadataLegal |-> TRUE, baseNonce |-> Unset]

Encode == Args("encode", "a", "b", Unset)

Work ==
  {Encode, Args("encode", Dash, "a", Unset), Args("encode", "a", Dash, "k"),
   Args("decode", "a", "b", "k"), Args("decode", "b", "k", "k"), Args("decode", Dash, Dash, Unset)}

Other == {Args("encode", "b", "a", "k"), Args("encode", "k", "a", Unset), Args("decode", "b", "a", Unset),
          Args("inspect", "b", Dash, Unset)}

Alone ==
  {Args("verify", "a", Dash, "k"), Args("verify", "a", "b", "k"), [Encode EXCEPT !.help = TRUE],
   [Encode EXCEPT !.parses = FALSE], [Encode EXCEPT !.hugeChunks = TRUE, !.env = "key"],
   [Encode EXCEPT !.baseNonce = "legal"], [Encode EXCEPT !.metadataLegal = FALSE],
   [Encode EXCEPT !.env = "no key"]}

MCRequests ==
  {[p |-> one, q |-> other] : one \in Work, other \in Other}
  \cup {[p |-> one, q |-> [Encode EXCEPT !.help = TRUE]] : one \in Alone}

MCNames == {"a", "b", "k"}
MCFiles == {"f1", "f2", "f3"}
MCProcs == {"p", "q"}

Text == <<"text">>

Contents ==
  {Text, Container(Unset, "whole", Text), Container("key", "damaged", Text),
   Container(Unset, "cut at block", Text)}

(* a is f1, b is f2, a hard link to a, or nothing; k may be a link to b.    *)
MCDisks ==
  {[links |-> [a |-> "f1", b |-> b, k |-> k],
    data  |-> [f1 |-> first, f2 |-> Container("key", "whole", Text), f3 |-> <<"key">>,
               p |-> <<>>, q |-> <<>>]] :
     first \in Contents, b \in {"f1", "f2", NoFile}, k \in {"f3"}}
  \cup {[links |-> [a |-> "f1", b |-> "f2", k |-> "f2"],
         data  |-> [f1 |-> Text, f2 |-> <<"key">>, f3 |-> <<>>, p |-> <<>>, q |-> <<>>]]}
=============================================================================
