------------------------------- MODULE MCJose -------------------------------
(* Two keys of one type and one of each other, PEM texts of one block, of  *)
(* a chain with its key in both orders, with the parameters of a curve     *)
(* first, and one whose label does not tell its form.                      *)
EXTENDS Jose, TLC

Key(id, kty) == [kty |-> kty, id |-> id]
EC1 == Key(1, "P-256")
EC2 == Key(2, "P-256")
EC3 == Key(3, "P-384")
Ed1 == Key(4, "Ed25519")
RSA1 == Key(5, "RSA")

Block(label, shape, key) == [label |-> label, form |-> shape, key |-> key]
Good(label, key) == Block(label, FormOf[label], key)

MCMaterials ==
  { Secret("a"), Secret("b"), Secret(""), Pem(<<>>) }
    \cup { Pem(<<Good(label, key)>>) : label \in {"PRIVATE KEY", "PUBLIC KEY"}, key \in {EC1, EC3, Ed1, RSA1} }
    \cup { Pem(<<Good("CERTIFICATE", EC2), Good("EC PRIVATE KEY", EC1)>>),
           Pem(<<Good("EC PRIVATE KEY", EC1), Good("CERTIFICATE", EC2)>>),
           Pem(<<Block("EC PARAMETERS", "params", NoKey), Good("EC PRIVATE KEY", EC1)>>),
           Pem(<<Good("RSA PRIVATE KEY", RSA1)>>),
           Pem(<<Block("PUBLIC KEY", "pkcs8", EC1)>>) }

MCExtras == { <<>>, ("kid" :> Plain("k")) @@ ("alg" :> Plain("HS256")), "alg" :> At(1) }

MCClaims == { [exp |-> Absent, nbf |-> Absent], [exp |-> At(2), nbf |-> At(1)],
              [exp |-> Plain("soon"), nbf |-> Absent] }

MCTimes == {Absent, At(0), At(1), At(2), Plain("bad")}
=============================================================================
