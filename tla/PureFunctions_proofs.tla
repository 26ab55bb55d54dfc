------------------------ MODULE PureFunctions_proofs ------------------------
(***************************************************************************)
(* Functions that keep nothing between calls.  The converters for values   *)
(* of any size and shape, numbers of any width and chains of any length;   *)
(* jwt_verify for any keys, algorithms, headers, claims and times; btoe    *)
(* and etob for any keys; asn1_decode for any input and limits; mod_floor  *)
(* for any precision; and, for every table of functions whose loops read   *)
(* all the options, and in which a function that can be called with        *)
(* arguments known in part looks for what is unknown in all of them, that  *)
(* a plan settles what the apply will settle and is refused only for what  *)
(* the apply would refuse.                                                 *)
(*                                                                         *)
(* The argument for the converters goes from the small to the large: a     *)
(* number rounded twice is rounded once; each conversion keeps an item     *)
(* (Same), so a function keeps a value (Kept); in the list that some       *)
(* functions make, the value stays inside another (InsideBy), and what a   *)
(* property list makes of a tag is what the tag stood for (ReadFrom); what *)
(* is true of one call (Carried) is then true of a chain (ValuesInv).      *)
(***************************************************************************)
EXTENDS PureFunctions, NumberLemmas

-----------------------------------------------------------------------------
(* The blocks of a PEM text                                                *)

(* A text of blocks is a sequence.                                         *)
LEMMA BlocksAreASequence ==
  ASSUME NEW m \in Materials, m.k = "pem"
  PROVE  /\ m = Pem(m.blocks) /\ Len(m.blocks) \in Nat
         /\ DOMAIN m.blocks = 1 .. Len(m.blocks)
  <1> DEFINE S == { m.blocks[i] : i \in DOMAIN m.blocks }
  <1>1. IsMaterial(m)
    BY JoseAssumption
  <1>2. m = Pem(m.blocks) /\ m.blocks \in Seq(S)
    BY <1>1 DEF IsMaterial
  <1> HIDE DEF S
  <1>3. QED
    BY <1>2

LEMMA SecretsAreSecret ==
  ASSUME NEW m \in Materials, m.k # "pem"
  PROVE  m.k = "secret"
  <1>1. IsMaterial(m)
    BY JoseAssumption
  <1>2. m = Secret(m.s)
    BY <1>1 DEF IsMaterial
  <1>3. QED
    BY <1>2 DEF Secret

(* What "the i-th block is the first one accepted" means.                  *)
IsFirst(m, accept, i) ==
  /\ i \in DOMAIN m.blocks
  /\ m.blocks[i].label \in accept
  /\ \A j \in 1 .. i - 1 : m.blocks[j].label \notin accept

(* When a block is accepted, one is the first.                             *)
LEMMA FirstExists ==
  ASSUME NEW m \in Materials, NEW accept, m.k = "pem",
         \E i \in DOMAIN m.blocks : m.blocks[i].label \in accept
  PROVE  \E i : IsFirst(m, accept, i)
  <1> DEFINE Found == {i \in DOMAIN m.blocks : m.blocks[i].label \in accept}
  <1>1. Len(m.blocks) \in Nat /\ DOMAIN m.blocks = 1 .. Len(m.blocks)
    BY BlocksAreASequence
  <1>2. Found \subseteq Nat /\ Found # {}
    BY <1>1
  <1>3. PICK i \in Found : \A j \in Found : i <= j
    BY <1>2, FirstPosition
  <1>4. ASSUME NEW j \in 1 .. i - 1
        PROVE  m.blocks[j].label \notin accept
    <2>1. i \in Nat /\ j < i /\ j \in DOMAIN m.blocks
      BY <1>1
    <2>2. j \notin Found
      BY <1>3, <2>1
    <2>3. QED
      BY <2>1, <2>2
  <1>5. QED
    BY <1>3, <1>4 DEF IsFirst

(* And that is the one firstPEMBlockBytes finds.                           *)
LEMMA FirstIsFound ==
  ASSUME NEW m \in Materials, NEW accept, m.k = "pem",
         NEW i, IsFirst(m, accept, i)
  PROVE  FirstBlock(m, accept) = m.blocks[i]
  <1> DEFINE B == m.blocks
             First(x) == /\ B[x].label \in accept
                         /\ \A j \in 1 .. x - 1 : B[j].label \notin accept
  <1>1. Len(B) \in Nat /\ DOMAIN B = 1 .. Len(B)
    BY BlocksAreASequence
  <1>i. i \in DOMAIN B /\ First(i)
    BY DEF IsFirst
  <1>2. \A x \in DOMAIN B : First(x) => x = i
    <2> SUFFICES ASSUME NEW x \in DOMAIN B, First(x)
                 PROVE  x = i
      OBVIOUS
    <2>1. x \in Nat /\ i \in Nat /\ x > 0 /\ i > 0
      BY <1>1, <1>i
    <2>2. ~(i < x)
      BY <1>i, <2>1
    <2>3. ~(x < i)
      BY <1>i, <2>1
    <2>4. QED
      BY <2>1, <2>2, <2>3
  <1>3. (CHOOSE x \in DOMAIN B : First(x)) = i
    BY <1>i, <1>2
  <1>4. FirstBlock(m, accept) = B[CHOOSE x \in DOMAIN B : First(x)]
    BY <1>i DEF FirstBlock
  <1>5. QED
    BY <1>3, <1>4

(* It finds the first block, or none is there.                             *)
LEMMA FoundOrNone ==
  ASSUME NEW m \in Materials, NEW accept
  PROVE  \/ FirstBlock(m, accept) = [label |-> "none", form |-> "none", key |-> NoKey]
         \/ /\ m.k = "pem"
            /\ FirstBlock(m, accept).label \in accept
            /\ \E i : IsFirst(m, accept, i) /\ FirstBlock(m, accept) = m.blocks[i]
  <1>1. CASE m.k = "secret" \/ ~\E i \in DOMAIN m.blocks : m.blocks[i].label \in accept
    BY <1>1 DEF FirstBlock
  <1>2. CASE ~(m.k = "secret" \/ ~\E i \in DOMAIN m.blocks : m.blocks[i].label \in accept)
    <2>1. m.k = "pem"
      BY <1>2, SecretsAreSecret
    <2>2. PICK i : IsFirst(m, accept, i)
      BY <1>2, <2>1, FirstExists
    <2>3. FirstBlock(m, accept) = m.blocks[i]
      BY <2>1, <2>2, FirstIsFound
    <2>4. QED
      BY <2>1, <2>2, <2>3 DEF IsFirst
  <1>3. QED
    BY <1>1, <1>2

-----------------------------------------------------------------------------
(* Keys                                                                    *)

(* The public key read from a text is pk exactly when pk comes first.      *)
LEMMA PublicKeyIsFirst ==
  ASSUME NEW m \in Materials, NEW ktys, "none" \notin ktys, "secret" \notin ktys,
         NEW pk, pk.kty \in ktys
  PROVE  PublicKey(m, ktys) = pk <=> KeyOf(m, pk)
  <1>k. pk # NoKey /\ pk.kty # "secret"
    BY DEF NoKey
  <1>1. ASSUME PublicKey(m, ktys) = pk
        PROVE  KeyOf(m, pk)
    <2>1. FirstBlock(m, AnyLabel).key = pk
      BY <1>1, <1>k DEF PublicKey
    <2>2. PICK i : /\ m.k = "pem" /\ IsFirst(m, AnyLabel, i)
                   /\ FirstBlock(m, AnyLabel) = m.blocks[i]
      BY <2>1, <1>k, FoundOrNone
    <2>3. QED
      BY <2>1, <2>2, <1>k DEF KeyOf, IsFirst
  <1>2. ASSUME KeyOf(m, pk)
        PROVE  PublicKey(m, ktys) = pk
    <2>1. PICK i \in DOMAIN m.blocks :
            m.k = "pem" /\ m.blocks[i].key = pk /\ IsFirst(m, AnyLabel, i)
      BY <1>2, <1>k DEF KeyOf, IsFirst
    <2>2. FirstBlock(m, AnyLabel).key = pk
      BY <2>1, FirstIsFound
    <2>3. QED
      BY <2>2 DEF PublicKey
  <1>3. QED
    BY <1>1, <1>2

(* What signs with an algorithm is a key of its type.                      *)
LEMMA SignerFits ==
  ASSUME NEW m, NEW alg \in Supported, SignerOf(alg, m) # NoKey
  PROVE  /\ alg \in HMACs => SignerOf(alg, m) = [kty |-> "secret", material |-> m]
         /\ alg = "ES256" => SignerOf(alg, m).kty = "P-256"
         /\ alg = "EdDSA" => SignerOf(alg, m).kty = "Ed25519"
         /\ alg \in RSAs => SignerOf(alg, m).kty = "RSA"
  <1>1. CASE alg \in HMACs
    <2>1. SignerOf(alg, m) = IF Empty(m) THEN NoKey ELSE [kty |-> "secret", material |-> m]
      BY <1>1 DEF SignerOf, HMACs, RSAs
    <2>2. QED
      BY <1>1, <2>1 DEF HMACs, RSAs
  <1>2. CASE alg = "ES256"
    <2>1. SignerOf(alg, m) = IF ECPrivateKey(m).kty = "P-256" THEN ECPrivateKey(m) ELSE NoKey
      BY <1>2 DEF SignerOf, HMACs, RSAs
    <2>2. QED
      BY <1>2, <2>1 DEF HMACs, RSAs
  <1>3. CASE alg = "EdDSA"
    <2>1. SignerOf(alg, m) = Ed25519PrivateKey(m)
      BY <1>3 DEF SignerOf, HMACs, RSAs
    <2>2. QED
      BY <1>3, <2>1 DEF HMACs, RSAs, Ed25519PrivateKey, PrivateKeyOf
  <1>4. CASE alg \in RSAs
    <2>1. SignerOf(alg, m) = RSAPrivateKey(m)
      BY <1>4 DEF SignerOf, HMACs, RSAs
    <2>2. QED
      BY <1>4, <2>1 DEF HMACs, RSAs, RSAPrivateKey, PrivateKeyOf
  <1>5. QED
    BY <1>1, <1>2, <1>3, <1>4 DEF Supported

(* A verification that finds a key finds the signer's exactly when the     *)
(* signer's is the first.                                                  *)
LEMMA VerifierIsSigner ==
  ASSUME NEW n \in Materials, NEW m \in Materials, NEW alg \in Supported,
         SignerOf(alg, n) # NoKey, VerifierOf(alg, m) # NoKey
  PROVE  VerifierOf(alg, m) = SignerOf(alg, n) <=> KeyOf(m, SignerOf(alg, n))
  <1> DEFINE pk == SignerOf(alg, n)
  <1>1. CASE alg \in HMACs
    <2>1. pk = [kty |-> "secret", material |-> n]
      BY <1>1, SignerFits
    <2>2. VerifierOf(alg, m) = SignerOf(alg, m)
      BY <1>1 DEF VerifierOf, HMACs, RSAs
    <2>3. VerifierOf(alg, m) = [kty |-> "secret", material |-> m]
      BY <1>1, <2>2, SignerFits
    <2>4. KeyOf(m, pk) <=> m = n
      BY <2>1 DEF KeyOf
    <2>5. QED
      BY <2>1, <2>3, <2>4
  <1>2. CASE alg = "ES256"
    <2>1. pk.kty = "P-256"
      BY <1>2, SignerFits
    <2>2. VerifierOf(alg, m) = PublicKey(m, {"P-256", "P-384"})
      BY <1>2 DEF VerifierOf, HMACs, RSAs
    <2>3. QED
      BY <2>1, <2>2, PublicKeyIsFirst
  <1>3. CASE alg = "EdDSA"
    <2>1. pk.kty = "Ed25519"
      BY <1>3, SignerFits
    <2>2. VerifierOf(alg, m) = PublicKey(m, {"Ed25519"})
      BY <1>3 DEF VerifierOf, HMACs, RSAs
    <2>3. QED
      BY <2>1, <2>2, PublicKeyIsFirst
  <1>4. CASE alg \in RSAs
    <2>1. pk.kty = "RSA"
      BY <1>4, SignerFits
    <2>2. VerifierOf(alg, m) = PublicKey(m, {"RSA"})
      BY <1>4 DEF VerifierOf, HMACs, RSAs
    <2>3. QED
      BY <2>1, <2>2, PublicKeyIsFirst
  <1>5. QED
    BY <1>1, <1>2, <1>3, <1>4 DEF Supported

-----------------------------------------------------------------------------
(* The invariant                                                           *)

(* A header always has an alg, and it is a field.                          *)
LEMMA HeaderFacts ==
  ASSUME NEW alg, NEW e \in Extras
  PROVE  IsField(Header(alg, e)["alg"])
  <1>1. Header(alg, e)["alg"] = IF "alg" \in DOMAIN e THEN e["alg"] ELSE Plain(alg)
    BY DEF Header
  <1>2. IsField(Plain(alg))
    BY DEF IsField, Plain
  <1>3. QED
    BY <1>1, <1>2, JoseAssumption

(* A signed token is not the absent one.                                   *)
LEMMA SignedIsThere ==
  ASSUME NEW h, NEW c, NEW s
  PROVE  [header |-> h, payload |-> c, sig |-> s] # NoToken
  <1>1. "sig" \in DOMAIN [header |-> h, payload |-> c, sig |-> s]
    OBVIOUS
  <1>2. "sig" \notin DOMAIN NoToken
    BY DEF NoToken
  <1>3. QED
    BY <1>1, <1>2

LEMMA SignStep ==
  ASSUME JoseInv, JWTSign
  PROVE  JoseInv'
  <1> DEFINE pk == SignerOf(algorithm, material)
             header == Header(algorithm, extra)
  <1>1. /\ token = NoToken /\ ~altered /\ verdict = "none"
        /\ algorithm \in Supported /\ pk # NoKey
        /\ token' = [header |-> header, payload |-> claims,
                     sig |-> Signature(algorithm, pk, <<header, claims>>)]
        /\ signer' = pk
        /\ UNCHANGED <<material, algorithm, extra, claims, altered, asked, verdict, checks>>
    BY DEF JWTSign, JoseInv
  <1>2. /\ token'.header = header /\ token'.payload = claims
        /\ token'.sig = Signature(algorithm, pk, <<header, claims>>)
    BY <1>1
  <1>3. token'.sig.input = <<header, claims>>
    BY <1>2 DEF Signature
  <1>4. TokenInv'
    BY <1>1, <1>2, <1>3 DEF TokenInv, JoseInv
  <1>5. token' # NoToken
    BY <1>1, SignedIsThere
  <1>6. QED
    BY <1>1, <1>4, <1>5 DEF JoseInv

LEMMA GarbleStep ==
  ASSUME JoseInv, Garble
  PROVE  JoseInv'
  <1>1. /\ token # NoToken /\ ~altered /\ checks = 0 /\ altered'
        /\ UNCHANGED <<material, algorithm, extra, claims, signer, asked, verdict, checks>>
    BY DEF Garble
  <1>2. TokenInv /\ verdict = "none"
    BY <1>1 DEF JoseInv
  <1>3. token = [header |-> token.header, payload |-> token.payload, sig |-> token.sig]
    BY <1>2 DEF TokenInv
  <1>4. token.sig.input = <<token.header, token.payload>>
    BY <1>1, <1>2 DEF TokenInv
  <1>5. /\ token' = [header |-> token'.header, payload |-> token'.payload, sig |-> token.sig]
        /\ token'.sig = token.sig
        /\ \E e \in Extras : token'.header = Header(algorithm, e)
        /\ token'.payload \in Claims
        /\ token'.header # token.header \/ token'.payload # token.payload
    <2>1. CASE \E c \in Claims \ {token.payload} : token' = [token EXCEPT !.payload = c]
      <3>1. PICK c \in Claims \ {token.payload} : token' = [token EXCEPT !.payload = c]
        BY <2>1
      <3>2. token' = [header |-> token.header, payload |-> c, sig |-> token.sig]
        BY <1>3, <3>1
      <3>3. QED
        BY <1>2, <3>2 DEF TokenInv
    <2>2. CASE \E e \in Extras : /\ Header(algorithm, e) # token.header
                                 /\ token' = [token EXCEPT !.header = Header(algorithm, e)]
      <3>1. PICK e \in Extras : /\ Header(algorithm, e) # token.header
                                /\ token' = [token EXCEPT !.header = Header(algorithm, e)]
        BY <2>2
      <3>2. token' = [header |-> Header(algorithm, e), payload |-> token.payload,
                      sig |-> token.sig]
        BY <1>3, <3>1
      <3>3. QED
        BY <1>2, <3>1, <3>2 DEF TokenInv
    <2>3. QED
      BY <2>1, <2>2 DEF Garble
  <1>6. token'.sig.input # <<token'.header, token'.payload>>
    BY <1>4, <1>5
  <1>7. TokenInv'
    BY <1>1, <1>2, <1>5, <1>6 DEF TokenInv
  <1>8. token' # NoToken
    BY <1>5, SignedIsThere
  <1>9. QED
    BY <1>1, <1>2, <1>7, <1>8 DEF JoseInv

LEMMA VerifyStep ==
  ASSUME JoseInv, JWTVerify
  PROVE  JoseInv'
  <1>1. /\ token # NoToken /\ material' \in Materials
        /\ asked' \in [algorithm : {Absent, Plain("ES256"), Plain("HS256"), At(0)}, now : Times]
        /\ verdict' = Verify(token, material', asked')
        /\ checks' = checks + 1
        /\ UNCHANGED <<algorithm, extra, claims, token, signer, altered>>
    BY DEF JWTVerify
  <1>2. IsField(asked'.algorithm) /\ asked'.now \in Times
    BY <1>1 DEF IsField, Absent, Plain, At
  <1>3. TokenInv'
    BY <1>1 DEF JoseInv, TokenInv
  <1>4. checks' \in Nat /\ checks' > 0
    BY <1>1 DEF JoseInv
  <1>5. QED
    BY <1>1, <1>2, <1>3, <1>4 DEF JoseInv

(* Whatever is signed, altered, verified or decoded, in any order, the     *)
(* invariant stays.                                                        *)
LEMMA JoseInductive == JoseSpec => []JoseInv
<1>1. JoseInit => JoseInv
  <2> SUFFICES ASSUME JoseInit
               PROVE  JoseInv
    OBVIOUS
  <2>1. /\ material \in Materials /\ extra \in Extras /\ claims \in Claims
        /\ token = NoToken /\ altered = FALSE /\ verdict = "none" /\ checks = 0
    BY DEF JoseInit
  <2>2. QED
    BY <2>1 DEF JoseInv
<1>2. JoseInv /\ [JoseNext]_joseVars => JoseInv'
  <2> SUFFICES ASSUME JoseInv, [JoseNext]_joseVars
               PROVE  JoseInv'
    OBVIOUS
  <2>1. CASE JWTSign
    BY <2>1, SignStep
  <2>2. CASE Garble
    BY <2>2, GarbleStep
  <2>3. CASE JWTVerify
    BY <2>3, VerifyStep
  <2>4. CASE JWTDecode
    <3>1. /\ token # NoToken /\ claims' = token.payload
          /\ UNCHANGED <<material, algorithm, extra, token, signer, altered, asked, verdict, checks>>
      BY <2>4 DEF JWTDecode
    <3>2. TokenInv
      BY <3>1 DEF JoseInv
    <3>3. TokenInv' /\ claims' \in Claims
      BY <3>1, <3>2 DEF TokenInv
    <3>4. QED
      BY <3>1, <3>3 DEF JoseInv
  <2>5. CASE UNCHANGED joseVars
    BY <2>5 DEF joseVars, JoseInv, TokenInv
  <2>6. QED
    BY <2>1, <2>2, <2>3, <2>4, <2>5 DEF JoseNext
<1>3. QED
  BY <1>1, <1>2, PTL DEF JoseSpec

-----------------------------------------------------------------------------
(* jwt_verify                                                              *)

(* A field says by its first part what it is.                              *)
LEMMA FieldKinds ==
  ASSUME NEW x, IsField(x)
  PROVE  /\ x[1] = "string" => x = Plain(x[2])
         /\ x[1] = "number" => x = At(x[2]) /\ x[2] \in Int
         /\ x[1] \notin {"string", "number"} => x = Absent
         /\ x = Absent => x[1] = "absent"
  <1>1. Absent[1] = "absent" /\ Plain(x[2])[1] = "string" /\ At(x[2])[1] = "number"
    BY DEF Absent, Plain, At
  <1>2. x = Absent \/ x = Plain(x[2]) \/ (x = At(x[2]) /\ x[2] \in Int)
    BY DEF IsField
  <1>3. QED
    BY <1>1, <1>2

(* Within the claims' window, when neither claim is something else.        *)
LEMMA TimeDecides ==
  ASSUME NEW c, IsField(c.exp), IsField(c.nbf), NEW n \in Int,
         TimeClaimsValid(c, n) # "error"
  PROVE  /\ TimeClaimsValid(c, n) \in {"valid", "invalid"}
         /\ TimeClaimsValid(c, n) = "valid" <=> InWindow(c, n)
  <1> DEFINE late  == c.exp[1] = "number" /\ n >= c.exp[2]
             early == c.nbf[1] = "number" /\ n < c.nbf[2]
  <1>1. c.exp[1] # "string"
    BY DEF TimeClaimsValid
  <1>2. (c.exp = Absent \/ n < c.exp[2]) <=> ~late
    <2>1. CASE c.exp[1] = "number"
      BY <2>1, FieldKinds
    <2>2. CASE c.exp[1] # "number"
      BY <1>1, <2>2, FieldKinds
    <2>3. QED
      BY <2>1, <2>2
  <1>3. CASE late
    <2>1. TimeClaimsValid(c, n) = "invalid"
      BY <1>1, <1>3 DEF TimeClaimsValid
    <2>2. ~InWindow(c, n)
      BY <1>2, <1>3 DEF InWindow
    <2>3. QED
      BY <2>1, <2>2
  <1>4. CASE ~late
    <2>1. c.nbf[1] # "string"
      BY <1>1, <1>4 DEF TimeClaimsValid
    <2>2. (c.nbf = Absent \/ n >= c.nbf[2]) <=> ~early
      <3>1. CASE c.nbf[1] = "number"
        BY <3>1, FieldKinds
      <3>2. CASE c.nbf[1] # "number"
        BY <2>1, <3>2, FieldKinds
      <3>3. QED
        BY <3>1, <3>2
    <2>3. TimeClaimsValid(c, n) = IF early THEN "invalid" ELSE "valid"
      BY <1>1, <1>4, <2>1 DEF TimeClaimsValid
    <2>4. InWindow(c, n) <=> ~early
      BY <1>2, <1>4, <2>2 DEF InWindow
    <2>5. QED
      BY <2>3, <2>4
  <1>5. QED
    BY <1>3, <1>4

(* What the signature check says.                                          *)
LEMMA SignatureDecides ==
  ASSUME NEW alg, NEW m, NEW input, NEW sig
  PROVE  /\ VerifyJWS(alg, m, input, sig) \in {"valid", "invalid", "error"}
         /\ VerifyJWS(alg, m, input, sig) = "error" <=> VerifierOf(alg, m) = NoKey
         /\ VerifyJWS(alg, m, input, sig) = "valid" <=>
              VerifierOf(alg, m) # NoKey /\ sig = Signature(alg, VerifierOf(alg, m), input)
  <1>1. CASE VerifierOf(alg, m) = NoKey
    <2>1. VerifyJWS(alg, m, input, sig) = "error"
      BY <1>1 DEF VerifyJWS
    <2>2. QED
      BY <1>1, <2>1
  <1>2. CASE VerifierOf(alg, m) # NoKey /\ sig = Signature(alg, VerifierOf(alg, m), input)
    <2>1. VerifyJWS(alg, m, input, sig) = "valid"
      BY <1>2 DEF VerifyJWS
    <2>2. QED
      BY <1>2, <2>1
  <1>3. CASE VerifierOf(alg, m) # NoKey /\ sig # Signature(alg, VerifierOf(alg, m), input)
    <2>1. VerifyJWS(alg, m, input, sig) = "invalid"
      BY <1>3 DEF VerifyJWS
    <2>2. QED
      BY <1>3, <2>1
  <1>4. QED
    BY <1>1, <1>2, <1>3

(* The three answers of jwt_verify.                                        *)
LEMMA VerifyAnswers ==
  ASSUME NEW t, NEW m, NEW o
  PROVE  LET alg == t.header["alg"]
             sig == VerifyJWS(alg[2], m, <<t.header, t.payload>>, t.sig)
         IN /\ alg[1] # "string" \/ alg[2] \notin Supported => Verify(t, m, o) = "error"
            /\ alg[1] = "string" /\ alg[2] \in Supported /\ o.algorithm \notin {Absent, alg} =>
                 Verify(t, m, o) = IF o.algorithm[1] = "string" THEN "invalid" ELSE "error"
            /\ alg[1] = "string" /\ alg[2] \in Supported /\ o.algorithm \in {Absent, alg} =>
                 Verify(t, m, o) = IF o.now[1] = "string" THEN "error"
                                   ELSE IF sig # "valid" \/ o.now = Absent THEN sig
                                   ELSE TimeClaimsValid(t.payload, o.now[2])
  <1> DEFINE alg == t.header["alg"]
             sig == VerifyJWS(alg[2], m, <<t.header, t.payload>>, t.sig)
  <1>1. ASSUME alg[1] # "string" \/ alg[2] \notin Supported
        PROVE  Verify(t, m, o) = "error"
    BY <1>1 DEF Verify
  <1>2. ASSUME alg[1] = "string", alg[2] \in Supported, o.algorithm \notin {Absent, alg}
        PROVE  Verify(t, m, o) = IF o.algorithm[1] = "string" THEN "invalid" ELSE "error"
    BY <1>2 DEF Verify
  <1>3. ASSUME alg[1] = "string", alg[2] \in Supported, o.algorithm \in {Absent, alg}
        PROVE  Verify(t, m, o) = IF o.now[1] = "string" THEN "error"
                                 ELSE IF sig # "valid" \/ o.now = Absent THEN sig
                                 ELSE TimeClaimsValid(t.payload, o.now[2])
    BY <1>3 DEF Verify
  <1>4. QED
    BY <1>1, <1>2, <1>3

(* The signature of a token matches exactly when the token is what was     *)
(* signed, with that algorithm and that key.                               *)
LEMMA SignatureMatches ==
  ASSUME NEW alg, NEW pk, NEW input, TokenInv
  PROVE  token.sig = Signature(alg, pk, input) <=>
           alg = algorithm /\ pk = signer /\ input = token.sig.input
  <1>1. token.sig = Signature(algorithm, signer, token.sig.input)
    BY DEF TokenInv
  <1>2. \A a, k, i : /\ Signature(a, k, i).alg = a /\ Signature(a, k, i).key = k
                     /\ Signature(a, k, i).input = i
    BY DEF Signature
  <1>3. QED
    BY <1>1, <1>2

(* jwt_verify finds a token valid exactly when it arrived as it was signed,*)
(* under the algorithm its header names and the caller asked for, with the *)
(* key that comes first in the argument, within its time claims: for any   *)
(* keys, headers, claims and times.                                        *)
THEOREM TokensAreValidAsSigned == JoseSpec => []ValidExactlyWhenSigned
<1>1. JoseInv => ValidExactlyWhenSigned
  <2> SUFFICES ASSUME JoseInv, verdict \in {"valid", "invalid"}
               PROVE  verdict = "valid" <=>
                        /\ ~altered /\ KeyOf(material, signer)
                        /\ token.header["alg"] = Plain(algorithm)
                        /\ asked.algorithm \in {Absent, Plain(algorithm)}
                        /\ asked.now = Absent \/ InWindow(token.payload, asked.now[2])
    BY DEF ValidExactlyWhenSigned
  <2> DEFINE alg == token.header["alg"]
             input == <<token.header, token.payload>>
             sig == VerifyJWS(alg[2], material, input, token.sig)
             inTime == asked.now = Absent \/ InWindow(token.payload, asked.now[2])
  <2>1. /\ material \in Materials /\ TokenInv
        /\ IsField(asked.algorithm) /\ asked.now \in Times
        /\ verdict = Verify(token, material, asked)
    BY DEF JoseInv
  <2>2. IsField(alg) /\ IsField(asked.now)
    BY <2>1, HeaderFacts, JoseAssumption DEF TokenInv
  <2>3. alg[1] = "string" /\ alg[2] \in Supported
    BY <2>1, VerifyAnswers
  <2>4. alg = Plain(alg[2])
    BY <2>2, <2>3, FieldKinds
  <2>5. alg = Plain(algorithm) <=> alg[2] = algorithm
    <3>1. Plain(algorithm)[2] = algorithm
      BY DEF Plain
    <3>2. QED
      BY <2>4, <3>1
  <2>6. CASE asked.algorithm \notin {Absent, alg}
    <3>1. verdict = "invalid"
      BY <2>1, <2>3, <2>6, VerifyAnswers
    <3>2. QED
      BY <2>6, <3>1
  <2>7. CASE asked.algorithm \in {Absent, alg}
    <3>1. verdict = IF asked.now[1] = "string" THEN "error"
                    ELSE IF sig # "valid" \/ asked.now = Absent THEN sig
                    ELSE TimeClaimsValid(token.payload, asked.now[2])
      BY <2>1, <2>3, <2>7, VerifyAnswers
    <3>2. asked.now[1] # "string"
      BY <3>1
    <3>3. sig # "error"
      BY <3>1
    <3>4. sig \in {"valid", "invalid"} /\ VerifierOf(alg[2], material) # NoKey
      BY <3>3, SignatureDecides
    <3>5. sig = "valid" <=>
            /\ alg[2] = algorithm /\ VerifierOf(alg[2], material) = signer
            /\ input = token.sig.input
      BY <2>1, <3>4, SignatureDecides, SignatureMatches
    <3>6. input = token.sig.input <=> ~altered
      BY <2>1 DEF TokenInv
    <3>7. ASSUME alg[2] = algorithm
          PROVE  VerifierOf(alg[2], material) = signer <=> KeyOf(material, signer)
      <4>1. PICK n \in Materials : signer = SignerOf(algorithm, n)
        BY <2>1 DEF TokenInv
      <4>2. algorithm \in Supported /\ signer # NoKey
        BY <2>1 DEF TokenInv
      <4>3. QED
        BY <2>1, <3>4, <3>7, <4>1, <4>2, VerifierIsSigner
    <3>8. sig = "valid" <=>
            alg[2] = algorithm /\ KeyOf(material, signer) /\ ~altered
      BY <3>5, <3>6, <3>7
    <3>9. verdict = "valid" <=> sig = "valid" /\ inTime
      <4>1. CASE asked.now = Absent
        BY <3>1, <3>2, <4>1
      <4>2. CASE asked.now # Absent /\ sig # "valid"
        BY <3>1, <3>2, <4>2
      <4>3. CASE asked.now # Absent /\ sig = "valid"
        <5>1. asked.now[2] \in Int
          BY <2>2, <3>2, <4>3, FieldKinds
        <5>2. verdict = TimeClaimsValid(token.payload, asked.now[2])
          BY <3>1, <3>2, <4>3
        <5>3. IsField(token.payload.exp) /\ IsField(token.payload.nbf)
          BY <2>1, JoseAssumption DEF TokenInv
        <5>4. verdict = "valid" <=> InWindow(token.payload, asked.now[2])
          BY <5>1, <5>2, <5>3, TimeDecides
        <5>5. QED
          BY <4>3, <5>4
      <4>4. QED
        BY <4>1, <4>2, <4>3
    <3>10. QED
      BY <2>5, <2>7, <3>8, <3>9
  <2>8. QED
    BY <2>6, <2>7
<1>2. QED
  BY <1>1, JoseInductive, PTL

(* The first block of a text of one block is that block.                   *)
LEMMA OneBlock ==
  ASSUME NEW b, NEW accept, b.label \in accept
  PROVE  FirstBlock(Pem(<<b>>), accept) = b
  <1> DEFINE m == Pem(<<b>>)
  <1>1. m.k = "pem" /\ m.blocks = <<b>> /\ DOMAIN m.blocks = {1}
    BY DEF Pem
  <1>2. (CHOOSE i \in DOMAIN m.blocks :
           /\ m.blocks[i].label \in accept
           /\ \A j \in 1 .. i - 1 : m.blocks[j].label \notin accept) = 1
    BY <1>1
  <1>3. QED
    BY <1>1, <1>2 DEF FirstBlock

(* A key that went through a JWK is the key the text had.                  *)
LEMMA JWKKeepsTheKey ==
  ASSUME NEW m, HasJWK(m), NEW ktys
  PROVE  PublicKey(JWKEncodeDecode(m), ktys) = PublicKey(m, ktys)
  <1> DEFINE b == FirstBlock(m, AnyLabel)
             jwk == AnyKey(m)
             label == IF jwk.private THEN "PRIVATE KEY" ELSE "PUBLIC KEY"
             new == [label |-> label, form |-> FormOf[label], key |-> jwk.key]
  <1>1. jwk.key = b.key
    BY DEF HasJWK, AnyKey
  <1>2. JWKEncodeDecode(m) = Pem(<<new>>)
    BY DEF JWKEncodeDecode, KeyToPEM
  <1>3. new.label \in AnyLabel /\ new.key = b.key
    BY <1>1 DEF AnyLabel, Published
  <1>4. FirstBlock(JWKEncodeDecode(m), AnyLabel) = new
    BY <1>2, <1>3, OneBlock
  <1>5. QED
    BY <1>3, <1>4 DEF PublicKey

(* A key that went through jwk_encode and jwk_decode verifies what the     *)
(* text it came from verifies, whatever blocks that text has.              *)
THEOREM JWKsVerifyTheSame == JoseSpec => []JWKVerifiesTheSame
<1>1. JoseInv => JWKVerifiesTheSame
  <2> SUFFICES ASSUME JoseInv, verdict # "none", HasJWK(material), algorithm \notin HMACs,
                      token.header["alg"] = Plain(algorithm)
               PROVE  Verify(token, JWKEncodeDecode(material), asked) = verdict
    BY DEF JWKVerifiesTheSame
  <2> DEFINE alg == token.header["alg"]
             pk == JWKEncodeDecode(material)
             input == <<token.header, token.payload>>
  <2>1. algorithm \in Supported /\ verdict = Verify(token, material, asked)
    BY DEF JoseInv, TokenInv
  <2>2. alg[1] = "string" /\ alg[2] = algorithm
    BY DEF Plain
  <2>3. VerifierOf(algorithm, pk) = VerifierOf(algorithm, material)
    <3>1. CASE algorithm = "ES256"
      BY <3>1, JWKKeepsTheKey DEF VerifierOf, HMACs, RSAs
    <3>2. CASE algorithm = "EdDSA"
      BY <3>2, JWKKeepsTheKey DEF VerifierOf, HMACs, RSAs
    <3>3. CASE algorithm \in RSAs
      BY <3>3, JWKKeepsTheKey DEF VerifierOf, HMACs, RSAs
    <3>4. QED
      BY <2>1, <3>1, <3>2, <3>3 DEF Supported
  <2>4. VerifyJWS(algorithm, pk, input, token.sig)
          = VerifyJWS(algorithm, material, input, token.sig)
    BY <2>3 DEF VerifyJWS
  <2>5. CASE asked.algorithm \notin {Absent, alg}
    BY <2>1, <2>2, <2>5, VerifyAnswers
  <2>6. CASE asked.algorithm \in {Absent, alg}
    BY <2>1, <2>2, <2>4, <2>6, VerifyAnswers
  <2>7. QED
    BY <2>1, <2>5, <2>6
<1>2. QED
  BY <1>1, JoseInductive, PTL

-----------------------------------------------------------------------------
(* The words of a key                                                      *)

(* The buffer of eleven bytes, and its bits in the order of the key.       *)
Buffer == [0 .. 10 -> Byte]
Bit(s, k) == 7 - (k % 8) \in s[k \div 8]

(* The places of the dictionary, and what may be typed.                    *)
Places == SUBSET (0 .. 10)
AnyWord == [i : Places \cup {NoPlace}, spelling : Spellings]

(* Extract reads the bits from start on, the first of them as the highest. *)
LEMMA ExtractIs ==
  ASSUME NEW s \in Buffer, NEW start \in 0 .. 64, NEW length \in 1 .. 11
  PROVE  /\ Extract(s, start, length) \subseteq 0 .. length - 1
         /\ \A n \in 0 .. length - 1 :
              n \in Extract(s, start, length) <=> Bit(s, start + length - 1 - n)
<1>1. ASSUME NEW n \in 0 .. length - 1
      PROVE  n \in Extract(s, start, length) <=> Bit(s, start + length - 1 - n)
  <2> DEFINE m == n + 24 - (length + (start % 8))
             k == start + length - 1 - n
  <2>1. m % 8 = 7 - (k % 8) /\ start \div 8 + 2 - m \div 8 = k \div 8
    OBVIOUS
  <2>2. n \in Extract(s, start, length) <=> m % 8 \in s[start \div 8 + 2 - m \div 8]
    BY DEF Extract
  <2> QED
    BY <2>1, <2>2 DEF Bit
<1> QED
  BY <1>1 DEF Extract

(* Insert puts eleven bits at start and keeps the others.                  *)
LEMMA InsertIs ==
  ASSUME NEW s \in Buffer, NEW x \in Places, NEW start \in 0 .. 55
  PROVE  /\ Insert(s, x, start, 11) \in Buffer
         /\ \A k \in 0 .. 87 :
              Bit(Insert(s, x, start, 11), k) <=>
                Bit(s, k) \/ (k \in start .. start + 10 /\ start + 10 - k \in x)
<1> DEFINE shift == (8 - ((start + 11) % 8)) % 8
           part(i) == {n \in 0 .. 7 : n + 8 * (3 - i) - shift \in x}
           front == CASE shift + 11 > 16 -> 1
                      [] shift + 11 \in 9 .. 16 -> 2
                      [] OTHER -> 3
           at(i) == i - start \div 8 + front
           t == [i \in DOMAIN s |-> IF at(i) \in front .. 3 THEN s[i] \cup part(at(i)) ELSE s[i]]
<1>1. Insert(s, x, start, 11) = t
  BY DEF Insert
<1>2. shift \in 0 .. 7 /\ (start + 11 + shift) % 8 = 0
  OBVIOUS
<1>3. /\ front \in 1 .. 2
      /\ 8 * (start \div 8 + 4 - front) = start + 11 + shift
  <2>1. CASE shift + 11 > 16
    <3>1. front = 1
      BY <2>1
    <3> HIDE DEF front
    <3> QED
      BY <1>2, <2>1, <3>1
  <2>2. CASE ~(shift + 11 > 16)
    <3>1. shift + 11 \in 9 .. 16
      BY <1>2, <2>2
    <3>2. front = 2
      BY <2>2, <3>1
    <3> HIDE DEF front
    <3> QED
      BY <1>2, <2>2, <3>2
  <2> QED
    BY <2>1, <2>2
<1> HIDE DEF shift, front
<1>4. t \in Buffer
  BY DEF Buffer, Byte
<1>5. ASSUME NEW k \in 0 .. 87
      PROVE  Bit(t, k) <=> Bit(s, k) \/ (k \in start .. start + 10 /\ start + 10 - k \in x)
  <2> DEFINE i == k \div 8
             n == 7 - (k % 8)
  <2>1. i \in 0 .. 10 /\ n \in 0 .. 7 /\ k = 8 * i + 7 - n
    OBVIOUS
  <2>2. i \in DOMAIN s
    BY <2>1 DEF Buffer
  <2>3. Bit(t, k) <=> n \in t[i]
    BY DEF Bit
  <2>4. Bit(s, k) <=> n \in s[i]
    BY DEF Bit
  <2>5. x \subseteq 0 .. 10
    BY DEF Places
  <2> HIDE DEF i, n, t
  <2>6. CASE at(i) \in front .. 3
    <3>1. t[i] = s[i] \cup part(at(i))
      BY <2>2, <2>6 DEF t
    <3>2. n \in part(at(i)) <=> n + 8 * (3 - at(i)) - shift \in x
      BY <2>1
    <3>3. n + 8 * (3 - at(i)) - shift = start + 10 - k
      BY <1>2, <1>3, <2>1
    <3>4. start + 10 - k \in x => k \in start .. start + 10
      BY <2>5
    <3> HIDE DEF part, at
    <3> QED
      BY <2>3, <2>4, <3>1, <3>2, <3>3, <3>4
  <2>7. CASE ~(at(i) \in front .. 3)
    <3>1. t[i] = s[i]
      BY <2>2, <2>7 DEF t
    <3>2. k \notin start .. start + 10
      BY <1>2, <1>3, <2>1, <2>7
    <3> QED
      BY <2>3, <2>4, <3>1, <3>2
  <2> QED
    BY <2>6, <2>7
<1> QED
  BY <1>1, <1>4, <1>5

(* The sums of the pairs of bits, as rfc1751Parity makes them.             *)
SumsFrom(v, s) ==
  v = [i \in 0 .. 32 |-> IF i = 0 THEN 0 ELSE v[i - 1] + Pair(Extract(s, 2 * i - 2, 2))]
Sums(s) == CHOOSE v : SumsFrom(v, s)

(* The first bit of a pair counts two, the second one.                     *)
LEMMA PairIs ==
  ASSUME NEW s \in Buffer, NEW i \in 1 .. 32
  PROVE  /\ Pair(Extract(s, 2 * i - 2, 2)) =
              (IF Bit(s, 2 * i - 1) THEN 1 ELSE 0) + (IF Bit(s, 2 * i - 2) THEN 2 ELSE 0)
         /\ Pair(Extract(s, 2 * i - 2, 2)) \in 0 .. 3
<1>1. 2 * i - 2 \in 0 .. 64 /\ 2 \in 1 .. 11 /\ 0 \in 0 .. 2 - 1 /\ 1 \in 0 .. 2 - 1
  OBVIOUS
<1>2. \A n \in 0 .. 2 - 1 :
        n \in Extract(s, 2 * i - 2, 2) <=> Bit(s, 2 * i - 2 + 2 - 1 - n)
  BY <1>1, ExtractIs
<1>3. /\ 0 \in Extract(s, 2 * i - 2, 2) <=> Bit(s, 2 * i - 2 + 2 - 1 - 0)
      /\ 1 \in Extract(s, 2 * i - 2, 2) <=> Bit(s, 2 * i - 2 + 2 - 1 - 1)
  BY <1>1, <1>2
<1>4. 2 * i - 2 + 2 - 1 - 0 = 2 * i - 1 /\ 2 * i - 2 + 2 - 1 - 1 = 2 * i - 2
  OBVIOUS
<1>5. /\ 0 \in Extract(s, 2 * i - 2, 2) <=> Bit(s, 2 * i - 1)
      /\ 1 \in Extract(s, 2 * i - 2, 2) <=> Bit(s, 2 * i - 2)
  BY <1>3, <1>4
<1> QED
  BY <1>5 DEF Pair

(* The sums exist, so that they are what their definition says.            *)
LEMMA SumsAre ==
  ASSUME NEW s \in Buffer
  PROVE  /\ Sums(s)[0] = 0
         /\ \A i \in 1 .. 32 : /\ Sums(s)[i] = Sums(s)[i - 1] + Pair(Extract(s, 2 * i - 2, 2))
                               /\ Sums(s)[i - 1] \in Nat /\ Sums(s)[i] \in Nat
<1> DEFINE pair(i) == Pair(Extract(s, 2 * i - 2, 2))
           F == [x \in (1 .. 32) \X Nat |-> x[2] + pair(x[1])]
<1>1. \A i \in 1 .. 32 : pair(i) \in Nat
  BY PairIs
<1> HIDE DEF pair
<1>2. F \in [(1 .. 32) \X Nat -> Nat]
  BY <1>1
<1>3. \A i \in 1 .. 32 : \A y \in Nat : F[<<i, y>>] = y + pair(i)
  BY <1>1
<1> HIDE DEF F
<1> DEFINE g == Stepwise(32, Nat, 0, F)
<1>4. g \in [0 .. 32 -> Nat] /\ g[0] = 0 /\ \A i \in 1 .. 32 : g[i] = F[<<i, g[i - 1]>>]
  <2>1. 0 \in Nat /\ 32 \in Nat
    OBVIOUS
  <2>2. IsStepwise(g, 32, Nat, 0, F)
    BY <1>2, <2>1, StepwiseExists, Zenon
  <2> HIDE DEF g
  <2> QED
    BY <2>2 DEF IsStepwise
<1> HIDE DEF g
<1>5. \A i \in 1 .. 32 : g[i] = g[i - 1] + pair(i) /\ g[i - 1] \in Nat /\ g[i] \in Nat
  BY <1>3, <1>4
<1>6. SumsFrom(g, s)
  <2>1. \A i \in 0 .. 32 : g[i] = IF i = 0 THEN 0 ELSE g[i - 1] + pair(i)
    BY <1>4, <1>5
  <2>2. g = [i \in 0 .. 32 |-> g[i]]
    BY <1>4
  <2>3. g = [i \in 0 .. 32 |-> IF i = 0 THEN 0 ELSE g[i - 1] + pair(i)]
    BY <2>1, <2>2, SMTT(20)
  <2> QED
    BY <2>3 DEF SumsFrom, pair
<1> DEFINE v == Sums(s)
<1>7. v = [i \in 0 .. 32 |-> IF i = 0 THEN 0 ELSE v[i - 1] + pair(i)]
  BY <1>6, Zenon DEF Sums, SumsFrom, pair
<1> HIDE DEF v
<1>8. v[0] = 0 /\ \A i \in 1 .. 32 : v[i] = v[i - 1] + pair(i)
  BY <1>7
<1>9. \A i \in 0 .. 32 : v[i] = g[i]
  <2> DEFINE bad == {i \in 0 .. 32 : v[i] # g[i]}
  <2> SUFFICES ASSUME bad # {}
               PROVE  FALSE
    OBVIOUS
  <2>1. PICK i \in bad : \A j \in bad : i <= j
    <3>1. bad \subseteq Nat
      OBVIOUS
    <3> QED
      BY <3>1, FirstPosition
  <2>2. i \in 1 .. 32 /\ i - 1 \in 0 .. 32 /\ i - 1 \notin bad
    BY <1>4, <1>8, <2>1
  <2> QED
    BY <1>5, <1>8, <2>1, <2>2
<1>10. \A i \in 1 .. 32 : v[i] = v[i - 1] + pair(i) /\ v[i - 1] \in Nat /\ v[i] \in Nat
  BY <1>5, <1>8, <1>9
<1> QED
  BY <1>8, <1>10 DEF v, pair

(* The sums of two buffers differ by what their pairs differ by.           *)
LEMMA SumsDiffer ==
  ASSUME NEW s \in Buffer, NEW t \in Buffer, NEW q \in 1 .. 32, NEW d \in Int,
         \A i \in 1 .. 32 : Pair(Extract(t, 2 * i - 2, 2)) =
           Pair(Extract(s, 2 * i - 2, 2)) + (IF i = q THEN d ELSE 0)
  PROVE  Sums(t)[32] = Sums(s)[32] + d
<1> DEFINE u == Sums(s)
           v == Sums(t)
           more(i) == IF i < q THEN 0 ELSE d
           bad == {i \in 0 .. 32 : v[i] # u[i] + more(i)}
<1>1. /\ u[0] = 0 /\ v[0] = 0
      /\ \A i \in 1 .. 32 : /\ u[i] = u[i - 1] + Pair(Extract(s, 2 * i - 2, 2))
                            /\ v[i] = v[i - 1] + Pair(Extract(t, 2 * i - 2, 2))
                            /\ u[i - 1] \in Nat /\ v[i - 1] \in Nat
  BY SumsAre
<1>2. \A i \in 1 .. 32 : Pair(Extract(s, 2 * i - 2, 2)) \in 0 .. 3
  BY PairIs
<1> HIDE DEF u, v
<1>3. bad = {}
  <2> SUFFICES ASSUME bad # {}
               PROVE  FALSE
    OBVIOUS
  <2>1. PICK i \in bad : \A j \in bad : i <= j
    <3>1. bad \subseteq Nat
      OBVIOUS
    <3> QED
      BY <3>1, FirstPosition
  <2>2. i \in 1 .. 32 /\ i - 1 \in 0 .. 32
    BY <1>1, <2>1
  <2>3. v[i - 1] = u[i - 1] + more(i - 1)
    BY <2>1, <2>2
  <2>4. /\ u[i] = u[i - 1] + Pair(Extract(s, 2 * i - 2, 2))
        /\ v[i] = v[i - 1] + Pair(Extract(t, 2 * i - 2, 2))
        /\ u[i - 1] \in Nat /\ v[i - 1] \in Nat
    BY <1>1, <2>2
  <2>5. /\ Pair(Extract(s, 2 * i - 2, 2)) \in 0 .. 3
        /\ Pair(Extract(t, 2 * i - 2, 2)) =
             Pair(Extract(s, 2 * i - 2, 2)) + (IF i = q THEN d ELSE 0)
    BY <1>2, <2>2
  <2>6. v[i] = u[i] + more(i)
    BY <2>2, <2>3, <2>4, <2>5
  <2> QED
    BY <2>1, <2>6
<1>4. v[32] = u[32] + more(32)
  BY <1>3
<1> QED
  BY <1>4 DEF u, v

(* The parity is the two bits of the sum, and nothing else has them.       *)
LEMMA ParityIs ==
  ASSUME NEW s \in Buffer
  PROVE  /\ Parity(s) \subseteq 0 .. 1
         /\ Pair(Parity(s)) = Sums(s)[32] % 4
         /\ \A x \in SUBSET (0 .. 1) : Pair(x) = Pair(Parity(s)) => x = Parity(s)
<1> DEFINE r == Sums(s)[32] % 4
           best == IF r = 0 THEN {} ELSE IF r = 1 THEN {0} ELSE IF r = 2 THEN {1} ELSE {0, 1}
<1>1. Parity(s) = CHOOSE x \in SUBSET (0 .. 1) : Pair(x) = r
  BY DEF Parity, Sums, SumsFrom
<1>2. r \in 0 .. 3
  <2>1. Sums(s)[32] \in Nat
    BY SumsAre
  <2> QED
    BY <2>1
<1> HIDE DEF r
<1>3. best \in SUBSET (0 .. 1) /\ Pair(best) = r
  BY <1>2 DEF Pair
<1>4. Parity(s) \in SUBSET (0 .. 1) /\ Pair(Parity(s)) = r
  BY <1>1, <1>3
<1>5. ASSUME NEW x \in SUBSET (0 .. 1), NEW y \in SUBSET (0 .. 1), Pair(x) = Pair(y)
      PROVE  x = y
  <2>1. (0 \in x <=> 0 \in y) /\ (1 \in x <=> 1 \in y)
    BY <1>5 DEF Pair
  <2>2. \A n \in 0 .. 1 : n \in x <=> n \in y
    BY <2>1
  <2> QED
    BY <2>2
<1> QED
  BY <1>4, <1>5 DEF r

(* Buffers with the same bits have the same parity; one bit more or less   *)
(* changes it.                                                             *)
LEMMA ParityTells ==
  ASSUME NEW s \in Buffer, NEW t \in Buffer
  PROVE  /\ (\A k \in 0 .. 63 : Bit(s, k) <=> Bit(t, k)) => Parity(s) = Parity(t)
         /\ \A m \in 0 .. 63 :
              /\ Bit(s, m) <=> ~Bit(t, m)
              /\ \A k \in (0 .. 63) \ {m} : Bit(s, k) <=> Bit(t, k)
              => Parity(s) # Parity(t)
<1>1. /\ Pair(Parity(s)) = Sums(s)[32] % 4 /\ Pair(Parity(t)) = Sums(t)[32] % 4
      /\ Parity(t) \in SUBSET (0 .. 1) /\ Sums(s)[32] \in Nat /\ Sums(t)[32] \in Nat
  BY ParityIs, SumsAre
<1>2. \A i \in 1 .. 32 :
        /\ Pair(Extract(s, 2 * i - 2, 2)) =
             (IF Bit(s, 2 * i - 1) THEN 1 ELSE 0) + (IF Bit(s, 2 * i - 2) THEN 2 ELSE 0)
        /\ Pair(Extract(t, 2 * i - 2, 2)) =
             (IF Bit(t, 2 * i - 1) THEN 1 ELSE 0) + (IF Bit(t, 2 * i - 2) THEN 2 ELSE 0)
        /\ 2 * i - 1 \in 0 .. 63 /\ 2 * i - 2 \in 0 .. 63
  BY PairIs
<1>3. ASSUME \A k \in 0 .. 63 : Bit(s, k) <=> Bit(t, k)
      PROVE  Parity(s) = Parity(t)
  <2>1. \A i \in 1 .. 32 : Pair(Extract(t, 2 * i - 2, 2)) =
          Pair(Extract(s, 2 * i - 2, 2)) + (IF i = 1 THEN 0 ELSE 0)
    BY <1>2, <1>3
  <2>2. 1 \in 1 .. 32 /\ 0 \in Int
    OBVIOUS
  <2>3. Sums(t)[32] = Sums(s)[32] + 0
    BY <2>1, <2>2, SumsDiffer
  <2>4. Pair(Parity(t)) = Pair(Parity(s))
    BY <1>1, <2>3
  <2> QED
    BY <1>1, <2>4, ParityIs
<1>4. ASSUME NEW m \in 0 .. 63, Bit(s, m) <=> ~Bit(t, m),
             \A k \in (0 .. 63) \ {m} : Bit(s, k) <=> Bit(t, k)
      PROVE  Parity(s) # Parity(t)
  <2> DEFINE q == m \div 2 + 1
             worth == IF m % 2 = 0 THEN 2 ELSE 1
             d == IF Bit(t, m) THEN worth ELSE -worth
  <2>1. q \in 1 .. 32 /\ d \in {-2, -1, 1, 2}
    OBVIOUS
  <2>2. ASSUME NEW i \in 1 .. 32
        PROVE  Pair(Extract(t, 2 * i - 2, 2)) =
                 Pair(Extract(s, 2 * i - 2, 2)) + (IF i = q THEN d ELSE 0)
    <3>1. CASE i = q /\ m % 2 = 0
      <4>1. m = 2 * i - 2 /\ 2 * i - 1 \in (0 .. 63) \ {m}
        BY <3>1
      <4> QED
        BY <1>2, <1>4, <3>1, <4>1
    <3>2. CASE i = q /\ m % 2 # 0
      <4>1. m = 2 * i - 1 /\ 2 * i - 2 \in (0 .. 63) \ {m}
        BY <3>2
      <4> QED
        BY <1>2, <1>4, <3>2, <4>1
    <3>3. CASE i # q
      <4>1. 2 * i - 1 \in (0 .. 63) \ {m} /\ 2 * i - 2 \in (0 .. 63) \ {m}
        BY <3>3
      <4> QED
        BY <1>2, <1>4, <3>3, <4>1
    <3> QED
      BY <3>1, <3>2, <3>3
  <2> HIDE DEF q, d
  <2>3. Sums(t)[32] = Sums(s)[32] + d
    <3>1. d \in Int
      BY <2>1
    <3> QED
      BY <2>1, <2>2, <3>1, SumsDiffer, Zenon
  <2>4. Sums(t)[32] % 4 # Sums(s)[32] % 4
    BY <1>1, <2>1, <2>3
  <2> QED
    BY <1>1, <2>4
<1> QED
  BY <1>3, <1>4

(* A block of a key, and what btoeBlock and etobBlock make of the buffer.  *)
Block == [1 .. 8 -> Byte]
Loaded(b) == [i \in 0 .. 10 |-> IF i < 8 THEN b[i + 1] ELSE {}]
FilledFrom(v, idx) ==
  v = [i \in 0 .. 6 |-> IF i = 0 THEN [j \in 0 .. 10 |-> {}]
                        ELSE Insert(v[i - 1], idx[i], 11 * (i - 1), 11)]
Filled(idx) == (CHOOSE v : FilledFrom(v, idx))[6]

(* Six places hold the 64 bits of a block and its parity.                  *)
LEMMA BtoeBlockIs ==
  ASSUME NEW b \in Block
  PROVE  /\ Loaded(b) \in Buffer
         /\ \A k \in 0 .. 63 : Bit(Loaded(b), k) <=> 7 - (k % 8) \in b[k \div 8 + 1]
         /\ BtoeBlock(b) = [i \in 1 .. 6 |-> Word(BtoeBlock(b)[i].i, "upper")]
         /\ \A i \in 1 .. 6 : BtoeBlock(b)[i].i \in Places
         /\ \A k \in 0 .. 65 : 10 - (k % 11) \in BtoeBlock(b)[k \div 11 + 1].i <=>
              IF k < 64 THEN Bit(Loaded(b), k) ELSE 65 - k \in Parity(Loaded(b))
<1> DEFINE s == Loaded(b)
           cp == [s EXCEPT ![8] = {n + 6 : n \in Parity(s)}]
<1>1. s \in Buffer
  BY DEF Loaded, Buffer, Block, Byte
<1>2. \A k \in 0 .. 63 : Bit(s, k) <=> 7 - (k % 8) \in b[k \div 8 + 1]
  BY DEF Loaded, Bit
<1>3. Parity(s) \subseteq 0 .. 1
  BY <1>1, ParityIs
<1>4. BtoeBlock(b) = [i \in 1 .. 6 |-> Word(Extract(cp, 11 * (i - 1), 11), "upper")]
  BY DEF BtoeBlock, Loaded
<1> HIDE DEF s
<1>5. cp \in Buffer
  BY <1>1, <1>3 DEF Buffer, Byte
<1>6. \A k \in 0 .. 65 : Bit(cp, k) <=> IF k < 64 THEN Bit(s, k) ELSE 65 - k \in Parity(s)
  <2> SUFFICES ASSUME NEW k \in 0 .. 65
               PROVE  Bit(cp, k) <=> IF k < 64 THEN Bit(s, k) ELSE 65 - k \in Parity(s)
    OBVIOUS
  <2>1. CASE k < 64
    <3>1. k \div 8 \in 0 .. 10 /\ k \div 8 # 8
      BY <2>1
    <3>2. cp[k \div 8] = s[k \div 8]
      BY <1>1, <3>1 DEF Buffer
    <3> QED
      BY <2>1, <3>2 DEF Bit
  <2>2. CASE ~(k < 64)
    <3>1. k \div 8 = 8 /\ 7 - (k % 8) = 65 - k + 6
      BY <2>2
    <3>2. cp[8] = {n + 6 : n \in Parity(s)}
      BY <1>1 DEF Buffer
    <3>3. 65 - k + 6 \in cp[8] <=> 65 - k \in Parity(s)
      BY <1>3, <3>2
    <3> QED
      BY <2>2, <3>1, <3>3 DEF Bit
  <2> QED
    BY <2>1, <2>2
<1> HIDE DEF cp
<1>7. \A i \in 1 .. 6 : BtoeBlock(b)[i] = Word(Extract(cp, 11 * (i - 1), 11), "upper")
  BY <1>4
<1>8. \A i \in 1 .. 6 : BtoeBlock(b)[i].i = Extract(cp, 11 * (i - 1), 11)
  BY <1>7 DEF Word
<1>9. \A i \in 1 .. 6 : /\ Extract(cp, 11 * (i - 1), 11) \subseteq 0 .. 11 - 1
                        /\ \A n \in 0 .. 11 - 1 : n \in Extract(cp, 11 * (i - 1), 11) <=>
                             Bit(cp, 11 * (i - 1) + 11 - 1 - n)
  <2> SUFFICES ASSUME NEW i \in 1 .. 6
               PROVE  /\ Extract(cp, 11 * (i - 1), 11) \subseteq 0 .. 11 - 1
                      /\ \A n \in 0 .. 11 - 1 : n \in Extract(cp, 11 * (i - 1), 11) <=>
                           Bit(cp, 11 * (i - 1) + 11 - 1 - n)
    OBVIOUS
  <2>1. 11 * (i - 1) \in 0 .. 64 /\ 11 \in 1 .. 11
    OBVIOUS
  <2> QED
    BY <1>5, <2>1, ExtractIs, Zenon
<1>10. \A i \in 1 .. 6 : BtoeBlock(b)[i].i \in Places
  BY <1>8, <1>9 DEF Places
<1>11. BtoeBlock(b) = [i \in 1 .. 6 |-> Word(BtoeBlock(b)[i].i, "upper")]
  BY <1>4, <1>8
<1>12. \A k \in 0 .. 65 : 10 - (k % 11) \in BtoeBlock(b)[k \div 11 + 1].i <=> Bit(cp, k)
  <2> SUFFICES ASSUME NEW k \in 0 .. 65
               PROVE  10 - (k % 11) \in BtoeBlock(b)[k \div 11 + 1].i <=> Bit(cp, k)
    OBVIOUS
  <2> DEFINE i == k \div 11 + 1
             n == 10 - (k % 11)
  <2>1. i \in 1 .. 6 /\ n \in 0 .. 11 - 1 /\ 11 * (i - 1) + 11 - 1 - n = k
    OBVIOUS
  <2> HIDE DEF i, n
  <2>2. n \in BtoeBlock(b)[i].i <=> Bit(cp, k)
    BY <1>8, <1>9, <2>1
  <2> QED
    BY <2>2 DEF i, n
<1> QED
  BY <1>1, <1>2, <1>6, <1>10, <1>11, <1>12 DEF s

(* Six places fill a buffer with their bits.                               *)
LEMMA FilledIs ==
  ASSUME NEW idx, \A i \in 1 .. 6 : idx[i] \in Places
  PROVE  /\ Filled(idx) \in Buffer
         /\ \A k \in 0 .. 65 : Bit(Filled(idx), k) <=> 10 - (k % 11) \in idx[k \div 11 + 1]
<1> DEFINE s0 == [j \in 0 .. 10 |-> {}]
           F == [x \in (1 .. 6) \X Buffer |-> Insert(x[2], idx[x[1]], 11 * (x[1] - 1), 11)]
<1>1. s0 \in Buffer
  BY DEF Buffer, Byte
<1>2. ASSUME NEW i \in 1 .. 6, NEW y \in Buffer
      PROVE  /\ Insert(y, idx[i], 11 * (i - 1), 11) \in Buffer
             /\ \A k \in 0 .. 87 :
                  Bit(Insert(y, idx[i], 11 * (i - 1), 11), k) <=>
                    \/ Bit(y, k)
                    \/ /\ k \in 11 * (i - 1) .. 11 * (i - 1) + 10
                       /\ 11 * (i - 1) + 10 - k \in idx[i]
  <2>1. idx[i] \in Places /\ 11 * (i - 1) \in 0 .. 55
    OBVIOUS
  <2> QED
    BY <2>1, InsertIs, Zenon
<1>3. F \in [(1 .. 6) \X Buffer -> Buffer]
  BY <1>2
<1>4. \A i \in 1 .. 6 : \A y \in Buffer : F[<<i, y>>] = Insert(y, idx[i], 11 * (i - 1), 11)
  OBVIOUS
<1> HIDE DEF F, s0
<1> DEFINE g == Stepwise(6, Buffer, s0, F)
<1>5. g \in [0 .. 6 -> Buffer] /\ g[0] = s0 /\ \A i \in 1 .. 6 : g[i] = F[<<i, g[i - 1]>>]
  <2>1. 6 \in Nat
    OBVIOUS
  <2>2. IsStepwise(g, 6, Buffer, s0, F)
    BY <1>1, <1>3, <2>1, StepwiseExists, Zenon
  <2> HIDE DEF g
  <2> QED
    BY <2>2 DEF IsStepwise
<1> HIDE DEF g
<1>6. FilledFrom(g, idx)
  <2>1. ASSUME NEW i \in 0 .. 6
        PROVE  g[i] = IF i = 0 THEN s0 ELSE Insert(g[i - 1], idx[i], 11 * (i - 1), 11)
    <3>1. CASE i = 0
      BY <1>5, <3>1
    <3>2. CASE i # 0
      <4>1. i \in 1 .. 6 /\ g[i - 1] \in Buffer
        BY <1>5, <3>2
      <4> QED
        BY <1>4, <1>5, <3>2, <4>1
    <3> QED
      BY <3>1, <3>2
  <2>2. g = [i \in 0 .. 6 |-> g[i]]
    BY <1>5
  <2> QED
    BY <2>1, <2>2 DEF FilledFrom, s0
<1> DEFINE v == CHOOSE h : FilledFrom(h, idx)
<1>7. FilledFrom(v, idx)
  BY <1>6, Zenon
<1>8. Filled(idx) = v[6]
  BY Zenon DEF Filled
<1> HIDE DEF v
<1>9. v[0] = s0 /\ \A i \in 1 .. 6 : v[i] = Insert(v[i - 1], idx[i], 11 * (i - 1), 11)
  <2>1. v = [i \in 0 .. 6 |-> IF i = 0 THEN s0 ELSE Insert(v[i - 1], idx[i], 11 * (i - 1), 11)]
    BY <1>7 DEF FilledFrom, s0
  <2> QED
    BY <2>1
<1> DEFINE Holds(i) ==
             /\ v[i] \in Buffer
             /\ \A k \in 0 .. 87 :
                  Bit(v[i], k) <=> k < 11 * i /\ 10 - (k % 11) \in idx[k \div 11 + 1]
<1>10. Holds(0)
  <2>1. \A k \in 0 .. 87 : k \div 8 \in 0 .. 10
    OBVIOUS
  <2> QED
    BY <1>1, <1>9, <2>1 DEF Bit, s0
<1>11. ASSUME NEW i \in 1 .. 6, Holds(i - 1)
       PROVE  Holds(i)
  <2> DEFINE y == v[i - 1]
             z == v[i]
  <2>1. y \in Buffer /\ z = Insert(y, idx[i], 11 * (i - 1), 11)
    BY <1>9, <1>11
  <2>2. \A k \in 0 .. 87 :
          Bit(y, k) <=> k < 11 * (i - 1) /\ 10 - (k % 11) \in idx[k \div 11 + 1]
    BY <1>11
  <2> HIDE DEF y, z
  <2>3. z \in Buffer
    BY <1>2, <2>1
  <2>4. ASSUME NEW k \in 0 .. 87
        PROVE  Bit(z, k) <=> k < 11 * i /\ 10 - (k % 11) \in idx[k \div 11 + 1]
    <3>1. Bit(z, k) <=> \/ Bit(y, k)
                        \/ /\ k \in 11 * (i - 1) .. 11 * (i - 1) + 10
                           /\ 11 * (i - 1) + 10 - k \in idx[i]
      BY <1>2, <2>1
    <3>2. Bit(y, k) <=> k < 11 * (i - 1) /\ 10 - (k % 11) \in idx[k \div 11 + 1]
      BY <2>2
    <3>3. CASE k \in 11 * (i - 1) .. 11 * (i - 1) + 10
      <4>1. k \div 11 + 1 = i /\ 10 - (k % 11) = 11 * (i - 1) + 10 - k /\ k < 11 * i
            /\ ~(k < 11 * (i - 1))
        BY <3>3
      <4> QED
        BY <3>1, <3>2, <3>3, <4>1
    <3>4. CASE ~(k \in 11 * (i - 1) .. 11 * (i - 1) + 10)
      <4>1. k < 11 * i <=> k < 11 * (i - 1)
        BY <3>4
      <4> QED
        BY <3>1, <3>2, <3>4, <4>1
    <3> QED
      BY <3>3, <3>4
  <2> QED
    BY <2>3, <2>4 DEF z
<1> HIDE DEF Holds
<1>12. Holds(6)
  <2>1. \A i \in 1 .. 6 : Holds(i - 1) => Holds(i)
    BY <1>11
  <2>2. Holds(1) /\ Holds(2) /\ Holds(3) /\ Holds(4) /\ Holds(5) /\ Holds(6)
    <3>1. Holds(1)
      BY <1>10, <2>1
    <3>2. Holds(2)
      BY <2>1, <3>1
    <3>3. Holds(3)
      BY <2>1, <3>2
    <3>4. Holds(4)
      BY <2>1, <3>3
    <3>5. Holds(5)
      BY <2>1, <3>4
    <3>6. Holds(6)
      BY <2>1, <3>5
    <3> QED
      BY <3>1, <3>2, <3>3, <3>4, <3>5, <3>6
  <2> QED
    BY <2>2
<1> QED
  <2>1. v[6] \in Buffer /\ \A k \in 0 .. 87 :
          Bit(v[6], k) <=> k < 11 * 6 /\ 10 - (k % 11) \in idx[k \div 11 + 1]
    BY <1>12 DEF Holds
  <2> QED
    BY <1>8, <2>1

(* What etobBlock answers: the bytes of the buffer, if its parity is the   *)
(* one that was typed.                                                     *)
Idx(words) == [i \in 1 .. 6 |-> words[i].i]
LEMMA EtobBlockIs ==
  ASSUME NEW words, \A i \in 1 .. 6 : words[i] \in AnyWord
  PROVE  /\ (\E i \in 1 .. 6 : words[i].i = NoPlace) => EtobBlock(words) = NoBytes("word")
         /\ (\A i \in 1 .. 6 : words[i].i # NoPlace) =>
              /\ \A i \in 1 .. 6 : Idx(words)[i] \in Places
              /\ EtobBlock(words) =
                   IF Parity(Filled(Idx(words))) # Extract(Filled(Idx(words)), 64, 2)
                   THEN NoBytes("parity")
                   ELSE Bytes([i \in 1 .. 8 |-> Filled(Idx(words))[i - 1]])
<1> DEFINE standard == [i \in 1 .. 6 |-> Standard(words[i]).i]
<1>1. \A i \in 1 .. 6 : Standard(words[i]).i = words[i].i
  BY DEF Standard, AnyWord
<1>2. standard = Idx(words)
  BY <1>1 DEF Idx
<1>3. EtobBlock(words) =
        IF \E i \in 1 .. 6 : standard[i] = NoPlace THEN NoBytes("word")
        ELSE IF Parity(Filled(standard)) # Extract(Filled(standard), 64, 2) THEN NoBytes("parity")
        ELSE Bytes([i \in 1 .. 8 |-> Filled(standard)[i - 1]])
  BY DEF EtobBlock, Filled, FilledFrom
<1> HIDE DEF standard
<1>4. \A i \in 1 .. 6 : standard[i] = words[i].i
  BY <1>2 DEF Idx
<1>5. ASSUME \A i \in 1 .. 6 : words[i].i # NoPlace
      PROVE  \A i \in 1 .. 6 : Idx(words)[i] \in Places
  BY <1>5 DEF Idx, AnyWord
<1> QED
  BY <1>2, <1>3, <1>4, <1>5

(* A word that is not in the dictionary has no place in it.                *)
LEMMA NoPlaceIsNone == \A x \in Places : x # NoPlace
<1> SUFFICES ASSUME NEW x \in Places, x = NoPlace
             PROVE  FALSE
  OBVIOUS
<1>1. 11 \in x /\ 11 \notin 0 .. 10
  BY DEF NoPlace
<1> QED
  BY <1>1 DEF Places

(* The words of a block, in whatever spelling, give back the block.        *)
LEMMA BlockComesBack ==
  ASSUME NEW b \in Block, NEW words,
         \A i \in 1 .. 6 : words[i] \in AnyWord /\ words[i].i = BtoeBlock(b)[i].i
  PROVE  EtobBlock(words) = Bytes(b)
<1> DEFINE idx == Idx(words)
           f == Filled(idx)
           s == Loaded(b)
<1>1. \A i \in 1 .. 6 : words[i].i \in Places /\ words[i].i # NoPlace
  BY BtoeBlockIs, NoPlaceIsNone
<1>2. /\ \A i \in 1 .. 6 : idx[i] \in Places
      /\ EtobBlock(words) = IF Parity(f) # Extract(f, 64, 2) THEN NoBytes("parity")
                            ELSE Bytes([i \in 1 .. 8 |-> f[i - 1]])
  BY <1>1, EtobBlockIs
<1>3. \A i \in 1 .. 6 : idx[i] = BtoeBlock(b)[i].i
  BY DEF Idx
<1> HIDE DEF idx
<1>4. f \in Buffer /\ \A k \in 0 .. 65 : Bit(f, k) <=> 10 - (k % 11) \in idx[k \div 11 + 1]
  BY <1>2, FilledIs
<1>5. /\ s \in Buffer
      /\ \A k \in 0 .. 63 : Bit(s, k) <=> 7 - (k % 8) \in b[k \div 8 + 1]
      /\ \A k \in 0 .. 65 : 10 - (k % 11) \in BtoeBlock(b)[k \div 11 + 1].i <=>
           IF k < 64 THEN Bit(s, k) ELSE 65 - k \in Parity(s)
  BY BtoeBlockIs
<1> HIDE DEF f, s
<1>6. \A k \in 0 .. 65 : Bit(f, k) <=> IF k < 64 THEN Bit(s, k) ELSE 65 - k \in Parity(s)
  <2> SUFFICES ASSUME NEW k \in 0 .. 65
               PROVE  Bit(f, k) <=> IF k < 64 THEN Bit(s, k) ELSE 65 - k \in Parity(s)
    OBVIOUS
  <2>1. k \div 11 + 1 \in 1 .. 6
    OBVIOUS
  <2>2. idx[k \div 11 + 1] = BtoeBlock(b)[k \div 11 + 1].i
    BY <1>3, <2>1
  <2> QED
    BY <1>4, <1>5, <2>2
<1>7. Parity(f) = Parity(s)
  <2>1. \A k \in 0 .. 63 : Bit(f, k) <=> Bit(s, k)
    BY <1>6
  <2> QED
    BY <1>4, <1>5, <2>1, ParityTells
<1>8. Extract(f, 64, 2) = Parity(s)
  <2>1. 64 \in 0 .. 64 /\ 2 \in 1 .. 11
    OBVIOUS
  <2>2. /\ Extract(f, 64, 2) \subseteq 0 .. 2 - 1
        /\ \A n \in 0 .. 2 - 1 : n \in Extract(f, 64, 2) <=> Bit(f, 64 + 2 - 1 - n)
    BY <1>4, <2>1, ExtractIs, Zenon
  <2>3. \A n \in 0 .. 1 : n \in Extract(f, 64, 2) <=> n \in Parity(s)
    <3> SUFFICES ASSUME NEW n \in 0 .. 1
                 PROVE  n \in Extract(f, 64, 2) <=> n \in Parity(s)
      OBVIOUS
    <3>1. 64 + 2 - 1 - n \in 0 .. 65 /\ ~(64 + 2 - 1 - n < 64) /\ 65 - (64 + 2 - 1 - n) = n
      OBVIOUS
    <3>2. Bit(f, 64 + 2 - 1 - n) <=> n \in Parity(s)
      BY <1>6, <3>1
    <3>3. n \in Extract(f, 64, 2) <=> Bit(f, 64 + 2 - 1 - n)
      BY <2>2
    <3> QED
      BY <3>2, <3>3
  <2>4. Parity(s) \subseteq 0 .. 1
    BY <1>5, ParityIs
  <2> QED
    BY <2>2, <2>3, <2>4
<1>9. [i \in 1 .. 8 |-> f[i - 1]] = b
  <2>1. ASSUME NEW i \in 1 .. 8
        PROVE  f[i - 1] = b[i]
    <3>1. f[i - 1] \subseteq 0 .. 7 /\ b[i] \subseteq 0 .. 7
      BY <1>4 DEF Buffer, Block, Byte
    <3>2. ASSUME NEW n \in 0 .. 7
          PROVE  n \in f[i - 1] <=> n \in b[i]
      <4> DEFINE k == 8 * (i - 1) + 7 - n
      <4>1. k \in 0 .. 63 /\ k \in 0 .. 65 /\ 7 - (k % 8) = n /\ k \div 8 = i - 1 /\ k < 64
            /\ k \div 8 + 1 = i
        OBVIOUS
      <4> HIDE DEF k
      <4>2. Bit(f, k) <=> n \in f[i - 1]
        BY <4>1 DEF Bit
      <4>3. Bit(s, k) <=> n \in b[i]
        BY <1>5, <4>1
      <4>4. Bit(f, k) <=> Bit(s, k)
        BY <1>6, <4>1
      <4> QED
        BY <4>2, <4>3, <4>4
    <3> QED
      BY <3>1, <3>2
  <2> QED
    BY <2>1 DEF Block
<1> QED
  BY <1>2, <1>7, <1>8, <1>9

(* Words that are accepted are the words of the block they give.           *)
LEMMA AcceptedIsWritten ==
  ASSUME NEW words, \A i \in 1 .. 6 : words[i] \in AnyWord,
         EtobBlock(words).why = "done"
  PROVE  /\ EtobBlock(words).bytes \in Block
         /\ BtoeBlock(EtobBlock(words).bytes) = [i \in 1 .. 6 |-> Standard(words[i])]
<1> DEFINE idx == Idx(words)
           f == Filled(idx)
           b == [i \in 1 .. 8 |-> f[i - 1]]
           s == Loaded(b)
<1>1. \A i \in 1 .. 6 : words[i].i # NoPlace
  <2>1. (\E i \in 1 .. 6 : words[i].i = NoPlace) => EtobBlock(words) = NoBytes("word")
    BY EtobBlockIs, Zenon
  <2>2. NoBytes("word").why # "done"
    BY DEF NoBytes
  <2> QED
    BY <2>1, <2>2
<1>2. /\ \A i \in 1 .. 6 : idx[i] \in Places
      /\ EtobBlock(words) = IF Parity(f) # Extract(f, 64, 2) THEN NoBytes("parity")
                            ELSE Bytes([i \in 1 .. 8 |-> f[i - 1]])
  BY <1>1, EtobBlockIs
<1>3. Parity(f) = Extract(f, 64, 2) /\ EtobBlock(words).bytes = b
  BY <1>2 DEF NoBytes, Bytes
<1>4. f \in Buffer /\ \A k \in 0 .. 65 : Bit(f, k) <=> 10 - (k % 11) \in idx[k \div 11 + 1]
  BY <1>2, FilledIs
<1>5. \A i \in 1 .. 6 : idx[i] = words[i].i /\ Standard(words[i]) = Word(idx[i], "upper")
  BY DEF Idx, Standard, AnyWord, Word
<1> HIDE DEF idx, f
<1>6. b \in Block
  BY <1>4 DEF Block, Buffer
<1>7. /\ s \in Buffer
      /\ \A k \in 0 .. 63 : Bit(s, k) <=> 7 - (k % 8) \in b[k \div 8 + 1]
      /\ BtoeBlock(b) = [i \in 1 .. 6 |-> Word(BtoeBlock(b)[i].i, "upper")]
      /\ \A i \in 1 .. 6 : BtoeBlock(b)[i].i \in Places
      /\ \A k \in 0 .. 65 : 10 - (k % 11) \in BtoeBlock(b)[k \div 11 + 1].i <=>
           IF k < 64 THEN Bit(s, k) ELSE 65 - k \in Parity(s)
  BY <1>6, BtoeBlockIs
<1>8. \A k \in 0 .. 63 : Bit(s, k) <=> Bit(f, k)
  <2> SUFFICES ASSUME NEW k \in 0 .. 63
               PROVE  Bit(s, k) <=> Bit(f, k)
    OBVIOUS
  <2>1. k \div 8 + 1 \in 1 .. 8 /\ k \div 8 + 1 - 1 = k \div 8
    OBVIOUS
  <2>2. b[k \div 8 + 1] = f[k \div 8]
    BY <2>1
  <2> QED
    BY <1>7, <2>2 DEF Bit
<1> HIDE DEF s, b
<1>9. Parity(s) = Extract(f, 64, 2)
  BY <1>3, <1>4, <1>7, <1>8, ParityTells
<1>10. ASSUME NEW k \in 0 .. 65
       PROVE  10 - (k % 11) \in BtoeBlock(b)[k \div 11 + 1].i <=> 10 - (k % 11) \in idx[k \div 11 + 1]
  <2>1. CASE k < 64
    BY <1>4, <1>7, <1>8, <2>1
  <2>2. CASE ~(k < 64)
    <3>1. 64 \in 0 .. 64 /\ 2 \in 1 .. 11 /\ 65 - k \in 0 .. 2 - 1 /\ 64 + 2 - 1 - (65 - k) = k
      BY <2>2
    <3>2. \A n \in 0 .. 2 - 1 : n \in Extract(f, 64, 2) <=> Bit(f, 64 + 2 - 1 - n)
      BY <1>4, <3>1, ExtractIs, Zenon
    <3>3. 65 - k \in Extract(f, 64, 2) <=> Bit(f, k)
      BY <3>1, <3>2
    <3> QED
      BY <1>4, <1>7, <1>9, <2>2, <3>3
  <2> QED
    BY <2>1, <2>2
<1>11. ASSUME NEW i \in 1 .. 6
       PROVE  BtoeBlock(b)[i].i = idx[i]
  <2>1. BtoeBlock(b)[i].i \subseteq 0 .. 10 /\ idx[i] \subseteq 0 .. 10
    BY <1>2, <1>7 DEF Places
  <2>2. ASSUME NEW n \in 0 .. 10
        PROVE  n \in BtoeBlock(b)[i].i <=> n \in idx[i]
    <3> DEFINE k == 11 * (i - 1) + 10 - n
    <3>1. k \in 0 .. 65 /\ 10 - (k % 11) = n /\ k \div 11 + 1 = i
      OBVIOUS
    <3> HIDE DEF k
    <3>2. 10 - (k % 11) \in BtoeBlock(b)[k \div 11 + 1].i <=> 10 - (k % 11) \in idx[k \div 11 + 1]
      BY <1>10, <3>1
    <3> QED
      BY <3>1, <3>2
  <2> QED
    BY <2>1, <2>2
<1>12. BtoeBlock(b) = [i \in 1 .. 6 |-> Standard(words[i])]
  BY <1>5, <1>7, <1>11
<1> QED
  BY <1>3, <1>6, <1>12

(* One wrong bit in the words of a block is noticed, wherever it is.       *)
LEMMA WrongBitIsNoticed ==
  ASSUME NEW b \in Block, NEW words, NEW j \in 1 .. 6, NEW m \in 0 .. 10,
         \A i \in 1 .. 6 : words[i] \in AnyWord,
         \A i \in (1 .. 6) \ {j} : words[i].i = BtoeBlock(b)[i].i,
         words[j].i = IF m \in BtoeBlock(b)[j].i THEN BtoeBlock(b)[j].i \ {m}
                      ELSE BtoeBlock(b)[j].i \cup {m}
  PROVE  EtobBlock(words).why # "done"
<1> SUFFICES ASSUME EtobBlock(words).why = "done"
             PROVE  FALSE
  OBVIOUS
<1> DEFINE c == EtobBlock(words).bytes
           s == Loaded(b)
           t == Loaded(c)
           q == 11 * (j - 1) + 10 - m
<1>1. c \in Block /\ BtoeBlock(c) = [i \in 1 .. 6 |-> Standard(words[i])]
  BY AcceptedIsWritten
<1>2. \A i \in 1 .. 6 : BtoeBlock(c)[i].i = words[i].i
  BY <1>1 DEF Standard, AnyWord
<1>3. /\ s \in Buffer
      /\ \A k \in 0 .. 65 : 10 - (k % 11) \in BtoeBlock(b)[k \div 11 + 1].i <=>
           IF k < 64 THEN Bit(s, k) ELSE 65 - k \in Parity(s)
  BY BtoeBlockIs
<1> HIDE DEF c
<1>4. /\ t \in Buffer
      /\ \A k \in 0 .. 65 : 10 - (k % 11) \in BtoeBlock(c)[k \div 11 + 1].i <=>
           IF k < 64 THEN Bit(t, k) ELSE 65 - k \in Parity(t)
  BY <1>1, BtoeBlockIs
<1> HIDE DEF s, t
<1>5. q \in 0 .. 65 /\ 10 - (q % 11) = m /\ q \div 11 + 1 = j
  OBVIOUS
<1>6. ASSUME NEW k \in 0 .. 65
      PROVE  (10 - (k % 11) \in BtoeBlock(c)[k \div 11 + 1].i
                <=> 10 - (k % 11) \in BtoeBlock(b)[k \div 11 + 1].i) <=> k # q
  <2> DEFINE i == k \div 11 + 1
             n == 10 - (k % 11)
  <2>1. i \in 1 .. 6 /\ n \in 0 .. 10 /\ k = 11 * (i - 1) + 10 - n
    OBVIOUS
  <2>2. k = q <=> i = j /\ n = m
    BY <2>1
  <2> HIDE DEF i, n, q
  <2>3. (n \in BtoeBlock(c)[i].i <=> n \in BtoeBlock(b)[i].i) <=> ~(i = j /\ n = m)
    <3>1. CASE i = j
      BY <1>2, <2>1, <3>1
    <3>2. CASE i # j
      BY <1>2, <2>1, <3>2
    <3> QED
      BY <3>1, <3>2
  <2> QED
    BY <2>2, <2>3 DEF i, n
<1> HIDE DEF q
<1>7. CASE q < 64
  <2>1. q \in 0 .. 63
    BY <1>5, <1>7
  <2>2. Bit(t, q) <=> ~Bit(s, q)
    BY <1>3, <1>4, <1>5, <1>6, <1>7
  <2>3. \A k \in (0 .. 63) \ {q} : Bit(t, k) <=> Bit(s, k)
    <3> SUFFICES ASSUME NEW k \in (0 .. 63) \ {q}
                 PROVE  Bit(t, k) <=> Bit(s, k)
      OBVIOUS
    <3>1. k \in 0 .. 65 /\ k < 64 /\ k # q
      OBVIOUS
    <3> QED
      BY <1>3, <1>4, <1>6, <3>1
  <2>4. Parity(t) # Parity(s)
    BY <1>3, <1>4, <2>1, <2>2, <2>3, ParityTells
  <2>5. \A n \in 0 .. 1 : n \in Parity(t) <=> n \in Parity(s)
    <3> SUFFICES ASSUME NEW n \in 0 .. 1
                 PROVE  n \in Parity(t) <=> n \in Parity(s)
      OBVIOUS
    <3>1. 65 - n \in 0 .. 65 /\ ~(65 - n < 64) /\ 65 - n # q /\ 65 - (65 - n) = n
      BY <1>7
    <3> QED
      BY <1>3, <1>4, <1>6, <3>1
  <2>6. Parity(t) \subseteq 0 .. 1 /\ Parity(s) \subseteq 0 .. 1
    BY <1>3, <1>4, ParityIs
  <2> QED
    BY <2>4, <2>5, <2>6
<1>8. CASE ~(q < 64)
  <2>1. \A k \in 0 .. 63 : Bit(t, k) <=> Bit(s, k)
    <3> SUFFICES ASSUME NEW k \in 0 .. 63
                 PROVE  Bit(t, k) <=> Bit(s, k)
      OBVIOUS
    <3>1. k \in 0 .. 65 /\ k < 64 /\ k # q
      BY <1>8
    <3> QED
      BY <1>3, <1>4, <1>6, <3>1
  <2>2. Parity(t) = Parity(s)
    BY <1>3, <1>4, <2>1, ParityTells
  <2>3. 65 - q \in Parity(t) <=> ~(65 - q \in Parity(s))
    BY <1>3, <1>4, <1>5, <1>6, <1>8
  <2> QED
    BY <2>2, <2>3
<1> QED
  BY <1>7, <1>8

-----------------------------------------------------------------------------
(* Keys and phrases                                                        *)

(* A group of a sequence, and where an element is in its group.            *)
LEMMA GroupIs ==
  ASSUME NEW S, NEW s \in Seq(S), NEW n \in {6, 8}, NEW m \in Nat, Len(s) = n * m
  PROVE  /\ \A g \in 1 .. m : /\ Group(s, n, g) \in [1 .. n -> S]
                              /\ \A j \in 1 .. n : Group(s, n, g)[j] = s[n * (g - 1) + j]
         /\ \A i \in 1 .. n * m : /\ (i - 1) \div n + 1 \in 1 .. m
                                  /\ ((i - 1) % n) + 1 \in 1 .. n
                                  /\ n * ((i - 1) \div n + 1 - 1) + ((i - 1) % n) + 1 = i
<1>1. ASSUME NEW g \in 1 .. m
      PROVE  /\ Group(s, n, g) \in [1 .. n -> S]
             /\ \A j \in 1 .. n : Group(s, n, g)[j] = s[n * (g - 1) + j]
  <2>1. /\ n * (g - 1) + 1 \in 1 .. Len(s) + 1 /\ n * g \in n * (g - 1) .. Len(s)
        /\ n * g - (n * (g - 1) + 1) + 1 = n
    BY SMTT(20)
  <2>2. /\ Group(s, n, g) \in Seq(S) /\ Len(Group(s, n, g)) = n
        /\ \A j \in 1 .. n : Group(s, n, g)[j] = s[n * (g - 1) + 1 + j - 1]
    BY <2>1, SubSeqProperties DEF Group
  <2> QED
    BY <2>2, SeqDef
<1>2. ASSUME NEW i \in 1 .. n * m
      PROVE  /\ (i - 1) \div n + 1 \in 1 .. m
             /\ ((i - 1) % n) + 1 \in 1 .. n
             /\ n * ((i - 1) \div n + 1 - 1) + ((i - 1) % n) + 1 = i
  <2>1. CASE n = 6
    BY <1>2, <2>1
  <2>2. CASE n = 8
    BY <1>2, <2>2
  <2> QED
    BY <2>1, <2>2
<1> QED
  BY <1>1, <1>2

(* What is in whole groups is not empty, and so many times the group.      *)
LEMMA WholeGroupsAre ==
  ASSUME NEW S, NEW s \in Seq(S), NEW n \in {6, 8}
  PROVE  /\ WholeGroups(s, n) => /\ Len(s) \div n \in Nat /\ Len(s) \div n >= 1
                                 /\ Len(s) = n * (Len(s) \div n)
         /\ \A m \in Nat : m >= 1 /\ Len(s) = n * m => WholeGroups(s, n) /\ Len(s) \div n = m
<1>1. Len(s) \in Nat /\ (s = <<>> <=> Len(s) = 0)
  BY EmptySeq
<1>2. CASE n = 6
  BY <1>1, <1>2 DEF WholeGroups
<1>3. CASE n = 8
  BY <1>1, <1>3 DEF WholeGroups
<1> QED
  BY <1>2, <1>3

(* btoe writes the words of each block in turn.                            *)
LEMMA BtoeBytesIs ==
  ASSUME NEW b \in Seq(Byte), NEW m \in Nat, m >= 1, Len(b) = 8 * m
  PROVE  /\ BtoeBytes(b) \in Seq(AnyWord) /\ Len(BtoeBytes(b)) = 6 * m
         /\ DOMAIN BtoeBytes(b) = 1 .. 6 * m
         /\ \A g \in 1 .. m :
              /\ Group(b, 8, g) \in Block
              /\ \A j \in 1 .. 6 : BtoeBytes(b)[6 * (g - 1) + j] = BtoeBlock(Group(b, 8, g))[j]
<1> DEFINE blocks == [g \in 1 .. m |-> BtoeBlock(Group(b, 8, g))]
           p == [i \in 1 .. 6 * m |-> blocks[(i - 1) \div 6 + 1][((i - 1) % 6) + 1]]
<1>1. Len(b) \div 8 = m
  BY WholeGroupsAre
<1>2. BtoeBytes(b) = p
  BY <1>1 DEF BtoeBytes
<1>3. \A g \in 1 .. m : Group(b, 8, g) \in Block
  BY GroupIs DEF Block
<1>4. \A g \in 1 .. m : \A j \in 1 .. 6 : blocks[g][j] \in AnyWord
  <2> SUFFICES ASSUME NEW g \in 1 .. m, NEW j \in 1 .. 6
               PROVE  blocks[g][j] \in AnyWord
    OBVIOUS
  <2>1. blocks[g] = BtoeBlock(Group(b, 8, g)) /\ Group(b, 8, g) \in Block
    BY <1>3
  <2>2. /\ BtoeBlock(Group(b, 8, g))[j] = Word(BtoeBlock(Group(b, 8, g))[j].i, "upper")
        /\ BtoeBlock(Group(b, 8, g))[j].i \in Places
    BY <2>1, BtoeBlockIs
  <2> QED
    BY <2>1, <2>2 DEF AnyWord, Word, Spellings
<1> HIDE DEF blocks
<1>5. \A i \in 1 .. 6 * m : (i - 1) \div 6 + 1 \in 1 .. m /\ ((i - 1) % 6) + 1 \in 1 .. 6
  OBVIOUS
<1>6. p \in [1 .. 6 * m -> AnyWord]
  BY <1>4, <1>5
<1>7. p \in Seq(AnyWord) /\ Len(p) = 6 * m
  <2>1. 6 * m \in Nat
    OBVIOUS
  <2> HIDE DEF p
  <2> QED
    BY <1>6, <2>1, FunctionsAreSequences
<1>8. ASSUME NEW g \in 1 .. m, NEW j \in 1 .. 6
      PROVE  p[6 * (g - 1) + j] = BtoeBlock(Group(b, 8, g))[j]
  <2> DEFINE i == 6 * (g - 1) + j
  <2>1. i \in 1 .. 6 * m /\ (i - 1) \div 6 + 1 = g /\ ((i - 1) % 6) + 1 = j
    OBVIOUS
  <2> HIDE DEF i
  <2>2. p[i] = blocks[g][j]
    BY <2>1
  <2> QED
    BY <2>2 DEF i, blocks
<1> QED
  BY <1>2, <1>3, <1>6, <1>7, <1>8

(* etob reads the words block by block, and gives bytes if all are good.   *)
LEMMA EtobWordsIs ==
  ASSUME NEW w \in Seq(AnyWord), NEW m \in Nat, m >= 1, Len(w) = 6 * m
  PROVE  /\ \A g \in 1 .. m : /\ \A j \in 1 .. 6 : Group(w, 6, g)[j] \in AnyWord
                              /\ \A j \in 1 .. 6 : Group(w, 6, g)[j] = w[6 * (g - 1) + j]
         /\ (\E g \in 1 .. m : EtobBlock(Group(w, 6, g)).why # "done") =>
              EtobWords(w) = NoBytes("block")
         /\ (\A g \in 1 .. m : EtobBlock(Group(w, 6, g)).why = "done") =>
              /\ EtobWords(w) = Bytes(EtobWords(w).bytes)
              /\ EtobWords(w).bytes \in Seq(Byte)
              /\ Len(EtobWords(w).bytes) = 8 * m
              /\ \A g \in 1 .. m : \A j \in 1 .. 8 :
                   EtobWords(w).bytes[8 * (g - 1) + j] = EtobBlock(Group(w, 6, g)).bytes[j]
<1> DEFINE blocks == [g \in 1 .. m |-> EtobBlock(Group(w, 6, g))]
           p == [i \in 1 .. 8 * m |-> blocks[(i - 1) \div 8 + 1].bytes[((i - 1) % 8) + 1]]
<1>1. WholeGroups(w, 6) /\ Len(w) \div 6 = m
  BY WholeGroupsAre
<1>2. ASSUME NEW g \in 1 .. m
      PROVE  /\ \A j \in 1 .. 6 : Group(w, 6, g)[j] \in AnyWord
             /\ \A j \in 1 .. 6 : Group(w, 6, g)[j] = w[6 * (g - 1) + j]
  BY GroupIs
<1>3. Len(blocks) = m /\ DOMAIN blocks = 1 .. m
  <2> DEFINE S == {blocks[g] : g \in 1 .. m}
  <2>1. blocks \in [1 .. m -> S]
    OBVIOUS
  <2> HIDE DEF blocks, S
  <2> QED
    BY <2>1, FunctionsAreSequences
<1>4. EtobWords(w) = IF \E g \in DOMAIN blocks : blocks[g].why # "done" THEN NoBytes("block")
                     ELSE Bytes([i \in 1 .. 8 * Len(blocks) |->
                                   blocks[(i - 1) \div 8 + 1].bytes[((i - 1) % 8) + 1]])
  <2> DEFINE whole == [g \in 1 .. Len(w) \div 6 |-> EtobBlock(Group(w, 6, g))]
  <2>1. EtobWords(w) = IF \E g \in DOMAIN whole : whole[g].why # "done" THEN NoBytes("block")
                       ELSE Bytes([i \in 1 .. 8 * Len(whole) |->
                                     whole[(i - 1) \div 8 + 1].bytes[((i - 1) % 8) + 1]])
    BY <1>1, Zenon DEF EtobWords
  <2>2. whole = blocks
    BY <1>1
  <2> HIDE DEF whole, blocks
  <2> QED
    BY <2>1, <2>2
<1>5. \A g \in 1 .. m : blocks[g] = EtobBlock(Group(w, 6, g))
  OBVIOUS
<1> HIDE DEF blocks
<1>6. EtobWords(w) = IF \E g \in 1 .. m : EtobBlock(Group(w, 6, g)).why # "done"
                     THEN NoBytes("block") ELSE Bytes(p)
  BY <1>3, <1>4, <1>5
<1>7. ASSUME \A g \in 1 .. m : EtobBlock(Group(w, 6, g)).why = "done"
      PROVE  /\ EtobWords(w) = Bytes(EtobWords(w).bytes)
             /\ EtobWords(w).bytes \in Seq(Byte)
             /\ Len(EtobWords(w).bytes) = 8 * m
             /\ \A g \in 1 .. m : \A j \in 1 .. 8 :
                  EtobWords(w).bytes[8 * (g - 1) + j] = EtobBlock(Group(w, 6, g)).bytes[j]
  <2>1. EtobWords(w) = Bytes(p) /\ EtobWords(w).bytes = p
    BY <1>6, <1>7 DEF Bytes
  <2>2. \A g \in 1 .. m : blocks[g].bytes \in Block
    BY <1>2, <1>5, <1>7, AcceptedIsWritten
  <2>3. \A i \in 1 .. 8 * m : (i - 1) \div 8 + 1 \in 1 .. m /\ ((i - 1) % 8) + 1 \in 1 .. 8
    OBVIOUS
  <2>4. p \in [1 .. 8 * m -> Byte]
    BY <2>2, <2>3 DEF Block
  <2>5. p \in Seq(Byte) /\ Len(p) = 8 * m
    <3>1. 8 * m \in Nat
      OBVIOUS
    <3> HIDE DEF p
    <3> QED
      BY <2>4, <3>1, FunctionsAreSequences
  <2>6. ASSUME NEW g \in 1 .. m, NEW j \in 1 .. 8
        PROVE  p[8 * (g - 1) + j] = EtobBlock(Group(w, 6, g)).bytes[j]
    <3> DEFINE i == 8 * (g - 1) + j
    <3>1. i \in 1 .. 8 * m /\ (i - 1) \div 8 + 1 = g /\ ((i - 1) % 8) + 1 = j
      OBVIOUS
    <3> HIDE DEF i
    <3>2. p[i] = blocks[g].bytes[j]
      BY <3>1
    <3> QED
      BY <1>5, <3>2 DEF i
  <2> HIDE DEF p
  <2> QED
    BY <2>1, <2>5, <2>6
<1> QED
  BY <1>2, <1>6, <1>7

(* Where a byte of a key is.                                               *)
LEMMA EightAtATime ==
  ASSUME NEW m \in Nat, NEW i \in 1 .. 8 * m
  PROVE  \E g \in 1 .. m : \E j \in 1 .. 8 : 8 * (g - 1) + j = i
<1> DEFINE g == (i - 1) \div 8 + 1
           j == ((i - 1) % 8) + 1
<1>1. g \in 1 .. m /\ j \in 1 .. 8 /\ 8 * (g - 1) + j = i
  OBVIOUS
<1> HIDE DEF g, j
<1> QED
  BY <1>1, Zenon

(* The bytes of a block in a key.                                          *)
LEMMA KeyGroupIs ==
  ASSUME NEW b \in Seq(Byte), NEW m \in Nat, Len(b) = 8 * m
  PROVE  \A g \in 1 .. m : \A j \in 1 .. 8 : Group(b, 8, g)[j] = b[8 * (g - 1) + j]
<1> SUFFICES ASSUME NEW g \in 1 .. m
             PROVE  \A j \in 1 .. 8 : Group(b, 8, g)[j] = b[8 * (g - 1) + j]
  OBVIOUS
<1>1. /\ 8 * (g - 1) + 1 \in 1 .. Len(b) + 1 /\ 8 * g \in 8 * (g - 1) .. Len(b)
      /\ 8 * g - (8 * (g - 1) + 1) + 1 = 8
  OBVIOUS
<1>2. \A j \in 1 .. 8 : Group(b, 8, g)[j] = b[8 * (g - 1) + 1 + j - 1]
  BY <1>1, SubSeqProperties DEF Group
<1>3. \A j \in 1 .. 8 : 8 * (g - 1) + 1 + j - 1 = 8 * (g - 1) + j
  OBVIOUS
<1> QED
  BY <1>2, <1>3, Zenon

(* A phrase in any spelling gives back the key.                            *)
LEMMA KeyComesBack ==
  ASSUME NEW b \in Seq(Byte), NEW m \in Nat, m >= 1, Len(b) = 8 * m,
         NEW w \in Seq(AnyWord), Len(w) = 6 * m,
         \A i \in 1 .. 6 * m : w[i].i = BtoeBytes(b)[i].i
  PROVE  EtobWords(w) = Bytes(b)
<1> DEFINE r == EtobWords(w).bytes
<1>1. \A g \in 1 .. m :
        /\ Group(b, 8, g) \in Block
        /\ \A j \in 1 .. 6 : BtoeBytes(b)[6 * (g - 1) + j] = BtoeBlock(Group(b, 8, g))[j]
        /\ \A j \in 1 .. 8 : Group(b, 8, g)[j] = b[8 * (g - 1) + j]
  BY BtoeBytesIs, KeyGroupIs
<1>2. \A g \in 1 .. m : /\ \A j \in 1 .. 6 : Group(w, 6, g)[j] \in AnyWord
                        /\ \A j \in 1 .. 6 : Group(w, 6, g)[j] = w[6 * (g - 1) + j]
  BY EtobWordsIs
<1>3. ASSUME NEW g \in 1 .. m
      PROVE  EtobBlock(Group(w, 6, g)) = Bytes(Group(b, 8, g))
  <2>1. ASSUME NEW j \in 1 .. 6
        PROVE  /\ Group(w, 6, g)[j] \in AnyWord
               /\ Group(w, 6, g)[j].i = BtoeBlock(Group(b, 8, g))[j].i
    <3>1. 6 * (g - 1) + j \in 1 .. 6 * m
      OBVIOUS
    <3>2. w[6 * (g - 1) + j].i = BtoeBytes(b)[6 * (g - 1) + j].i
      BY <3>1
    <3> QED
      BY <1>1, <1>2, <3>2
  <2> QED
    BY <1>1, <2>1, BlockComesBack
<1>4. \A g \in 1 .. m : EtobBlock(Group(w, 6, g)).why = "done"
  BY <1>3 DEF Bytes
<1>5. /\ EtobWords(w) = Bytes(r) /\ r \in Seq(Byte) /\ Len(r) = 8 * m
      /\ \A g \in 1 .. m : \A j \in 1 .. 8 :
           r[8 * (g - 1) + j] = EtobBlock(Group(w, 6, g)).bytes[j]
  BY <1>4, EtobWordsIs
<1> HIDE DEF r
<1>6. ASSUME NEW i \in 1 .. 8 * m
      PROVE  r[i] = b[i]
  <2>1. PICK g \in 1 .. m : \E j \in 1 .. 8 : 8 * (g - 1) + j = i
    BY <1>6, EightAtATime, Zenon
  <2>2. PICK j \in 1 .. 8 : 8 * (g - 1) + j = i
    BY <2>1, Zenon
  <2>3. EtobBlock(Group(w, 6, g)).bytes = Group(b, 8, g)
    BY <1>3 DEF Bytes
  <2>4. r[8 * (g - 1) + j] = EtobBlock(Group(w, 6, g)).bytes[j]
    BY <1>5, Zenon
  <2>5. Group(b, 8, g)[j] = b[8 * (g - 1) + j]
    BY <1>1, Zenon
  <2> QED
    BY <2>2, <2>3, <2>4, <2>5, Zenon
<1>7. r = b
  <2>1. r = [i \in 1 .. 8 * m |-> r[i]] /\ b = [i \in 1 .. 8 * m |-> b[i]]
    BY <1>5, SeqDef
  <2> QED
    BY <1>6, <2>1
<1> QED
  BY <1>5, <1>7

(* One wrong bit in a phrase is noticed, and so is one word that does not  *)
(* exist.                                                                  *)
LEMMA SlipIsNoticed ==
  ASSUME NEW b \in Seq(Byte), NEW m \in Nat, m >= 1, Len(b) = 8 * m,
         NEW w \in Seq(AnyWord), Len(w) = 6 * m, NEW at \in 1 .. 6 * m,
         \/ w[at].i = NoPlace
         \/ /\ \A i \in (1 .. 6 * m) \ {at} : w[i].i = BtoeBytes(b)[i].i
            /\ \E n \in 0 .. 10 :
                 w[at].i = IF n \in BtoeBytes(b)[at].i THEN BtoeBytes(b)[at].i \ {n}
                           ELSE BtoeBytes(b)[at].i \cup {n}
  PROVE  EtobWords(w).why # "done"
<1> DEFINE g == (at - 1) \div 6 + 1
           j == ((at - 1) % 6) + 1
           words == Group(w, 6, g)
           block == Group(b, 8, g)
<1>1. g \in 1 .. m /\ j \in 1 .. 6 /\ 6 * (g - 1) + j = at
  <2> DEFINE q == (at - 1) \div 6
             r == (at - 1) % 6
  <2>1. at - 1 \in Nat /\ at - 1 < 6 * m
    OBVIOUS
  <2>2. q \in Int /\ r \in 0 .. 5 /\ at - 1 = 6 * q + r
    BY <2>1, SMT
  <2>3. g = q + 1 /\ j = r + 1
    OBVIOUS
  <2> HIDE DEF g, j, q, r
  <2>4. q \in Int /\ r \in Int /\ r >= 0 /\ r <= 5
    BY <2>2
  <2>5. q >= 0 /\ q < m
    BY <2>1, <2>2, <2>4
  <2>6. q + 1 \in 1 .. m /\ r + 1 \in 1 .. 6
    BY <2>4, <2>5
  <2>7. 6 * (g - 1) + j = at
    BY <2>1, <2>2, <2>3, <2>4
  <2> QED
    BY <2>3, <2>6, <2>7, Zenon
<1> HIDE DEF g, j
<1>2. /\ block \in Block
      /\ \A k \in 1 .. 6 : BtoeBytes(b)[6 * (g - 1) + k] = BtoeBlock(block)[k]
  BY <1>1, BtoeBytesIs
<1>3. /\ \A k \in 1 .. 6 : words[k] \in AnyWord
      /\ \A k \in 1 .. 6 : words[k] = w[6 * (g - 1) + k]
  BY <1>1, EtobWordsIs
<1> HIDE DEF words, block
<1>4. EtobBlock(words).why # "done"
  <2>1. CASE w[at].i = NoPlace
    <3>1. words[j].i = NoPlace
      BY <1>1, <1>3, <2>1
    <3>2. (\E k \in 1 .. 6 : words[k].i = NoPlace) => EtobBlock(words) = NoBytes("word")
      BY <1>3, EtobBlockIs, Zenon
    <3>3. NoBytes("word").why # "done"
      BY DEF NoBytes
    <3> QED
      BY <1>1, <3>1, <3>2, <3>3
  <2>2. CASE w[at].i # NoPlace
    <3>1. PICK n \in 0 .. 10 :
            w[at].i = IF n \in BtoeBytes(b)[at].i THEN BtoeBytes(b)[at].i \ {n}
                      ELSE BtoeBytes(b)[at].i \cup {n}
      BY <2>2
    <3>2. BtoeBytes(b)[at] = BtoeBlock(block)[j] /\ words[j] = w[at]
      BY <1>1, <1>2, <1>3
    <3>3. words[j].i = IF n \in BtoeBlock(block)[j].i THEN BtoeBlock(block)[j].i \ {n}
                       ELSE BtoeBlock(block)[j].i \cup {n}
      BY <3>1, <3>2
    <3>4. \A k \in (1 .. 6) \ {j} : words[k].i = BtoeBlock(block)[k].i
      <4>h. \A i \in (1 .. 6 * m) \ {at} : w[i].i = BtoeBytes(b)[i].i
        BY <2>2
      <4> SUFFICES ASSUME NEW k \in (1 .. 6) \ {j}
                   PROVE  words[k].i = BtoeBlock(block)[k].i
        OBVIOUS
      <4>1. 6 * (g - 1) + k \in (1 .. 6 * m) \ {at}
        BY <1>1
      <4>2. w[6 * (g - 1) + k].i = BtoeBytes(b)[6 * (g - 1) + k].i
        BY <4>h, <4>1, Zenon
      <4> QED
        BY <1>2, <1>3, <4>2
    <3>5. \A x \in Block : \A u : \A i \in 1 .. 6, k \in 0 .. 10 :
            /\ \A h \in 1 .. 6 : u[h] \in AnyWord
            /\ \A h \in (1 .. 6) \ {i} : u[h].i = BtoeBlock(x)[h].i
            /\ u[i].i = IF k \in BtoeBlock(x)[i].i THEN BtoeBlock(x)[i].i \ {k}
                        ELSE BtoeBlock(x)[i].i \cup {k}
            => EtobBlock(u).why # "done"
      BY WrongBitIsNoticed, Zenon
    <3> QED
      <4>1. block \in Block /\ \A h \in 1 .. 6 : words[h] \in AnyWord
        BY <1>2, <1>3
      <4>2. j \in 1 .. 6 /\ n \in 0 .. 10
        BY <1>1, <3>1
      <4> QED
        BY <4>1, <4>2, <3>3, <3>4, <3>5, Zenon
  <2> QED
    BY <2>1, <2>2
<1>5. EtobWords(w) = NoBytes("block")
  <2>1. \E k \in 1 .. m : EtobBlock(Group(w, 6, k)).why # "done"
    BY <1>1, <1>4 DEF words
  <2> QED
    BY <2>1, EtobWordsIs
<1> QED
  BY <1>5 DEF NoBytes

(* The words that are accepted are the words of the bytes they give.       *)
LEMMA AcceptedPhrase ==
  ASSUME NEW w \in Seq(AnyWord), NEW m \in Nat, m >= 1, Len(w) = 6 * m,
         EtobWords(w).why = "done"
  PROVE  BtoeBytes(EtobWords(w).bytes) = [i \in DOMAIN w |-> Standard(w[i])]
<1> DEFINE r == EtobWords(w).bytes
           p == BtoeBytes(r)
<1>1. \A g \in 1 .. m : /\ \A j \in 1 .. 6 : Group(w, 6, g)[j] \in AnyWord
                        /\ \A j \in 1 .. 6 : Group(w, 6, g)[j] = w[6 * (g - 1) + j]
  BY EtobWordsIs, Zenon
<1>2. \A g \in 1 .. m : EtobBlock(Group(w, 6, g)).why = "done"
  <2>1. (\E g \in 1 .. m : EtobBlock(Group(w, 6, g)).why # "done") => EtobWords(w) = NoBytes("block")
    BY EtobWordsIs, Zenon
  <2>2. NoBytes("block").why # "done"
    BY DEF NoBytes
  <2>3. EtobWords(w) # NoBytes("block")
    BY <2>2, Zenon
  <2> QED
    BY <2>1, <2>3, Zenon
<1>3. /\ r \in Seq(Byte) /\ Len(r) = 8 * m
      /\ \A g \in 1 .. m : \A j \in 1 .. 8 :
           r[8 * (g - 1) + j] = EtobBlock(Group(w, 6, g)).bytes[j]
  BY <1>2, EtobWordsIs
<1>4. ASSUME NEW g \in 1 .. m
      PROVE  /\ EtobBlock(Group(w, 6, g)).bytes \in Block
             /\ BtoeBlock(EtobBlock(Group(w, 6, g)).bytes) =
                  [i \in 1 .. 6 |-> Standard(Group(w, 6, g)[i])]
  BY <1>1, <1>2, AcceptedIsWritten
<1> HIDE DEF r
<1>5. /\ Len(p) = 6 * m /\ p \in Seq(AnyWord) /\ DOMAIN p = 1 .. 6 * m
      /\ \A g \in 1 .. m :
           /\ Group(r, 8, g) \in Block
           /\ \A j \in 1 .. 6 : p[6 * (g - 1) + j] = BtoeBlock(Group(r, 8, g))[j]
           /\ \A j \in 1 .. 8 : Group(r, 8, g)[j] = r[8 * (g - 1) + j]
  BY <1>3, BtoeBytesIs, KeyGroupIs
<1>6. ASSUME NEW g \in 1 .. m
      PROVE  Group(r, 8, g) = EtobBlock(Group(w, 6, g)).bytes
  <2> DEFINE x == Group(r, 8, g)
             y == EtobBlock(Group(w, 6, g)).bytes
  <2>1. \A j \in 1 .. 8 : x[j] = y[j]
    BY <1>3, <1>5
  <2>2. x \in [1 .. 8 -> Byte] /\ y \in [1 .. 8 -> Byte]
    BY <1>4, <1>5 DEF Block
  <2> HIDE DEF x, y
  <2>3. x = y
    BY <2>1, <2>2
  <2> QED
    BY <2>3 DEF x, y
<1> HIDE DEF p
<1>7. ASSUME NEW i \in 1 .. 6 * m
      PROVE  p[i] = Standard(w[i])
  <2> DEFINE g == (i - 1) \div 6 + 1
             j == ((i - 1) % 6) + 1
  <2>1. g \in 1 .. m /\ j \in 1 .. 6 /\ 6 * (g - 1) + j = i
    OBVIOUS
  <2> HIDE DEF g, j
  <2>2. p[i] = BtoeBlock(EtobBlock(Group(w, 6, g)).bytes)[j]
    BY <1>5, <1>6, <2>1
  <2>3. p[i] = Standard(Group(w, 6, g)[j])
    BY <1>4, <2>1, <2>2
  <2> QED
    BY <1>1, <2>1, <2>3
<1>8. DOMAIN w = 1 .. 6 * m
  BY SeqDef
<1>9. p = [i \in 1 .. 6 * m |-> p[i]]
  BY <1>5, SeqDef
<1>10. p = [i \in DOMAIN w |-> Standard(w[i])]
  BY <1>7, <1>8, <1>9
<1> QED
  BY <1>10 DEF p, r

-----------------------------------------------------------------------------
(* btoe and etob                                                           *)

(* What was typed is the phrase with the one thing wrong that slip says.   *)
TypedInv ==
  \/ /\ slip = "none"
     /\ \E f \in Spellings : typed = [i \in DOMAIN phrase |-> Word(phrase[i].i, f)]
  \/ /\ slip = "bit"
     /\ \E i \in DOMAIN phrase, n \in 0 .. 10 :
          typed = [phrase EXCEPT ![i].i = IF n \in @ THEN @ \ {n} ELSE @ \cup {n}]
  \/ /\ slip = "no such word"
     /\ \E i \in DOMAIN phrase : typed = [phrase EXCEPT ![i].i = NoPlace]
  \/ slip = "missing" /\ typed = SubSeq(phrase, 1, Len(phrase) - 1)
  \/ /\ slip = "swapped"
     /\ \E i \in 1 .. Len(phrase) - 1 :
          typed = [phrase EXCEPT ![i] = phrase[i + 1], ![i + 1] = phrase[i]]

(* The inductive invariant: the phrase is btoe's answer for a key of whole *)
(* blocks, and what was restored is etob's answer for what was typed.      *)
KeyInv ==
  /\ key \in Keys
  /\ phrase # NoPhrase => WholeGroups(key, 8) /\ phrase = BtoeBytes(key)
  /\ typed # NoPhrase => phrase # NoPhrase /\ TypedInv
  /\ restored # NoBytes("none") => typed # NoPhrase /\ restored = EtobWords(typed)

LEMMA KeyInductive == Rfc1751Spec => []KeyInv
<1>1. Rfc1751Init => KeyInv
  BY DEF Rfc1751Init, KeyInv
<1>2. KeyInv /\ [Rfc1751Next]_rfc1751Vars => KeyInv'
  <2> SUFFICES ASSUME KeyInv, [Rfc1751Next]_rfc1751Vars
               PROVE  KeyInv'
    OBVIOUS
  <2>1. CASE Btoe
    <3>1. typed' = NoPhrase /\ restored' = NoBytes("none")
      BY <2>1 DEF KeyInv, Btoe
    <3> QED
      BY <2>1, <3>1 DEF KeyInv, Btoe, NoPhrase
  <2>2. CASE Typing
    <3>1. /\ phrase' = phrase /\ key' = key /\ phrase # NoPhrase
          /\ restored' = NoBytes("none")
      BY <2>2 DEF KeyInv, Typing
    <3>2. TypedInv'
      BY <2>2, <3>1, Zenon DEF Typing, TypedInv
    <3> QED
      BY <3>1, <3>2 DEF KeyInv, NoPhrase
  <2>3. CASE Etob
    <3>1. TypedInv' <=> TypedInv
      BY <2>3 DEF Etob, TypedInv
    <3> QED
      BY <2>3, <3>1 DEF KeyInv, Etob, NoPhrase
  <2>4. CASE UNCHANGED rfc1751Vars
    <3>1. TypedInv' <=> TypedInv
      BY <2>4 DEF rfc1751Vars, TypedInv
    <3> QED
      BY <2>4, <3>1 DEF KeyInv, rfc1751Vars, NoPhrase
  <2> QED
    BY <2>1, <2>2, <2>3, <2>4 DEF Rfc1751Next
<1> QED
  BY <1>1, <1>2, PTL DEF Rfc1751Spec

(* A key that was written down is some whole blocks, and its phrase six    *)
(* words for each, all of them in the dictionary.                          *)
Blocks == Len(key) \div 8

LEMMA WrittenIs ==
  ASSUME KeyInv, phrase # NoPhrase
  PROVE  /\ key \in Seq(Byte) /\ Blocks \in Nat /\ Blocks >= 1 /\ Len(key) = 8 * Blocks
         /\ phrase = BtoeBytes(key) /\ phrase \in Seq(AnyWord)
         /\ Len(phrase) = 6 * Blocks /\ DOMAIN phrase = 1 .. 6 * Blocks
         /\ \A g \in 1 .. Blocks :
              /\ Group(key, 8, g) \in Block
              /\ \A j \in 1 .. 6 : phrase[6 * (g - 1) + j] = BtoeBlock(Group(key, 8, g))[j]
         /\ \A i \in 1 .. 6 * Blocks : phrase[i].i \in Places
<1>1. key \in Seq(Byte) /\ WholeGroups(key, 8) /\ phrase = BtoeBytes(key)
  BY KeysAssumption DEF KeyInv
<1>2. Blocks \in Nat /\ Blocks >= 1 /\ Len(key) = 8 * Blocks
  <2>1. Len(key) \in Nat /\ Len(key) % 8 = 0 /\ Len(key) # 0
    BY <1>1, EmptySeq DEF WholeGroups
  <2> QED
    BY <2>1 DEF Blocks
<1> HIDE DEF Blocks
<1>3. /\ BtoeBytes(key) \in Seq(AnyWord) /\ Len(BtoeBytes(key)) = 6 * Blocks
      /\ DOMAIN BtoeBytes(key) = 1 .. 6 * Blocks
      /\ \A g \in 1 .. Blocks :
           /\ Group(key, 8, g) \in Block
           /\ \A j \in 1 .. 6 :
                BtoeBytes(key)[6 * (g - 1) + j] = BtoeBlock(Group(key, 8, g))[j]
  BY <1>1, <1>2, BtoeBytesIs
<1>4. ASSUME NEW i \in 1 .. 6 * Blocks
      PROVE  phrase[i].i \in Places
  <2> DEFINE g == (i - 1) \div 6 + 1
             j == ((i - 1) % 6) + 1
  <2>1. g \in 1 .. Blocks /\ j \in 1 .. 6 /\ 6 * (g - 1) + j = i
    BY <1>2
  <2> HIDE DEF g, j
  <2>2. phrase[i] = BtoeBlock(Group(key, 8, g))[j] /\ Group(key, 8, g) \in Block
    BY <1>1, <1>3, <2>1
  <2> QED
    BY <2>1, <2>2, BtoeBlockIs
<1> QED
  BY <1>1, <1>2, <1>3, <1>4

(* The words of a key hold its bits in their order.                        *)
LEMMA BitsAreHeld ==
  ASSUME KeyInv, phrase # NoPhrase
  PROVE  WordsHoldTheBits
<1> SUFFICES ASSUME NEW h \in 0 .. Blocks - 1, NEW n \in 0 .. 63
             PROVE  WordBit(66 * h + n) <=> KeyBit(64 * h + n)
  BY DEF WordsHoldTheBits, Blocks
<1> DEFINE block == Group(key, 8, h + 1)
           j == n \div 11 + 1
           i == n \div 8 + 1
<1>1. Blocks \in Nat /\ h + 1 \in 1 .. Blocks /\ h \in Nat
  BY WrittenIs
<1> HIDE DEF Blocks
<1>2. /\ j \in 1 .. 6 /\ i \in 1 .. 8
      /\ (66 * h + n) \div 11 + 1 = 6 * h + j /\ (66 * h + n) % 11 = n % 11
      /\ (64 * h + n) \div 8 + 1 = 8 * h + i /\ (64 * h + n) % 8 = n % 8
  BY <1>1
<1> HIDE DEF i, j
<1>3. ASSUME NEW g \in 1 .. Blocks, g = h + 1
      PROVE  /\ block \in Block /\ phrase[6 * h + j] = BtoeBlock(block)[j]
             /\ block[i] = key[8 * h + i]
  <2>1. 6 * (g - 1) + j = 6 * h + j /\ 8 * (g - 1) + i = 8 * h + i
    BY <1>1, <1>2, <1>3
  <2>2. block = Group(key, 8, g)
    BY <1>3
  <2> HIDE DEF block
  <2>3. block \in Block /\ phrase[6 * (g - 1) + j] = BtoeBlock(block)[j]
    BY <1>2, <2>2, WrittenIs
  <2>4. block[i] = key[8 * (g - 1) + i]
    BY <1>1, <1>2, <2>2, WrittenIs, KeyGroupIs
  <2> QED
    BY <2>1, <2>3, <2>4
<1>4. block \in Block /\ phrase[6 * h + j] = BtoeBlock(block)[j] /\ block[i] = key[8 * h + i]
  BY <1>1, <1>3
<1> HIDE DEF block
<1>6. 10 - (n % 11) \in BtoeBlock(block)[j].i <=> 7 - (n % 8) \in block[i]
  <2>1. n \in 0 .. 65 /\ n < 64
    OBVIOUS
  <2> QED
    BY <1>4, <2>1, BtoeBlockIs DEF i, j
<1> QED
  BY <1>2, <1>4, <1>6 DEF WordBit, KeyBit

(* What was typed, and what etob makes of it.                              *)
LEMMA TypedIs ==
  ASSUME NEW p \in Seq(AnyWord), NEW n \in Nat, Len(p) = n,
         \A i \in 1 .. n : p[i].i \in Places
  PROVE  /\ \A f \in Spellings :
              \A w : w = [i \in DOMAIN p |-> Word(p[i].i, f)] =>
                /\ w \in Seq(AnyWord) /\ Len(w) = n
                /\ \A i \in 1 .. n : w[i].i = p[i].i
         /\ \A k \in 1 .. n : \A y \in AnyWord :
              \A w : w = [p EXCEPT ![k] = y] =>
                /\ w \in Seq(AnyWord) /\ Len(w) = n /\ w[k] = y
                /\ \A i \in (1 .. n) \ {k} : w[i].i = p[i].i
         /\ \A k \in 1 .. n - 1 :
              \A w : w = [p EXCEPT ![k] = p[k + 1], ![k + 1] = p[k]] =>
                w \in Seq(AnyWord) /\ Len(w) = n
<1>1. p \in [1 .. n -> AnyWord]
  BY SeqDef
<1>2. \A w \in [1 .. n -> AnyWord] : w \in Seq(AnyWord) /\ Len(w) = n
  BY FunctionsAreSequences
<1>3. ASSUME NEW f \in Spellings, NEW w, w = [i \in DOMAIN p |-> Word(p[i].i, f)]
      PROVE  /\ w \in Seq(AnyWord) /\ Len(w) = n
             /\ \A i \in 1 .. n : w[i].i = p[i].i
  <2>1. \A i \in 1 .. n : Word(p[i].i, f) \in AnyWord /\ Word(p[i].i, f).i = p[i].i
    BY DEF Word, AnyWord
  <2>2. w \in [1 .. n -> AnyWord] /\ \A i \in 1 .. n : w[i] = Word(p[i].i, f)
    BY <1>1, <1>3, <2>1
  <2> QED
    BY <1>2, <2>1, <2>2
<1>4. ASSUME NEW k \in 1 .. n, NEW y \in AnyWord, NEW w, w = [p EXCEPT ![k] = y]
      PROVE  /\ w \in Seq(AnyWord) /\ Len(w) = n /\ w[k] = y
             /\ \A i \in (1 .. n) \ {k} : w[i].i = p[i].i
  <2>1. /\ w \in [1 .. n -> AnyWord] /\ w[k] = y
        /\ \A i \in (1 .. n) \ {k} : w[i] = p[i]
    BY <1>1, <1>4
  <2> QED
    BY <1>2, <2>1
<1>5. ASSUME NEW k \in 1 .. n - 1, NEW w,
             w = [p EXCEPT ![k] = p[k + 1], ![k + 1] = p[k]]
      PROVE  w \in Seq(AnyWord) /\ Len(w) = n
  <2>1. k \in 1 .. n /\ k + 1 \in 1 .. n
    OBVIOUS
  <2>2. w \in [1 .. n -> AnyWord]
    BY <1>1, <1>5, <2>1
  <2> QED
    BY <1>2, <2>2
<1> QED
  BY <1>3, <1>4, <1>5, Zenon

(* The properties of the run `functions` about keys and words.             *)
(*                                                                         *)
(* A key written down holds all its bits in order, comes back from any     *)
(* spelling of its words, one slip is noticed wherever it is, and words    *)
(* that are accepted are the words of what they give: for every key.       *)
THEOREM KeysComeBackOrSlipsShow == Rfc1751Spec => []KeyRestoredOrNoticed
<1>1. KeyInv => KeyRestoredOrNoticed
  <2> SUFFICES ASSUME KeyInv
               PROVE  KeyRestoredOrNoticed
    OBVIOUS
  <2>1. phrase # NoPhrase => WordsHoldTheBits
    BY BitsAreHeld
  <2>2. ASSUME restored.why # "none"
        PROVE  /\ slip = "none" => restored = Bytes(key)
               /\ slip \in {"bit", "no such word", "missing"} => restored.why # "done"
               /\ restored.why = "done" =>
                    BtoeBytes(restored.bytes) = [i \in DOMAIN typed |-> Standard(typed[i])]
    <3> DEFINE m == Blocks
               n == 6 * m
    <3>1. restored = EtobWords(typed) /\ phrase # NoPhrase /\ TypedInv
      BY <2>2 DEF KeyInv, NoBytes
    <3>2. /\ key \in Seq(Byte) /\ m \in Nat /\ m >= 1 /\ Len(key) = 8 * m
          /\ phrase = BtoeBytes(key) /\ phrase \in Seq(AnyWord)
          /\ Len(phrase) = n /\ DOMAIN phrase = 1 .. n
          /\ \A i \in 1 .. n : phrase[i].i \in Places
      BY <3>1, WrittenIs
    <3>3. n \in Nat /\ n >= 6
      BY <3>2
    <3>4. /\ \A f \in Spellings :
               \A w : w = [i \in DOMAIN phrase |-> Word(phrase[i].i, f)] =>
                 /\ w \in Seq(AnyWord) /\ Len(w) = n
                 /\ \A i \in 1 .. n : w[i].i = phrase[i].i
          /\ \A k \in 1 .. n : \A y \in AnyWord :
               \A w : w = [phrase EXCEPT ![k] = y] =>
                 /\ w \in Seq(AnyWord) /\ Len(w) = n /\ w[k] = y
                 /\ \A i \in (1 .. n) \ {k} : w[i].i = phrase[i].i
          /\ \A k \in 1 .. n - 1 :
               \A w : w = [phrase EXCEPT ![k] = phrase[k + 1], ![k + 1] = phrase[k]] =>
                 w \in Seq(AnyWord) /\ Len(w) = n
      BY <3>2, <3>3, TypedIs
    <3> HIDE DEF m, n
    <3>5. CASE slip = "none"
      <4>1. PICK f \in Spellings : typed = [i \in DOMAIN phrase |-> Word(phrase[i].i, f)]
        BY <3>1, <3>5 DEF TypedInv
      <4>2. /\ typed \in Seq(AnyWord) /\ Len(typed) = n
            /\ \A i \in 1 .. n : typed[i].i = BtoeBytes(key)[i].i
        BY <3>2, <3>4, <4>1
      <4>3. EtobWords(typed) = Bytes(key)
        BY <3>2, <4>2, KeyComesBack DEF n
      <4>4. EtobWords(typed).why = "done" =>
              BtoeBytes(EtobWords(typed).bytes) = [i \in DOMAIN typed |-> Standard(typed[i])]
        BY <3>2, <4>2, AcceptedPhrase DEF n
      <4> QED
        BY <3>1, <3>5, <4>3, <4>4
    <3>6. CASE slip = "bit"
      <4>1. PICK k \in 1 .. n, b \in 0 .. 10 :
              typed = [phrase EXCEPT ![k].i = IF b \in @ THEN @ \ {b} ELSE @ \cup {b}]
        BY <3>1, <3>2, <3>6 DEF TypedInv
      <4> DEFINE x == IF b \in phrase[k].i THEN phrase[k].i \ {b} ELSE phrase[k].i \cup {b}
             y == [phrase[k] EXCEPT !.i = x]
      <4>2. x \in Places /\ typed = [phrase EXCEPT ![k].i = x]
        BY <3>2, <4>1 DEF Places
      <4> HIDE DEF x
      <4>3. phrase[k] \in AnyWord
        BY <3>2
      <4>4. y \in AnyWord /\ y.i = x
        BY <4>2, <4>3 DEF AnyWord
      <4>5. typed = [phrase EXCEPT ![k] = y]
        BY <4>2
      <4> HIDE DEF y
      <4>6. /\ typed \in Seq(AnyWord) /\ Len(typed) = n /\ typed[k].i = x
            /\ \A i \in (1 .. n) \ {k} : typed[i].i = BtoeBytes(key)[i].i
        BY <3>2, <3>4, <4>5, <4>4
      <4>7. EtobWords(typed).why # "done"
        BY <3>2, <4>6, SlipIsNoticed DEF n, x
      <4> QED
        BY <3>1, <3>6, <4>7
    <3>7. CASE slip = "no such word"
      <4>1. PICK k \in 1 .. n : typed = [phrase EXCEPT ![k].i = NoPlace]
        BY <3>1, <3>2, <3>7 DEF TypedInv
      <4> DEFINE y == [phrase[k] EXCEPT !.i = NoPlace]
      <4>2. phrase[k] \in AnyWord
        BY <3>2
      <4>3. y \in AnyWord /\ y.i = NoPlace
        BY <4>2 DEF AnyWord
      <4>4. typed = [phrase EXCEPT ![k] = y]
        BY <4>1
      <4> HIDE DEF y
      <4>5. typed \in Seq(AnyWord) /\ Len(typed) = n /\ typed[k].i = NoPlace
        BY <3>2, <3>4, <4>3, <4>4
      <4>6. EtobWords(typed).why # "done"
        BY <3>2, <4>5, SlipIsNoticed DEF n
      <4> QED
        BY <3>1, <3>7, <4>6
    <3>8. CASE slip = "missing"
      <4>1. typed = SubSeq(phrase, 1, n - 1)
        BY <3>1, <3>2, <3>8 DEF TypedInv
      <4>2. Len(typed) = n - 1
        BY <3>2, <3>3, <4>1, SubSeqProperties
      <4>3. (n - 1) % 6 # 0
        BY <3>2 DEF n
      <4>4. EtobWords(typed) = NoBytes("count")
        BY <4>2, <4>3 DEF EtobWords, WholeGroups
      <4> QED
        BY <3>1, <3>8, <4>4 DEF NoBytes
    <3>9. CASE slip = "swapped"
      <4>1. PICK k \in 1 .. n - 1 :
              typed = [phrase EXCEPT ![k] = phrase[k + 1], ![k + 1] = phrase[k]]
        BY <3>1, <3>2, <3>9 DEF TypedInv
      <4>2. typed \in Seq(AnyWord) /\ Len(typed) = n
        BY <3>2, <3>4, <4>1
      <4>3. EtobWords(typed).why = "done" =>
              BtoeBytes(EtobWords(typed).bytes) = [i \in DOMAIN typed |-> Standard(typed[i])]
        BY <3>2, <4>2, AcceptedPhrase DEF n
      <4> QED
        BY <3>1, <3>9, <4>3
    <3> QED
      BY <3>1, <3>5, <3>6, <3>7, <3>8, <3>9 DEF TypedInv
  <2> QED
    BY <2>1, <2>2 DEF KeyRestoredOrNoticed
<1> QED
  BY <1>1, KeyInductive, PTL

-----------------------------------------------------------------------------
(* asn1_decode                                                             *)

RawValue == [k : STRING, class : STRING, tag : STRING, good : BOOLEAN, level : Nat]

(* The inductive invariant: the nodes made so far are the values that were *)
(* passed, all decodable and of the first; the value that comes next is no *)
(* deeper than the calls that are open; and a walk that was given up has a *)
(* value of the first before it that is not decodable.                     *)
Asn1Inv ==
  /\ der \in Ders
  /\ passed \in 0 .. Len(der) /\ opened \in 0 .. Asn1Depth
  /\ tree \in Seq(RawValue) /\ Len(tree) = passed
  /\ \A i \in 1 .. passed : tree[i] = der[i] /\ OfFirst(i) /\ Decodable(i)
  /\ walk = "walking" =>
       /\ nodes = passed
       /\ passed = 0 <=> opened = 0
       /\ passed > 0 /\ passed < Len(der) => der[passed + 1].level <= opened
  /\ walk = "done" =>
       /\ passed > 0
       /\ passed < Len(der) => der[passed + 1].level = 0
  /\ walk \notin {"walking", "done"} =>
       der = <<>> \/ (passed < Len(der) /\ OfFirst(passed + 1) /\ ~Decodable(passed + 1))

LEMMA DerIs ==
  ASSUME Asn1Inv
  PROVE  /\ der \in Seq(RawValue) /\ Len(der) \in Nat /\ DOMAIN der = 1 .. Len(der)
         /\ \A i \in 1 .. Len(der) : der[i] \in RawValue /\ der[i].level \in Nat
         /\ Len(der) >= 1 => der[1].level = 0
         /\ \A i \in 1 .. Len(der) - 1 :
              \/ der[i + 1].level <= der[i].level
              \/ der[i].k = "constructed" /\ der[i + 1].level = der[i].level + 1
         /\ Asn1Depth \in Nat /\ Asn1Depth > 0 /\ Asn1Nodes \in Nat
         /\ passed \in Nat /\ opened \in Nat
<1>1. IsDer(der) /\ Asn1Depth \in Nat /\ Asn1Depth > 0 /\ Asn1Nodes \in Nat
  BY Asn1Assumption DEF Asn1Inv
<1>2. der \in Seq(RawValue) /\ Len(der) \in Nat /\ DOMAIN der = 1 .. Len(der)
  BY <1>1 DEF IsDer, RawValue
<1>3. \A i \in 1 .. Len(der) : der[i] \in RawValue
  BY <1>2
<1>4. \A i \in 1 .. Len(der) : der[i].level \in Nat
  BY <1>3 DEF RawValue
<1>5. Len(der) >= 1 => der[1].level = 0
  <2> SUFFICES ASSUME Len(der) >= 1
               PROVE  der[1].level = 0
    OBVIOUS
  <2>1. 1 \in DOMAIN der
    BY <1>2
  <2>2. \A i \in DOMAIN der : i = 1 => der[i].level = 0
    BY <1>1, Zenon DEF IsDer
  <2> QED
    BY <2>1, <2>2, Zenon
<1>6. ASSUME NEW i \in 1 .. Len(der) - 1
      PROVE  \/ der[i + 1].level <= der[i].level
             \/ der[i].k = "constructed" /\ der[i + 1].level = der[i].level + 1
  <2>1. ASSUME NEW h \in DOMAIN der, h > 1
        PROVE  \/ der[h].level <= der[h - 1].level
               \/ der[h - 1].k = "constructed" /\ der[h].level = der[h - 1].level + 1
    BY <1>1, <2>1, Zenon DEF IsDer
  <2> DEFINE h == i + 1
  <2>2. h \in DOMAIN der /\ h > 1 /\ h - 1 = i
    BY <1>2
  <2> HIDE DEF h
  <2>3. \/ der[h].level <= der[h - 1].level
        \/ der[h - 1].k = "constructed" /\ der[h].level = der[h - 1].level + 1
    BY <2>1, <2>2, Zenon
  <2>4. \/ der[h].level <= der[i].level
        \/ der[i].k = "constructed" /\ der[h].level = der[i].level + 1
    BY <2>2, <2>3, Zenon
  <2> QED
    BY <2>4 DEF h
<1>7. passed \in Nat /\ opened \in Nat
  BY <1>1, <1>2 DEF Asn1Inv
<1> QED
  BY <1>1, <1>2, <1>3, <1>4, <1>5, <1>6, <1>7

(* The value that is read is as deep as the calls that are open.           *)
LEMMA ComingIs ==
  ASSUME Asn1Inv, walk = "walking", ~UsedUp
  PROVE  /\ passed + 1 \in 1 .. Len(der) /\ Coming \in RawValue /\ Coming.level = opened
         /\ OfFirst(passed + 1) /\ AsNode(Coming) = Coming
<1>1. passed < Len(der) /\ passed + 1 \in 1 .. Len(der) /\ ~(Coming.level < opened)
  BY DerIs DEF UsedUp, Asn1Inv
<1>2. Coming \in RawValue /\ Coming.level \in Nat
  BY <1>1, DerIs DEF Coming
<1>3. Coming.level = opened
  <2>1. CASE passed = 0
    BY <1>1, <1>2, <2>1, DerIs DEF Coming, Asn1Inv
  <2>2. CASE passed > 0
    BY <1>1, <1>2, <2>2, DerIs DEF Coming, Asn1Inv
  <2> QED
    BY <2>1, <2>2, DerIs
<1>4. OfFirst(passed + 1)
  <2> SUFFICES ASSUME NEW j \in 2 .. passed + 1
               PROVE  der[j].level > 0
    BY DEF OfFirst
  <2>1. CASE j = passed + 1
    <3>1. passed # 0
      BY <2>1, DerIs
    <3> QED
      BY <1>3, <2>1, <3>1, DerIs DEF Coming, Asn1Inv
  <2>2. CASE j # passed + 1
    <3>0. passed \in Nat
      BY DerIs
    <3>1. passed \in 1 .. passed /\ j \in 2 .. passed
      BY <2>2, <3>0
    <3> QED
      BY <3>1 DEF Asn1Inv, OfFirst
  <2> QED
    BY <2>1, <2>2
<1>5. AsNode(Coming) = Coming
  BY <1>2, <1>3 DEF AsNode, RawValue
<1> QED
  BY <1>1, <1>2, <1>3, <1>4, <1>5

(* A walk that stops before a value that is not sound.                     *)
LEMMA StopKeepsInv ==
  ASSUME Asn1Inv, walk = "walking", walk' \notin {"walking", "done"},
         UNCHANGED <<der, passed, opened, tree>>,
         der = <<>> \/ (passed < Len(der) /\ OfFirst(passed + 1) /\ ~Decodable(passed + 1))
  PROVE  Asn1Inv'
BY DEF Asn1Inv, OfFirst, Decodable

(* A value that is passed.                                                 *)
LEMMA PassKeepsInv ==
  ASSUME Asn1Inv, walk = "walking", ~UsedUp, Decodable(passed + 1),
         der' = der, passed' = passed + 1, nodes' = nodes + 1,
         tree' = Append(tree, AsNode(Coming)),
         opened' \in 0 .. Asn1Depth,
         IF Coming.k = "constructed" THEN walk' = walk /\ opened' = opened + 1
         ELSE opened' = opened /\ walk' = IF opened = 0 THEN "done" ELSE walk
  PROVE  Asn1Inv'
<1>1. /\ passed + 1 \in 1 .. Len(der) /\ Coming.level = opened
      /\ OfFirst(passed + 1) /\ AsNode(Coming) = Coming
  BY ComingIs
<1>2. passed \in Nat /\ opened \in Nat /\ Len(der) \in Nat
  BY DerIs
<1>3. /\ tree' \in Seq(RawValue) /\ Len(tree') = passed'
      /\ \A i \in 1 .. passed : tree'[i] = tree[i]
      /\ tree'[passed'] = der[passed']
  BY <1>1, <1>2, ComingIs DEF Asn1Inv, Coming
<1>4. ASSUME NEW i \in 1 .. passed'
      PROVE  tree'[i] = der'[i] /\ OfFirst(i)' /\ Decodable(i)'
  <2>1. OfFirst(i)' <=> OfFirst(i)
    BY DEF OfFirst
  <2>2. Decodable(i)' <=> Decodable(i)
    BY DEF Decodable
  <2>3. CASE i = passed'
    BY <1>1, <1>3, <2>1, <2>2, <2>3
  <2>4. CASE i # passed'
    <3>1. i \in 1 .. passed
      BY <1>2, <2>4
    <3> QED
      BY <1>3, <2>1, <2>2, <3>1 DEF Asn1Inv
  <2> QED
    BY <2>3, <2>4
<1>5. passed' < Len(der) => der[passed' + 1].level <= opened'
  <2> SUFFICES ASSUME passed' < Len(der)
               PROVE  der[passed' + 1].level <= opened'
    OBVIOUS
  <2>1. passed' \in 1 .. Len(der) - 1
    BY <1>2
  <2>2. \/ der[passed' + 1].level <= der[passed'].level
        \/ der[passed'].k = "constructed" /\ der[passed' + 1].level = der[passed'].level + 1
    BY <2>1, DerIs
  <2>3. der[passed'] = Coming
    BY DEF Coming
  <2>4. /\ Coming.level = opened /\ opened \in Nat
        /\ der[passed' + 1].level \in Nat
        /\ \/ der[passed' + 1].level <= opened
           \/ Coming.k = "constructed" /\ der[passed' + 1].level = opened + 1
    BY <1>1, <1>2, <2>1, <2>2, <2>3, DerIs
  <2> QED
    BY <2>4
<1>6. walk' = "done" => (passed' < Len(der) => der[passed' + 1].level = 0)
  <2> SUFFICES ASSUME walk' = "done", passed' < Len(der)
               PROVE  der[passed' + 1].level = 0
    OBVIOUS
  <2>1. opened' = 0 /\ der[passed' + 1].level <= 0
    BY <1>5
  <2>2. passed' + 1 \in 1 .. Len(der)
    BY <1>2
  <2>3. der[passed' + 1].level \in Nat
    BY <2>2, DerIs
  <2> QED
    BY <2>1, <2>3
<1>7. walk' \in {"walking", "done"} /\ (walk' = "walking" => opened' > 0)
  <2>1. opened = 0 \/ opened > 0
    BY <1>2
  <2> QED
    BY <1>2, <2>1
<1>8. nodes = passed /\ der \in Ders
  BY DEF Asn1Inv
<1> QED
  BY <1>1, <1>2, <1>3, <1>4, <1>5, <1>6, <1>7, <1>8 DEF Asn1Inv

LEMMA ReturnKeepsInv ==
  ASSUME Asn1Inv, ChildrenDecoded
  PROVE  Asn1Inv'
<1>1. /\ walk = "walking" /\ opened > 0 /\ UsedUp /\ opened' = opened - 1
      /\ walk' = IF opened - 1 = 0 THEN "done" ELSE walk
      /\ UNCHANGED <<der, passed, nodes, tree>>
  BY DEF ChildrenDecoded
<1>2. passed \in Nat /\ opened \in Nat /\ Len(der) \in Nat /\ passed > 0
  BY <1>1, DerIs DEF Asn1Inv
<1>3. passed < Len(der) => der[passed + 1].level \in Nat /\ der[passed + 1].level <= opened - 1
  <2> SUFFICES ASSUME passed < Len(der)
               PROVE  der[passed + 1].level \in Nat /\ der[passed + 1].level <= opened - 1
    OBVIOUS
  <2>1. passed + 1 \in 1 .. Len(der)
    BY <1>2
  <2>2. der[passed + 1].level \in Nat
    BY <2>1, DerIs
  <2>3. der[passed + 1].level < opened
    BY <1>1 DEF UsedUp, Coming
  <2> QED
    BY <1>2, <2>2, <2>3
<1>4. \A i \in 1 .. passed : (OfFirst(i)' <=> OfFirst(i)) /\ (Decodable(i)' <=> Decodable(i))
  BY <1>1 DEF OfFirst, Decodable
<1>5. opened' \in 0 .. Asn1Depth
  BY <1>1, <1>2, DerIs DEF Asn1Inv
<1> QED
  BY <1>1, <1>2, <1>3, <1>4, <1>5 DEF Asn1Inv

LEMMA Asn1Inductive == Asn1Spec => []Asn1Inv
<1>1. Asn1Init => Asn1Inv
  <2> SUFFICES ASSUME Asn1Init
               PROVE  Asn1Inv
    OBVIOUS
  <2>1. der \in Ders /\ passed = 0 /\ opened = 0 /\ nodes = 0 /\ walk = "walking" /\ tree = <<>>
    BY DEF Asn1Init
  <2>2. IsDer(der) /\ Asn1Depth \in Nat
    BY <2>1, Asn1Assumption
  <2>3. Len(der) \in Nat
    BY <2>2 DEF IsDer
  <2> QED
    BY <2>1, <2>2, <2>3 DEF Asn1Inv
<1>2. Asn1Inv /\ [Asn1Next]_asn1Vars => Asn1Inv'
  <2> SUFFICES ASSUME Asn1Inv, [Asn1Next]_asn1Vars
               PROVE  Asn1Inv'
    OBVIOUS
  <2>1. CASE Unreadable
    <3>1. /\ walk = "walking" /\ walk' = "broken" /\ UNCHANGED <<der, passed, opened, tree>>
          /\ der = <<>> \/ (~UsedUp /\ Coming.k = "broken")
      BY <2>1 DEF Unreadable
    <3>2. CASE der = <<>>
      BY <3>1, <3>2, StopKeepsInv
    <3>3. CASE ~UsedUp /\ Coming.k = "broken"
      <4>1. passed < Len(der) /\ OfFirst(passed + 1)
        BY <3>1, <3>3, ComingIs, DerIs DEF UsedUp
      <4>2. ~Decodable(passed + 1)
        BY <3>3 DEF Decodable, Coming
      <4> QED
        BY <3>1, <4>1, <4>2, StopKeepsInv
    <3> QED
      BY <3>1, <3>2, <3>3
  <2>2. CASE RawValueToNode
    <3>1. /\ walk = "walking" /\ ~UsedUp /\ Coming.k # "broken" /\ der' = der
          /\ TooDeep \/ Counted
      BY <2>2 DEF RawValueToNode
    <3>2. /\ passed + 1 \in 1 .. Len(der) /\ Coming.level = opened /\ OfFirst(passed + 1)
          /\ nodes = passed /\ passed \in Nat /\ opened \in Nat
          /\ Asn1Depth \in Nat /\ Asn1Nodes \in Nat /\ Len(der) \in Nat
      BY <3>1, ComingIs, DerIs DEF Asn1Inv
    <3>n. passed \in Nat /\ opened \in Nat /\ Asn1Depth \in Nat /\ Asn1Nodes \in Nat
      BY <3>2
    <3>l. der[passed + 1].level = opened
      BY <3>2 DEF Coming
    <3>3. /\ Coming = der[passed + 1] /\ passed < Len(der)
      BY <3>2 DEF Coming
    <3>4. ASSUME UNCHANGED <<passed, opened, tree>>, walk' \in {"too deep", "too many", "misfit"},
                 ~Decodable(passed + 1)
          PROVE  Asn1Inv'
      BY <3>1, <3>2, <3>3, <3>4, StopKeepsInv
    <3>5. CASE TooDeep
      <4>1. ~Decodable(passed + 1)
        <5>1. opened >= Asn1Depth
          BY <3>5, Zenon DEF TooDeep
        <5>2. ~(der[passed + 1].level < Asn1Depth)
          BY <3>l, <3>n, <5>1
        <5> QED
          BY <5>2, Zenon DEF Decodable
      <4> QED
        BY <3>4, <3>5, <4>1 DEF TooDeep
    <3>6. CASE Counted
      <4>1. opened < Asn1Depth /\ nodes' = passed + 1
        BY <3>2, <3>6 DEF Counted
      <4>2. CASE nodes' > Asn1Nodes /\ walk' = "too many" /\ UNCHANGED <<passed, opened, tree>>
        <5>1. ~Decodable(passed + 1)
          <6>1. nodes' > Asn1Nodes /\ nodes' = passed + 1
            BY <4>1, <4>2, Zenon
          <6>2. ~(passed + 1 <= Asn1Nodes)
            BY <3>n, <6>1
          <6> QED
            BY <6>2, Zenon DEF Decodable
        <5> QED
          BY <3>4, <4>2, <5>1
      <4>3. CASE /\ Coming.k = "primitive" /\ ~DecodePrimitive(Coming)
                 /\ walk' = "misfit" /\ UNCHANGED <<passed, opened, tree>>
        <5>1. ~Decodable(passed + 1)
          BY <3>3, <4>3 DEF Decodable
        <5> QED
          BY <3>4, <4>3, <5>1
      <4>4. CASE /\ nodes' <= Asn1Nodes /\ Coming.k = "primitive" /\ DecodePrimitive(Coming)
                 /\ passed' = passed + 1 /\ tree' = Append(tree, AsNode(Coming))
                 /\ walk' = IF opened = 0 THEN "done" ELSE walk
                 /\ UNCHANGED opened
        <5>1. Decodable(passed + 1)
          BY <3>1, <3>2, <3>3, <4>1, <4>4 DEF Decodable
        <5>2. opened' \in 0 .. Asn1Depth /\ Coming.k # "constructed"
          BY <3>2, <4>1, <4>4
        <5> QED
          BY <3>1, <3>2, <4>1, <4>4, <5>1, <5>2, PassKeepsInv
      <4>5. CASE /\ nodes' <= Asn1Nodes /\ Coming.k = "constructed"
                 /\ passed' = passed + 1 /\ tree' = Append(tree, AsNode(Coming))
                 /\ opened' = opened + 1 /\ UNCHANGED walk
        <5>1. Decodable(passed + 1)
          BY <3>1, <3>2, <3>3, <4>1, <4>5 DEF Decodable
        <5>2. opened' \in 0 .. Asn1Depth
          BY <3>2, <4>1, <4>5
        <5> QED
          BY <3>1, <3>2, <4>1, <4>5, <5>1, <5>2, PassKeepsInv
      <4> QED
        BY <3>6, <4>2, <4>3, <4>4, <4>5 DEF Counted
    <3> QED
      BY <3>1, <3>5, <3>6
  <2>3. CASE ChildrenDecoded
    BY <2>3, ReturnKeepsInv
  <2>4. CASE UNCHANGED asn1Vars
    BY <2>4 DEF asn1Vars, Asn1Inv, OfFirst, Decodable
  <2> QED
    BY <2>1, <2>2, <2>3, <2>4 DEF Asn1Next
<1> QED
  BY <1>1, <1>2, PTL DEF Asn1Spec

(* The property of the run `functions` about DER: for any input and limits *)
(* the answer is the whole tree of the first value, exactly when that is   *)
(* sound and within the limits.                                            *)
THEOREM WholeTreesWithinLimits == Asn1Spec => []WholeTreeWithinLimits
<1>1. Asn1Inv => WholeTreeWithinLimits
  <2> SUFFICES ASSUME Asn1Inv, walk # "walking"
               PROVE  WholeTreeWithinLimits
    BY DEF WholeTreeWithinLimits
  <2> DEFINE Fits == der # <<>> /\ \A i \in DOMAIN der : OfFirst(i) => Decodable(i)
  <2>1. passed \in 0 .. Len(der) /\ Len(der) \in Nat /\ DOMAIN der = 1 .. Len(der)
    BY DerIs DEF Asn1Inv
  <2>2. CASE walk = "done"
    <3>1. passed > 0 /\ (passed < Len(der) => der[passed + 1].level = 0)
      BY <2>2 DEF Asn1Inv
    <3>2. \A i \in 1 .. Len(der) : OfFirst(i) <=> i <= passed
      <4> SUFFICES ASSUME NEW i \in 1 .. Len(der)
                   PROVE  OfFirst(i) <=> i <= passed
        OBVIOUS
      <4>1. CASE i <= passed
        <5>1. i \in 1 .. passed
          BY <2>1, <4>1
        <5> QED
          BY <4>1, <5>1 DEF Asn1Inv
      <4>2. CASE ~(i <= passed)
        <5>1. passed + 1 \in 2 .. i /\ passed < Len(der)
          BY <2>1, <3>1, <4>2
        <5>2. ~(der[passed + 1].level > 0)
          BY <3>1, <5>1
        <5> QED
          BY <4>2, <5>1, <5>2 DEF OfFirst
      <4> QED
        BY <4>1, <4>2
    <3>3. \A i \in 1 .. Len(der) : OfFirst(i) => Decodable(i)
      <4> SUFFICES ASSUME NEW i \in 1 .. Len(der), OfFirst(i)
                   PROVE  Decodable(i)
        OBVIOUS
      <4>1. i \in 1 .. passed
        BY <2>1, <3>2
      <4> QED
        BY <4>1 DEF Asn1Inv
    <3>4. der # <<>>
      BY <2>1, <3>1
    <3>5. DOMAIN tree = 1 .. passed
      BY DEF Asn1Inv
    <3>6. DOMAIN tree = { i \in DOMAIN der : OfFirst(i) }
      BY <2>1, <3>2, <3>5
    <3>7. \A i \in DOMAIN tree : tree[i] = der[i]
      BY <3>5 DEF Asn1Inv
    <3> QED
      BY <2>1, <2>2, <3>3, <3>4, <3>6, <3>7 DEF WholeTreeWithinLimits
  <2>3. CASE walk # "done"
    <3>1. der = <<>> \/ (passed < Len(der) /\ OfFirst(passed + 1) /\ ~Decodable(passed + 1))
      BY <2>3 DEF Asn1Inv
    <3>2. ~Fits
      <4>1. CASE der = <<>>
        BY <4>1
      <4>2. CASE passed < Len(der) /\ OfFirst(passed + 1) /\ ~Decodable(passed + 1)
        <5>1. passed + 1 \in DOMAIN der
          BY <2>1, <4>2
        <5> QED
          BY <4>2, <5>1
      <4> QED
        BY <3>1, <4>1, <4>2
    <3> QED
      BY <2>3, <3>2 DEF WholeTreeWithinLimits
  <2> QED
    BY <2>2, <2>3
<1> QED
  BY <1>1, Asn1Inductive, PTL

(* Go's stack never holds more calls than the limit allows, whatever the   *)
(* input: no call is made before the depth was looked at.                  *)
THEOREM StackIsBounded == Asn1Spec => [](opened <= Asn1Depth)
<1>1. Asn1Inv => opened <= Asn1Depth
  BY DerIs DEF Asn1Inv
<1> QED
  BY <1>1, Asn1Inductive, PTL

-----------------------------------------------------------------------------
(* mod_floor                                                               *)

(* A power of two that is a whole number, and what stands for one that is  *)
(* not.                                                                    *)
LEMMA Pow2Facts ==
  ASSUME NEW k \in Nat
  PROVE  /\ Pow2(k) = 2 ^ k /\ Pow2(k) \in Nat /\ Pow2(k) >= 1 /\ Pow2(-k) = 1
         /\ Pow2(k + 1) = 2 * Pow2(k)
<1>1. \A j \in Nat : Pow2(j) = 2 ^ j
  <2> SUFFICES ASSUME NEW j \in Nat
               PROVE  Pow2(j) = 2 ^ j
    OBVIOUS
  <2>1. CASE j > 0
    BY <2>1 DEF Pow2
  <2>2. CASE ~(j > 0)
    <3>1. j = 0 /\ 2 ^ 0 = 1
      BY <2>2
    <3> QED
      BY <2>2, <3>1 DEF Pow2
  <2> QED
    BY <2>1, <2>2
<1>2. Pow2(-k) = 1
  <2>1. ~(-k > 0)
    OBVIOUS
  <2> QED
    BY <2>1 DEF Pow2
<1>3. k + 1 \in Nat /\ 2 ^ (k + 1) = 2 * 2 ^ k /\ 2 ^ k \in Nat /\ 2 ^ k >= 1
  BY PowerType, TwiceTheSubsets
<1> QED
  BY <1>1, <1>2, <1>3

(* Rounding to the nearest stays below a number that is more than half     *)
(* away, above one that is, and at one that is reached.                    *)
LEMMA NearestFacts ==
  ASSUME NEW n \in Nat, NEW d \in Nat, d >= 1, NEW k \in Nat
  PROVE  /\ Nearest(n, d) \in Nat
         /\ 2 * n < 2 * (k * d) + d => Nearest(n, d) <= k
         /\ 2 * n > 2 * (k * d) + d => Nearest(n, d) >= k + 1
         /\ n = k * d => Nearest(n, d) = k
<1> DEFINE f == n \div d
           r == n % d
<1>1. f \in Nat /\ r \in 0 .. d - 1 /\ n = f * d + r
  <2>1. \A a, b \in Nat : b >= 1 => /\ a \div b \in Nat /\ a % b \in 0 .. b - 1
                                    /\ a = (a \div b) * b + (a % b)
    OBVIOUS
  <2> QED
    BY <2>1
<1>2. Nearest(n, d) = IF 2 * r > d \/ (2 * r = d /\ f % 2 = 1) THEN f + 1 ELSE f
  BY DEF Nearest
<1> HIDE DEF f, r
<1> DEFINE x == f * d
           y == k * d
<1>3. x \in Nat /\ y \in Nat
  <2>1. \A a, b \in Nat : a * b \in Nat
    OBVIOUS
  <2> QED
    BY <1>1, <2>1
<1>4. /\ f = k => x = y
      /\ f >= k + 1 => x >= y + d
      /\ f + 1 <= k => x + d <= y
  <2>1. \A a, b, c \in Nat : a >= b => a * c >= b * c
    OBVIOUS
  <2>2. \A a, c \in Nat : (a + 1) * c = a * c + c
    OBVIOUS
  <2>3. f >= k + 1 => x >= (k + 1) * d
    BY <1>1, <2>1
  <2>4. f + 1 <= k => (f + 1) * d <= y
    BY <1>1, <2>1
  <2> QED
    BY <1>1, <2>2, <2>3, <2>4
<1>5. n = x + r
  BY <1>1
<1> HIDE DEF x, y
<1>6. 2 * n < 2 * y + d => Nearest(n, d) <= k
  <2>1. CASE f >= k + 1
    BY <1>1, <1>3, <1>4, <1>5, <2>1
  <2>2. CASE f = k
    BY <1>1, <1>2, <1>3, <1>4, <1>5, <2>2
  <2>3. CASE f + 1 <= k
    BY <1>1, <1>2, <2>3
  <2> QED
    BY <1>1, <2>1, <2>2, <2>3
<1>7. 2 * n > 2 * y + d => Nearest(n, d) >= k + 1
  <2>1. CASE f >= k + 1
    BY <1>1, <1>2, <2>1
  <2>2. CASE f = k
    BY <1>1, <1>2, <1>3, <1>4, <1>5, <2>2
  <2>3. CASE f + 1 <= k
    BY <1>1, <1>3, <1>4, <1>5, <2>3
  <2> QED
    BY <1>1, <2>1, <2>2, <2>3
<1>8. n = y => Nearest(n, d) = k
  <2>1. CASE f >= k + 1
    BY <1>1, <1>3, <1>4, <1>5, <2>1
  <2>2. CASE f = k
    BY <1>1, <1>2, <1>3, <1>4, <1>5, <2>2
  <2>3. CASE f + 1 <= k
    BY <1>1, <1>3, <1>4, <1>5, <2>3
  <2> QED
    BY <1>1, <2>1, <2>2, <2>3
<1>9. Nearest(n, d) \in Nat
  BY <1>1, <1>2
<1> QED
  BY <1>6, <1>7, <1>8, <1>9 DEF y

(* The whole numbers with a bit to spare are below this.                   *)
Half == 2 ^ (Prec - 1)

LEMMA HalfFacts == /\ Prec \in Nat /\ Prec >= 1 /\ Half \in Nat /\ Half >= 1
                   /\ Pow2(Prec - 1) = Half /\ Pow2(Prec) = 2 * Half
<1>1. Prec \in Nat /\ Prec >= 1 /\ Prec - 1 \in Nat /\ (Prec - 1) + 1 = Prec
  BY NumericsBounds
<1> QED
  BY <1>1, Pow2Facts DEF Half

(* How the quotient of two numbers that fit is rounded: with so many bits  *)
(* behind the point that the highest bit of the result is set.             *)
LEMMA QuotientScale ==
  ASSUME NEW n \in Nat, NEW d \in Nat, n >= 1, d >= 1, n < 2 * Half, d < 2 * Half
  PROVE  \E j \in Nat : /\ Quotient(n, d, Prec) = [m |-> Nearest(n * 2 ^ j, d), e |-> -j]
                        /\ Half * d <= n * 2 ^ j
<1> DEFINE Fits(k) == /\ Pow2(Prec - 1) * d * Pow2(k) <= n * Pow2(-k)
                      /\ n * Pow2(-k) < Pow2(Prec) * d * Pow2(k)
           Scale(j) == Half * d <= n * 2 ^ j /\ n * 2 ^ j < 2 * (Half * d)
           Enough(j) == Half * d <= n * 2 ^ j
<1>p. \A j \in Nat : 2 ^ j \in Nat /\ 2 ^ j >= 1 /\ 2 ^ (j + 1) = 2 * 2 ^ j
  BY PowerType, TwiceTheSubsets
<1>h. Half * d \in Nat /\ \A j \in Nat : n * 2 ^ j \in Nat /\ n * 2 ^ (j + 1) = 2 * (n * 2 ^ j)
  <2>1. \A a, b \in Nat : a * b \in Nat /\ a * (2 * b) = 2 * (a * b)
    OBVIOUS
  <2> QED
    BY <1>p, <2>1, HalfFacts
<1>1. \A j \in Nat : Fits(-j) <=> Scale(j)
  <2> SUFFICES ASSUME NEW j \in Nat
               PROVE  Fits(-j) <=> Scale(j)
    OBVIOUS
  <2>0. Pow2(-j) = 1 /\ Pow2(j) = 2 ^ j
    BY Pow2Facts
  <2>1. Pow2(-j) = 1 /\ Pow2(-(-j)) = 2 ^ j
    <3>1. -(-j) = j
      OBVIOUS
    <3> QED
      BY <2>0, <3>1
  <2>2. Pow2(Prec - 1) = Half /\ Pow2(Prec) = 2 * Half /\ Half \in Nat
    BY HalfFacts
  <2>3. \A a \in Nat : a * d * 1 = a * d /\ (2 * a) * d * 1 = 2 * (a * d)
    OBVIOUS
  <2> HIDE DEF Half
  <2> QED
    BY <2>1, <2>2, <2>3
<1>2. \E j \in 0 .. 4 * Prec : Enough(j)
  <2> DEFINE j == 4 * Prec
             P == 2 ^ Prec
  <2>1. P \in Nat /\ P >= 1 /\ P = 2 * Half /\ j \in Nat /\ 2 ^ j = P * (P * (P * P))
    <3>1. Prec + Prec \in Nat /\ Prec + (Prec + Prec) \in Nat
          /\ j = Prec + (Prec + (Prec + Prec)) /\ j \in Nat
      BY HalfFacts
    <3>h. Prec \in Nat
      BY HalfFacts
    <3>s. \A n1, n2 \in Nat : 2 ^ (n1 + n2) = 2 ^ n1 * 2 ^ n2
      BY PowerSum, Zenon
    <3>2. 2 ^ (Prec + Prec) = P * P
      BY <3>h, <3>s, Zenon
    <3>3. 2 ^ (Prec + (Prec + Prec)) = P * (P * P)
      BY <3>1, <3>2, <3>h, <3>s, Zenon
    <3>4. 2 ^ (Prec + (Prec + (Prec + Prec))) = P * (P * (P * P))
      BY <3>1, <3>3, <3>h, <3>s, Zenon
    <3>5. P \in Nat /\ P >= 1 /\ P = 2 * Half
      BY HalfFacts, Pow2Facts
    <3> QED
      BY <3>1, <3>4, <3>5
  <2> HIDE DEF P, j
  <2>2. \A a, b, c \in Nat : a <= b => a * c <= b * c /\ c * a <= c * b
    OBVIOUS
  <2>3. Half <= P /\ d <= P /\ Half \in Nat
    BY <2>1, HalfFacts
  <2>4. Half * d <= P * P
    <3>1. Half * d <= P * d /\ P * d <= P * P /\ Half * d \in Nat /\ P * d \in Nat /\ P * P \in Nat
      BY <1>h, <2>1, <2>2, <2>3
    <3> QED
      BY <3>1
  <2>5. P * P <= 2 ^ j
    <3> DEFINE Q == P * P
    <3>1. Q \in Nat /\ Q >= 1 /\ 2 ^ j = Q * Q
      <4>1. \A a \in Nat : a >= 1 => a * a \in Nat /\ a * a >= 1 /\ a * (a * (a * a)) = (a * a) * (a * a)
        OBVIOUS
      <4> QED
        BY <2>1, <4>1
    <3> HIDE DEF Q
    <3>2. Q * 1 <= Q * Q
      BY <2>2, <3>1
    <3> QED
      BY <3>1, <3>2 DEF Q
  <2>6. 1 * 2 ^ j <= n * 2 ^ j
    BY <1>p, <2>1, <2>2
  <2>7. Enough(j)
    <3>1. Half * d \in Nat /\ P * P \in Nat /\ 2 ^ j \in Nat /\ n * 2 ^ j \in Nat
      BY <1>p, <1>h, <2>1
    <3> QED
      BY <2>4, <2>5, <2>6, <3>1
  <2> QED
    BY <2>1, <2>7, HalfFacts DEF j
<1>3. PICK j \in {i \in 0 .. 4 * Prec : Enough(i)} : \A i \in {i \in 0 .. 4 * Prec : Enough(i)} : j <= i
  <2> DEFINE T == {i \in 0 .. 4 * Prec : Enough(i)}
  <2>1. T \subseteq Nat /\ T # {}
    BY <1>2
  <2> HIDE DEF T
  <2>2. \E x \in T : \A y \in T : x <= y
    BY <2>1, FirstPosition
  <2> QED
    BY <2>2 DEF T
<1>4. Scale(j)
  <2>1. j \in Nat /\ j \in 0 .. 4 * Prec /\ Enough(j)
    BY <1>3, HalfFacts
  <2>2. CASE j = 0
    <3>1. 2 ^ j = 1
      BY <2>2
    <3>2. n * 1 < 2 * (Half * d)
      <4>1. \A a, b \in Nat : b >= 1 => a <= a * b
        OBVIOUS
      <4>2. Half <= Half * d
        BY <4>1, HalfFacts
      <4> QED
        BY <1>h, <4>2, HalfFacts
    <3> QED
      BY <2>1, <3>1, <3>2
  <2>3. CASE j # 0
    <3>1. j - 1 \in Nat /\ j - 1 \in 0 .. 4 * Prec /\ (j - 1) + 1 = j
      BY <2>1, <2>3, HalfFacts
    <3>2. ~Enough(j - 1)
      BY <1>3, <3>1
    <3>3. n * 2 ^ (j - 1) < Half * d
      BY <1>h, <3>1, <3>2
    <3>4. n * 2 ^ j = 2 * (n * 2 ^ (j - 1))
      BY <1>h, <3>1
    <3> QED
      BY <1>h, <2>1, <3>1, <3>3, <3>4
  <2> QED
    BY <2>2, <2>3
<1> DEFINE e == CHOOSE k \in -4 * Prec .. 4 * Prec : Fits(k)
<1>5. e \in -4 * Prec .. 4 * Prec /\ Fits(e)
  <2>1. -j \in -4 * Prec .. 4 * Prec /\ Fits(-j)
    BY <1>1, <1>3, <1>4, HalfFacts
  <2> HIDE DEF Fits
  <2> QED
    BY <2>1
<1>6. Quotient(n, d, Prec) = [m |-> Nearest(n * Pow2(-e), d * Pow2(e)), e |-> e]
  BY DEF Quotient
<1> HIDE DEF e
<1>7. e <= 0
  <2> SUFFICES ASSUME e > 0
               PROVE  FALSE
    BY <1>5
  <2>1. e \in Nat /\ e - 1 \in Nat /\ (e - 1) + 1 = e
    BY <1>5, HalfFacts
  <2>2. Pow2(-e) = 1 /\ Pow2(e) = 2 * Pow2(e - 1) /\ Pow2(e - 1) \in Nat /\ Pow2(e - 1) >= 1
    BY <2>1, Pow2Facts
  <2>3. Half * d * (2 * Pow2(e - 1)) <= n * 1
    BY <1>5, <2>2, HalfFacts
  <2>4. \A a, b, c \in Nat : b >= 1 /\ c >= 1 => a * b * (2 * c) >= 2 * a
    <3>1. \A a, b \in Nat : b >= 1 => a * b \in Nat /\ a * b >= a
      OBVIOUS
    <3> SUFFICES ASSUME NEW a \in Nat, NEW b \in Nat, NEW c \in Nat, b >= 1, c >= 1
                 PROVE  a * b * (2 * c) >= 2 * a
      OBVIOUS
    <3>2. a * b \in Nat /\ a * b >= a
      BY <3>1
    <3>3. (a * b) * (2 * c) >= 2 * (a * b)
      <4>1. \A x, y \in Nat : y >= 1 => x * (2 * y) >= 2 * x
        OBVIOUS
      <4> QED
        BY <3>2, <4>1
    <3> QED
      BY <3>2, <3>3
  <2>5. Half * d * (2 * Pow2(e - 1)) >= 2 * Half
    BY <2>2, <2>4, HalfFacts
  <2>6. Half * d * (2 * Pow2(e - 1)) \in Nat
    <3>1. \A a, b \in Nat : a * b \in Nat /\ 2 * a \in Nat
      OBVIOUS
    <3> QED
      BY <1>h, <2>2, <3>1
  <2> QED
    BY <2>3, <2>5, <2>6, HalfFacts
<1> DEFINE i == -e
<1>8. i \in Nat /\ e = -i
  BY <1>5, <1>7, HalfFacts
<1> HIDE DEF i
<1>9. Scale(i)
  <2> HIDE DEF Fits, Scale
  <2> QED
    BY <1>1, <1>5, <1>8
<1>10. Pow2(e) = 1 /\ Pow2(-e) = 2 ^ i /\ d * Pow2(e) = d
  <2>1. -e = i
    BY <1>8
  <2>2. Pow2(-i) = 1 /\ Pow2(i) = 2 ^ i
    BY <1>8, Pow2Facts
  <2> QED
    BY <1>8, <2>1, <2>2
<1>11. Quotient(n, d, Prec) = [m |-> Nearest(n * 2 ^ i, d), e |-> -i]
  BY <1>6, <1>8, <1>10
<1> QED
  BY <1>8, <1>9, <1>11

(* For numbers that fit, the quotient's whole part is what it would be     *)
(* without rounding, and it is whole when the division is even: no         *)
(* rounding reaches the next whole number.                                 *)
LEMMA QuotientIsExact ==
  ASSUME NEW n \in Nat, NEW d \in Nat, d >= 1, n < 2 * Half, d < 2 * Half
  PROVE  /\ Truncated(Quotient(n, d, Prec)) = n \div d
         /\ IsWhole(Quotient(n, d, Prec)) <=> n % d = 0
<1> DEFINE q == n \div d
           r == n % d
<1>1. q \in Nat /\ r \in 0 .. d - 1 /\ n = q * d + r
  <2>1. \A a, b \in Nat : b >= 1 => /\ a \div b \in Nat /\ a % b \in 0 .. b - 1
                                    /\ a = (a \div b) * b + (a % b)
    OBVIOUS
  <2> QED
    BY <2>1
<1> HIDE DEF q, r
<1>2. CASE n = 0
  <2>1. q = 0 /\ r = 0
    BY <1>2 DEF q, r
  <2>2. Quotient(n, d, Prec) = [m |-> 0, e |-> 0]
    BY <1>2 DEF Quotient
  <2>3. Pow2(0) = 1 /\ Pow2(-0) = 1
    BY DEF Pow2
  <2>4. (0 * 1) \div 1 = 0 /\ (0 * 1) % 1 = 0
    OBVIOUS
  <2> QED
    BY <2>1, <2>2, <2>3, <2>4 DEF Truncated, IsWhole, q, r
<1>3. CASE n >= 1
  <2>1. PICK j \in Nat : /\ Quotient(n, d, Prec) = [m |-> Nearest(n * 2 ^ j, d), e |-> -j]
                         /\ Half * d <= n * 2 ^ j
    BY <1>3, QuotientScale
  <2> DEFINE C == 2 ^ j
             N == n * C
             m == Nearest(N, d)
             K == q * C
  <2>2. C \in Nat /\ C >= 1
    BY PowerType
  <2>p. \A a, b \in Nat : a * b \in Nat
    OBVIOUS
  <2> HIDE DEF C
  <2>3. N \in Nat /\ K \in Nat /\ Half * d <= N /\ Half * d \in Nat
    BY <1>1, <2>1, <2>2, <2>p, HalfFacts DEF C
  <2>4. Truncated(Quotient(n, d, Prec)) = m \div C /\ (IsWhole(Quotient(n, d, Prec)) <=> m % C = 0)
    <3>1. Pow2(-j) = 1 /\ Pow2(j) = C
      BY Pow2Facts DEF C
    <3>2. -(-j) = j
      OBVIOUS
    <3>3. Quotient(n, d, Prec).m = m /\ Quotient(n, d, Prec).e = -j
      BY <2>1 DEF C
    <3>4. m \in Nat
      BY <2>3, NearestFacts
    <3> HIDE DEF m
    <3>5. m * 1 = m
      BY <3>4
    <3> QED
      BY <3>1, <3>2, <3>3, <3>5 DEF Truncated, IsWhole
  <2>5. N = K * d + r * C /\ K * d \in Nat /\ r * C \in Nat
    <3>1. \A a, b, c, x \in Nat : (a * b + x) * c = (a * c) * b + x * c
      OBVIOUS
    <3> QED
      BY <1>1, <2>2, <2>3, <2>p, <3>1
  <2>6. m \in Nat /\ (N = K * d => m = K)
    BY <2>3, NearestFacts
  <2>7. 2 * N > 2 * (K * d) + d => m >= K + 1
    BY <2>3, NearestFacts
  <2> DEFINE L == K + C - 1
  <2>8. L \in Nat /\ (2 * N < 2 * (L * d) + d => m <= L)
    <3>1. L \in Nat
      BY <2>2, <2>3
    <3> HIDE DEF L
    <3> QED
      BY <2>3, <3>1, NearestFacts
  <2>9. L * d = K * d + C * d - d /\ C * d \in Nat /\ d <= C * d
    <3>1. \A a, b, c \in Nat : b >= 1 => /\ (a + b - 1) * c = a * c + b * c - c
                                         /\ b * c \in Nat /\ c <= b * c
      OBVIOUS
    <3> QED
      BY <2>2, <2>3, <3>1
  <2> HIDE DEF N, m, K, L
  <2>10. CASE r = 0
    <3>1. m = K
      BY <2>2, <2>5, <2>6, <2>10
    <3>2. K \div C = q /\ K % C = 0
      <4>1. \A a, b \in Nat : b >= 1 => (a * b) \div b = a /\ (a * b) % b = 0
        OBVIOUS
      <4> QED
        BY <1>1, <2>2, <4>1 DEF K
    <3> QED
      BY <2>4, <2>10, <3>1, <3>2 DEF q, r
  <2>11. CASE r >= 1
    <3>1. d < 2 * C
      <4> SUFFICES ASSUME 2 * C <= d
                   PROVE  FALSE
        BY <2>2
      <4>1. Half * (2 * C) <= N
        <5>1. \A a, b, c \in Nat : b <= c => a * b <= a * c
          OBVIOUS
        <5>2. Half * (2 * C) <= Half * d
          BY <2>2, <5>1, HalfFacts
        <5> QED
          BY <2>2, <2>3, <2>p, <5>2, HalfFacts
      <4>2. N < (2 * Half) * C
        <5>1. \A a, b, c \in Nat : a < b /\ c >= 1 => a * c < b * c
          OBVIOUS
        <5> QED
          BY <2>2, <5>1, HalfFacts DEF N
      <4>3. Half * (2 * C) = (2 * Half) * C
        <5>1. \A a, b \in Nat : a * (2 * b) = (2 * a) * b
          OBVIOUS
        <5> QED
          BY <2>2, <5>1, HalfFacts
      <4>4. (2 * Half) * C \in Nat
        BY <2>2, <2>p, HalfFacts
      <4> QED
        BY <2>3, <4>1, <4>2, <4>3, <4>4
    <3>2. C <= r * C /\ r * C <= C * d - C
      <4>1. \A a, b, c \in Nat : a >= 1 /\ a <= b - 1 => c <= a * c /\ a * c <= c * b - c
        OBVIOUS
      <4> QED
        BY <1>1, <2>2, <2>11, <4>1
    <3>3. m >= K + 1
      BY <2>2, <2>3, <2>5, <2>7, <3>1, <3>2
    <3>4. m <= K + C - 1
      BY <2>2, <2>3, <2>5, <2>8, <2>9, <3>1, <3>2 DEF L
    <3>5. m \div C = q
      <4>1. (q + 1) * C = K + C
        <5>1. \A a, b \in Nat : (a + 1) * b = a * b + b
          OBVIOUS
        <5> QED
          BY <1>1, <2>2, <5>1 DEF K
      <4>2. q * C <= m /\ m < (q + 1) * C
        BY <2>2, <2>3, <2>6, <3>3, <3>4, <4>1 DEF K
      <4> QED
        BY <1>1, <2>2, <2>6, <4>2, QuotientIs
    <3>6. m % C # 0
      <4>1. m = (m \div C) * C + (m % C)
        <5>1. \A a, b \in Nat : b >= 1 => a = (a \div b) * b + (a % b)
          OBVIOUS
        <5> QED
          BY <2>2, <2>6, <5>1
      <4>2. (m \div C) * C = K
        BY <3>5 DEF K
      <4> QED
        BY <2>3, <2>6, <3>3, <4>1, <4>2
    <3> QED
      BY <2>4, <2>11, <3>5, <3>6 DEF q, r
  <2> QED
    BY <1>1, <2>10, <2>11
<1> QED
  BY <1>2, <1>3

(* A whole number that fits is not rounded.                                *)
LEMMA RoundedIsExact ==
  ASSUME NEW n \in Int, Magnitude(n) < 2 * Half
  PROVE  Rounded(n) = n
<1>1. Magnitude(n) \in Nat /\ Sign(n) * Magnitude(n) = n
  BY DEF Magnitude, Sign
<1>2. Truncated(Quotient(Magnitude(n), 1, Prec)) = Magnitude(n) \div 1
  BY <1>1, HalfFacts, QuotientIsExact
<1>3. \A x \in Nat : x \div 1 = x
  OBVIOUS
<1> QED
  BY <1>1, <1>2, <1>3 DEF Rounded

(* mod_floor of whole numbers with a bit to spare is the remainder that    *)
(* has the sign of the divisor.                                            *)
LEMMA ModFloorIsRemainder ==
  ASSUME NEW a \in Int, NEW b \in Int, b # 0, Magnitude(a) <= Half, Magnitude(b) < Half
  PROVE  ModFloor(a, b) = Sign(b) * ((Sign(b) * a) % Magnitude(b))
<1> DEFINE A == Sign(b) * a
           B == Magnitude(b)
           F == A \div B
           R == A % B
           sign == Sign(a) * Sign(b)
           x == Quotient(Magnitude(a), Magnitude(b), Prec)
           floor == sign * Truncated(x) - IF sign < 0 /\ ~IsWhole(x) THEN 1 ELSE 0
<1>1. /\ A \in Int /\ B \in Nat /\ B >= 1 /\ Sign(b) \in {-1, 1} /\ b = Sign(b) * B
      /\ a = Sign(b) * A /\ -Half <= A /\ A <= Half /\ B < Half /\ Half \in Nat
      /\ Magnitude(a) \in Nat /\ sign \in {-1, 0, 1}
      /\ sign = 1 => A = Magnitude(a) /\ A > 0
      /\ sign = 0 => A = 0 /\ Magnitude(a) = 0
      /\ sign = -1 => A = -Magnitude(a) /\ A < 0
  BY HalfFacts DEF Sign, Magnitude
<1>2. /\ Truncated(x) = Magnitude(a) \div B
      /\ IsWhole(x) <=> Magnitude(a) % B = 0
  BY <1>1, QuotientIsExact
<1>3. F \in Int /\ R \in 0 .. B - 1 /\ A = F * B + R
  <2>1. \A c \in Int : \A d \in Nat : d >= 1 => /\ c \div d \in Int /\ c % d \in 0 .. d - 1
                                                /\ c = (c \div d) * d + (c % d)
    OBVIOUS
  <2> QED
    BY <1>1, <2>1
<1>4. floor = F
  <2>1. \A c, d \in Nat : d >= 1 =>
          (-c) \div d = -(c \div d) - (IF c % d = 0 THEN 0 ELSE 1)
    OBVIOUS
  <2>2. \A c, d \in Nat : d >= 1 => c \div d \in Nat
    OBVIOUS
  <2>3. CASE sign = 1
    BY <1>1, <1>2, <2>2, <2>3
  <2>4. CASE sign = 0
    BY <1>1, <1>2, <2>2, <2>4
  <2>5. CASE sign = -1
    <3> DEFINE c == Magnitude(a)
               t == c \div B
    <3>1. F = -t - (IF c % B = 0 THEN 0 ELSE 1)
      BY <1>1, <2>1, <2>5
    <3>2. t \in Nat /\ Truncated(x) = t /\ (IsWhole(x) <=> c % B = 0)
      BY <1>1, <1>2, <2>2
    <3> HIDE DEF F, B, c, t, x
    <3>3. floor = -1 * t - IF ~IsWhole(x) THEN 1 ELSE 0
      BY <2>5, <3>2
    <3> HIDE DEF floor
    <3> QED
      BY <3>1, <3>2, <3>3
  <2> QED
    BY <1>1, <2>3, <2>4, <2>5
<1>5. ModFloor(a, b) = Rounded(a - Rounded(b * Rounded(floor)))
  BY DEF ModFloor
<1> HIDE DEF A, B, F, R, sign, x, floor
<1>6. Rounded(F) = F
  <2>1. F <= Half /\ -Half <= F
    <3>1. \A c \in Int : \A d \in Nat : c >= 0 /\ d >= 1 => c <= c * d
      OBVIOUS
    <3>2. \A c \in Int : \A d \in Nat : c < 0 /\ d >= 1 => c * d + d <= c + 1
      OBVIOUS
    <3>3. F * B \in Int
      BY <1>1, <1>3
    <3>4. CASE F >= 0
      BY <1>1, <1>3, <3>1, <3>3, <3>4
    <3>5. CASE F < 0
      <4>1. F * B + B <= F + 1
        BY <1>1, <1>3, <3>2, <3>5
      <4> QED
        BY <1>1, <1>3, <3>3, <3>5, <4>1
    <3> QED
      BY <1>3, <3>4, <3>5
  <2>2. Magnitude(F) < 2 * Half
    BY <1>3, <2>1, HalfFacts DEF Magnitude
  <2> QED
    BY <1>3, <2>2, RoundedIsExact
<1>7. b * F = Sign(b) * (A - R) /\ A - R \in Int
  <2>1. \A s, c, d \in Int : (s * c) * d = s * (d * c)
    OBVIOUS
  <2>2. A - R = F * B
    BY <1>1, <1>3
  <2> QED
    BY <1>1, <1>3, <2>1, <2>2
<1>8. b * F \in Int /\ Magnitude(b * F) < 2 * Half
  BY <1>1, <1>3, <1>7 DEF Magnitude
<1>9. Rounded(b * F) = b * F
  BY <1>8, RoundedIsExact
<1>10. a - b * F = Sign(b) * R
  <2>1. CASE Sign(b) = 1
    BY <1>1, <1>3, <1>7, <2>1
  <2>2. CASE Sign(b) = -1
    BY <1>1, <1>3, <1>7, <2>2
  <2> QED
    BY <1>1, <2>1, <2>2
<1>11. Sign(b) * R \in Int /\ Magnitude(Sign(b) * R) < 2 * Half
  BY <1>1, <1>3 DEF Magnitude
<1>12. Rounded(Sign(b) * R) = Sign(b) * R
  BY <1>11, RoundedIsExact
<1> QED
  BY <1>4, <1>5, <1>6, <1>9, <1>10, <1>12 DEF R, A, B

(* A remainder is the number below the divisor that is a multiple away.    *)
LEMMA RemainderIs ==
  ASSUME NEW d \in Nat, d >= 1, NEW k \in Int, NEW r \in 0 .. d - 1
  PROVE  (k * d + r) % d = r
<1> DEFINE x == k * d + r
           q == x \div d
           m == x % d
<1>1. \A a, b \in Int : a * b \in Int
  OBVIOUS
<1>2. k * d \in Int /\ x \in Int
  BY <1>1
<1> HIDE DEF x
<1>3. \A c \in Int : \A e \in Nat : e >= 1 => /\ c \div e \in Int /\ c % e \in 0 .. e - 1
                                              /\ c = (c \div e) * e + (c % e)
  OBVIOUS
<1>4. q \in Int /\ m \in 0 .. d - 1 /\ x = q * d + m
  BY <1>2, <1>3
<1>5. \A a, b \in Int : a + 1 <= b => a * d + d <= b * d
  OBVIOUS
<1> HIDE DEF q, m
<1>6. x = k * d + r /\ q * d \in Int
  BY <1>1, <1>4 DEF x
<1>7. ~(q + 1 <= k) /\ ~(k + 1 <= q)
  BY <1>2, <1>4, <1>5, <1>6
<1>8. q = k
  BY <1>4, <1>7
<1>9. m = r
  BY <1>2, <1>4, <1>6, <1>8
<1> QED
  BY <1>9 DEF m, x

(* What is added to a number may as well be added to its remainder.        *)
LEMMA SumOfRemainder ==
  ASSUME NEW d \in Nat, d >= 1, NEW u \in Int, NEW v \in Int
  PROVE  (u + v) % d = ((u % d) + v) % d
<1>1. \A c \in Int : \A e \in Nat : e >= 1 => /\ c \div e \in Int /\ c % e \in 0 .. e - 1
                                              /\ c = (c \div e) * e + (c % e)
  OBVIOUS
<1> DEFINE k == u \div d
           r == u % d
           w == r + v
           l == w \div d
           m == w % d
<1>2. k \in Int /\ r \in 0 .. d - 1 /\ u = k * d + r
  BY <1>1
<1> HIDE DEF k, r
<1>3. w \in Int
  BY <1>2
<1>4. l \in Int /\ m \in 0 .. d - 1 /\ w = l * d + m
  <2> HIDE DEF w
  <2> QED
    BY <1>1, <1>3
<1>5. u + v = k * d + w
  BY <1>2
<1> HIDE DEF l, m, w
<1>6. (k + l) * d = k * d + l * d /\ k + l \in Int /\ k * d \in Int /\ l * d \in Int
  <2>1. \A a, b, c \in Int : (a + b) * c = a * c + b * c /\ a * b \in Int
    OBVIOUS
  <2> QED
    BY <1>2, <1>4, <2>1
<1>7. u + v = (k + l) * d + m
  BY <1>4, <1>5, <1>6
<1>8. (u + v) % d = m
  BY <1>4, <1>6, <1>7, RemainderIs
<1> QED
  BY <1>8 DEF m, w, r

(* The inductive invariant: the numbers are whole, and after a call the    *)
(* index is the remainder of all that was added up.                        *)
NumericsInv ==
  /\ first \in Starts /\ divisor \in Divisors
  /\ moved \in Int /\ index \in Int /\ wraps \in Nat
  /\ wraps = 0 => index = first /\ moved = 0
  /\ wraps > 0 => divisor # 0
  /\ WrapsAddUp

LEMMA WrapKeeps == NumericsInv /\ Wrap => NumericsInv'
<1> SUFFICES ASSUME NumericsInv, Wrap
             PROVE  NumericsInv'
  OBVIOUS
<1> DEFINE B == Magnitude(divisor)
           S == Sign(divisor)
<1>1. PICK s \in Steps : moved' = moved + s /\ index' = ModFloor(index + s, divisor)
  BY DEF Wrap
<1>2. divisor # 0 /\ wraps' = wraps + 1 /\ first' = first /\ divisor' = divisor
  BY DEF Wrap
<1>3. /\ first \in Starts /\ divisor \in Divisors /\ first \in Int /\ divisor \in Int /\ s \in Int
      /\ moved \in Int /\ index \in Int /\ wraps \in Nat
  BY NumericsBounds DEF NumericsInv
<1>4. /\ B \in Nat /\ B >= 1 /\ S \in {-1, 1} /\ S * S = 1 /\ B < Half
  <2>1. B < Half
    BY <1>3, NumericsBounds DEF Half
  <2> QED
    BY <1>2, <1>3, <2>1 DEF Magnitude, Sign
<1>5. index' = S * ((S * (index + s)) % B)
  <2>1. Magnitude(index + s) <= Half
    <3>1. CASE wraps = 0
      <4>1. Magnitude(first + s) <= Half
        BY <1>3, NumericsBounds DEF Half
      <4> QED
        BY <3>1, <4>1 DEF NumericsInv
    <3>2. CASE wraps > 0
      <4>1. B + Magnitude(s) <= Half
        BY <1>3, NumericsBounds DEF Half
      <4>2. index = S * ((S * (first + moved)) % B)
        BY <3>2 DEF NumericsInv, WrapsAddUp
      <4>3. (S * (first + moved)) % B \in 0 .. B - 1
        <5>1. \A c \in Int : \A d \in Nat : d >= 1 => c % d \in 0 .. d - 1
          OBVIOUS
        <5>2. S * (first + moved) \in Int
          BY <1>3, <1>4
        <5> QED
          BY <1>4, <5>1, <5>2
      <4> DEFINE r == (S * (first + moved)) % B
      <4>4. index = S * r /\ r \in 0 .. B - 1
        BY <4>2, <4>3
      <4> HIDE DEF B, S, r
      <4>5. index = r \/ index = -r
        BY <1>4, <4>4
      <4> QED
        BY <1>3, <1>4, <4>1, <4>4, <4>5, HalfFacts DEF Magnitude
    <3> QED
      BY <1>3, <3>1, <3>2
  <2>2. index + s \in Int
    BY <1>3
  <2> HIDE DEF Half
  <2> QED
    BY <1>1, <1>2, <1>3, <1>4, <2>1, <2>2, ModFloorIsRemainder
<1> HIDE DEF B, S
<1>6. (S * (index + s)) % B = (S * (first + moved + s)) % B
  <2>1. CASE wraps = 0
    BY <1>3, <2>1 DEF NumericsInv
  <2>2. CASE wraps > 0
    <3> DEFINE u == S * (first + moved)
               v == S * s
    <3>1. index = S * (u % B)
      BY <2>2 DEF NumericsInv, WrapsAddUp, S, B
    <3>2. u \in Int /\ v \in Int /\ S * (first + moved + s) = u + v
      BY <1>3, <1>4
    <3> HIDE DEF u, v
    <3>3. \A c \in Int : \A d \in Nat : d >= 1 => /\ c \div d \in Int /\ c % d \in 0 .. d - 1
                                                  /\ c = (c \div d) * d + (c % d)
      OBVIOUS
    <3>4. u % B \in Int
      BY <1>4, <3>2, <3>3
    <3>5. S * (index + s) = (u % B) + v
      BY <1>3, <1>4, <3>1, <3>4 DEF v
    <3>6. (u + v) % B = ((u % B) + v) % B
      BY <1>4, <3>2, SumOfRemainder
    <3> QED
      BY <3>2, <3>5, <3>6
  <2> QED
    BY <1>3, <2>1, <2>2
<1>7. index' = S * ((S * (first + moved + s)) % B)
  BY <1>5, <1>6
<1>8. index' \in Int
  <2>1. \A c \in Int : \A d \in Nat : d >= 1 => c % d \in Int
    OBVIOUS
  <2>2. S * (first + moved + s) \in Int
    BY <1>3, <1>4
  <2> QED
    BY <1>4, <1>7, <2>1, <2>2
<1>9. WrapsAddUp'
  <2>1. first' + moved' = first + moved + s
    BY <1>1, <1>2, <1>3
  <2> QED
    BY <1>2, <1>7, <2>1 DEF WrapsAddUp, S, B
<1> QED
  BY <1>1, <1>2, <1>3, <1>8, <1>9 DEF NumericsInv

(* For any precision, any divisors of a bit less, and any starts and steps *)
(* that keep what is wrapped to a bit less: an index that mod_floor wraps  *)
(* again and again is the remainder of all that was added up.              *)
THEOREM WrappedAsAdded == NumericsSpec => []WrapsAddUp
<1>1. NumericsInit => NumericsInv
  <2>1. \A n \in Starts : n \in Int
    BY NumericsBounds
  <2> QED
    BY <2>1 DEF NumericsInit, NumericsInv, WrapsAddUp
<1>2. NumericsInv /\ [NumericsNext]_numericsVars => NumericsInv'
  <2>1. NumericsInv /\ UNCHANGED numericsVars => NumericsInv'
    BY DEF NumericsInv, WrapsAddUp, numericsVars
  <2> QED
    BY <2>1, WrapKeeps DEF NumericsNext
<1>3. NumericsInv => WrapsAddUp
  BY DEF NumericsInv
<1> QED
  BY <1>1, <1>2, <1>3, PTL DEF NumericsSpec

-----------------------------------------------------------------------------
(* Planning and applying                                                   *)

HonestTable == Honest(Functions, Exposed)

\* The two views of the arguments, which nothing changes.
Arguments ==
  /\ fn \in Functions
  /\ DOMAIN shown = DOMAIN given
  /\ \A k \in DOMAIN given : /\ given[k] \in Finals(fn, k)
                             /\ shown[k] \in Plans(fn, k, given[k])

Settings(seen) == { <<k, Setting(seen[k])>> : k \in DOMAIN given \ {Stray} }

SettledSoFar(seen) ==
  { <<k, Setting(seen[k])>> : k \in (DOMAIN given \ todo) \ {Stray} }

\* How far the evaluation in progress has come.
InProgress ==
  reading =>
    /\ turn # "over"
    /\ ~Deferred(fn, Seen)
    /\ FormAccepted(fn)
    /\ todo \subseteq DOMAIN given
    /\ got = SettledSoFar(Seen)
    /\ \A k \in DOMAIN given \ todo : Accepts(fn, k, Seen[k])

AllAccepted(seen) == \A k \in DOMAIN given : Accepts(fn, k, seen[k])

\* Why an evaluation gave the answer it gave.
Answered(a, seen) ==
  \/ a = NoAnswer
  \/ /\ a = Unknown
     /\ Deferred(fn, seen)
  \/ /\ a = Refused
     /\ ~Deferred(fn, seen)
     /\ ~FormAccepted(fn) \/ ~AllAccepted(seen)
  \/ /\ a = Settled(Settings(seen))
     /\ ~Deferred(fn, seen)
     /\ FormAccepted(fn)
     /\ AllAccepted(seen)

Shape ==
  /\ turn \in {"plan", "apply", "over"}
  /\ reading \in BOOLEAN
  /\ answer = [plan |-> answer["plan"], apply |-> answer["apply"]]

IInv == /\ Arguments
        /\ Shape
        /\ InProgress
        /\ Answered(answer["plan"], shown)
        /\ Answered(answer["apply"], given)

-----------------------------------------------------------------------------
\* What is known at last never defers a call.
LEMMA GivenIsKnown ==
  ASSUME Arguments
  PROVE  ~Deferred(fn, given)
BY DEF Arguments, Deferred, Noticed, Finals

\* Where the plan did not defer, each part is shown as it is, or is refused
\* whichever way it is looked at.
LEMMA ShownAsGiven ==
  ASSUME HonestTable, Arguments, ~Deferred(fn, shown), NEW k \in DOMAIN given
  PROVE  \/ shown[k] = given[k]
         \/ /\ ~Accepts(fn, k, shown[k])
            /\ ~Accepts(fn, k, given[k])
<1>1. /\ fn \in Functions
      /\ shown[k] \in Plans(fn, k, given[k])
  BY DEF Arguments
<1>2. CASE fn \notin Exposed
  BY <1>1, <1>2 DEF Plans
<1>3. CASE fn \in Exposed
  <2>1. ~Noticed(fn, shown[k])
    <3>1. Searched(fn, k)
      BY <1>1, <1>3 DEF HonestTable, Honest, Searched
    <3>2. k \in DOMAIN shown
      BY DEF Arguments
    <3> QED BY <3>1, <3>2 DEF Deferred
  <2>2. shown[k] \notin {"unknown", "untyped"}
    BY <2>1 DEF Noticed
  <2>3. \/ shown[k] = given[k]
        \/ /\ shown[k] = "holed"
           /\ k \in fn.lists \cup fn.objects \cup fn.trees \cup {Stray}
    BY <1>1, <1>3, <2>2 DEF Plans
  <2>4. CASE shown[k] = "holed"
    <3>1. fn.shallow
      BY <2>1, <2>4 DEF Noticed
    <3>2. CASE fn.shallow = TRUE
      <4>1. /\ fn.legacy = FALSE
            /\ fn.lists \cup fn.objects \cup fn.trees = {}
        BY <1>1, <1>3, <3>2 DEF HonestTable, Honest
      <4>2. shown[k] = given[k] \/ k = Stray
        BY <2>3, <4>1
      <4> QED BY <4>1, <4>2 DEF Accepts
    <3>3. fn.shallow = TRUE \/ ~fn.shallow
      OBVIOUS
    <3> QED BY <3>1, <3>2, <3>3
  <2> QED BY <2>3, <2>4
<1> QED BY <1>2, <1>3

-----------------------------------------------------------------------------
LEMMA InitIInv == Init => IInv
<1> SUFFICES ASSUME Init PROVE IInv
  OBVIOUS
<1>1. Arguments
  <2>1. PICK K : /\ given \in [K \cup fn.inputs -> Final]
                 /\ \A k \in DOMAIN given : given[k] \in Finals(fn, k)
                 /\ shown \in [K \cup fn.inputs -> Final \cup Holes]
                 /\ \A k \in DOMAIN given : shown[k] \in Plans(fn, k, given[k])
    BY DEF Init
  <2> QED BY <2>1 DEF Init, Arguments
<1>2. Shape
  BY DEF Init, Shape
<1>3. InProgress
  BY DEF Init, InProgress
<1>4. Answered(answer["plan"], shown) /\ Answered(answer["apply"], given)
  BY DEF Init, Answered
<1> QED BY <1>1, <1>2, <1>3, <1>4 DEF IInv

\* An answer that says why it was given keeps the invariant.
LEMMA ReplyKeepsIInv ==
  ASSUME IInv, turn # "over", NEW a, Answered(a, Seen), Reply(a),
         UNCHANGED <<fn, form, given, shown>>
  PROVE  IInv'
<1>1. Arguments'
  BY DEF IInv, Arguments, Finals, Plans
<1>2. Shape'
  BY DEF IInv, Shape, Reply
<1>3. InProgress'
  BY DEF Reply, InProgress
<1>4. Answered(answer["plan"], shown)' /\ Answered(answer["apply"], given)'
  <2>1. CASE turn = "plan"
    <3>1. /\ answer'["plan"] = a
          /\ answer'["apply"] = answer["apply"]
      BY <2>1 DEF IInv, Shape, Reply
    <3>2. Answered(a, shown) /\ Answered(answer["apply"], given)
      BY <2>1 DEF IInv, Seen
    <3> QED BY <3>1, <3>2 DEF Answered, Deferred, Searched, Noticed,
            FormAccepted, AllAccepted, Accepts, Settings
  <2>2. CASE turn = "apply"
    <3>1. /\ answer'["apply"] = a
          /\ answer'["plan"] = answer["plan"]
      BY <2>2 DEF IInv, Shape, Reply
    <3>2. Answered(a, given) /\ Answered(answer["plan"], shown)
      BY <2>2 DEF IInv, Seen
    <3> QED BY <3>1, <3>2 DEF Answered, Deferred, Searched, Noticed,
            FormAccepted, AllAccepted, Accepts, Settings
  <2> QED BY <2>1, <2>2 DEF IInv, Shape
<1> QED BY <1>1, <1>2, <1>3, <1>4 DEF IInv

\* A step that neither answers nor touches the arguments keeps all of the
\* invariant but the state of the evaluation.
LEMMA ReadingKeepsIInv ==
  ASSUME IInv, UNCHANGED <<fn, form, given, shown, turn, answer>>,
         reading' \in BOOLEAN, InProgress'
  PROVE  IInv'
<1>1. Arguments'
  BY DEF IInv, Arguments, Finals, Plans
<1>2. Shape'
  BY DEF IInv, Shape
<1>3. Answered(answer["plan"], shown)' /\ Answered(answer["apply"], given)'
  BY DEF IInv, Answered, Deferred, Searched, Noticed, FormAccepted, AllAccepted,
         Accepts, Settings
<1> QED BY <1>1, <1>2, <1>3 DEF IInv

LEMMA BeginKeepsIInv ==
  ASSUME IInv, Begin
  PROVE  IInv'
<1>1. turn # "over" /\ UNCHANGED <<fn, form, given, shown>>
  BY DEF Begin
<1>2. CASE Deferred(fn, Seen)
  <2>1. Reply(Unknown) /\ Answered(Unknown, Seen)
    BY <1>2 DEF Begin, Answered
  <2> QED BY <1>1, <2>1, ReplyKeepsIInv
<1>3. CASE ~Deferred(fn, Seen) /\ ~FormAccepted(fn)
  <2>1. Reply(Refused) /\ Answered(Refused, Seen)
    BY <1>3 DEF Begin, Answered
  <2> QED BY <1>1, <2>1, ReplyKeepsIInv
<1>4. CASE ~Deferred(fn, Seen) /\ FormAccepted(fn)
  <2>1. /\ reading' = TRUE /\ todo' = DOMAIN given /\ got' = {}
        /\ UNCHANGED <<turn, answer>>
    BY <1>4 DEF Begin
  <2>2. Seen' = Seen
    BY <1>1, <2>1 DEF Seen
  <2>3. ~Deferred(fn, Seen)' /\ FormAccepted(fn)'
    BY <1>1, <1>4, <2>2 DEF Deferred, Searched, Noticed, FormAccepted
  <2>4. InProgress'
    BY <1>1, <2>1, <2>3 DEF InProgress, SettledSoFar
  <2> QED BY <1>1, <2>1, <2>4, ReadingKeepsIInv
<1> QED BY <1>2, <1>3, <1>4

LEMMA VisitKeepsIInv ==
  ASSUME HonestTable, IInv, NEW k \in todo, Visit(k)
  PROVE  IInv'
<1>1. /\ reading
      /\ UNCHANGED <<fn, form, given, shown>>
  BY DEF Visit
<1>2. /\ turn # "over" /\ ~Deferred(fn, Seen) /\ FormAccepted(fn)
      /\ todo \subseteq DOMAIN given
      /\ got = SettledSoFar(Seen)
      /\ \A j \in DOMAIN given \ todo : Accepts(fn, j, Seen[j])
  BY <1>1 DEF IInv, InProgress
<1>3. CASE ~Accepts(fn, k, Seen[k])
  <2>1. Reply(Refused)
    BY <1>3 DEF Visit
  <2>2. Answered(Refused, Seen)
    BY <1>2, <1>3 DEF Answered, AllAccepted
  <2> QED BY <1>1, <1>2, <2>1, <2>2, ReplyKeepsIInv
<1>4. CASE Accepts(fn, k, Seen[k])
  <2>1. fn.first = FALSE
    BY DEF HonestTable, Honest, IInv, Arguments
  <2>2. /\ got' = got \cup (IF k = Stray THEN {} ELSE {<<k, Setting(Seen[k])>>})
        /\ todo' = todo \ {k}
        /\ UNCHANGED <<turn, reading, answer>>
    BY <1>4, <2>1 DEF Visit
  <2>3. Seen' = Seen
    BY <1>1, <2>2 DEF Seen
  <2>4. ~Deferred(fn, Seen)' /\ FormAccepted(fn)'
    BY <1>1, <1>2, <2>3 DEF Deferred, Searched, Noticed, FormAccepted
  <2>5. got' = SettledSoFar(Seen)'
    BY <1>1, <1>2, <2>2, <2>3 DEF SettledSoFar
  <2>6. \A j \in DOMAIN given \ todo' : Accepts(fn, j, Seen[j])
    BY <1>2, <1>4, <2>2
  <2>7. (\A j \in DOMAIN given \ todo : Accepts(fn, j, Seen[j]))'
    BY <1>1, <2>3, <2>6 DEF Accepts
  <2>8. InProgress'
    BY <1>1, <1>2, <2>2, <2>4, <2>5, <2>7 DEF InProgress
  <2>9. reading' \in BOOLEAN
    BY <2>2 DEF IInv, Shape
  <2> QED BY <1>1, <2>2, <2>8, <2>9, ReadingKeepsIInv
<1> QED BY <1>3, <1>4

LEMMA FinishKeepsIInv ==
  ASSUME IInv, Finish
  PROVE  IInv'
<1>1. /\ reading /\ todo = {} /\ Reply(Settled(got))
      /\ UNCHANGED <<fn, form, given, shown>>
  BY DEF Finish
<1>2. /\ turn # "over" /\ ~Deferred(fn, Seen) /\ FormAccepted(fn)
      /\ got = SettledSoFar(Seen)
      /\ \A k \in DOMAIN given \ todo : Accepts(fn, k, Seen[k])
  BY <1>1 DEF IInv, InProgress
<1>3. got = Settings(Seen)
  BY <1>1, <1>2 DEF SettledSoFar, Settings
<1>4. Answered(Settled(got), Seen)
  BY <1>1, <1>2, <1>3 DEF Answered, AllAccepted
<1> QED BY <1>1, <1>2, <1>4, ReplyKeepsIInv

LEMMA StepKeepsIInv ==
  ASSUME HonestTable, IInv, [Next]_vars
  PROVE  IInv'
<1>1. CASE Begin
  BY <1>1, BeginKeepsIInv
<1>2. CASE \E k \in todo : Visit(k)
  BY <1>2, VisitKeepsIInv
<1>3. CASE Finish
  BY <1>3, FinishKeepsIInv
<1>4. CASE UNCHANGED vars
  <2>1. /\ UNCHANGED <<fn, form, given, shown, turn, answer>>
        /\ UNCHANGED <<reading, todo, got>>
    BY <1>4 DEF vars
  <2>2. Seen' = Seen
    BY <2>1 DEF Seen
  <2>3. InProgress'
    BY <2>1, <2>2 DEF IInv, InProgress, Deferred, Searched, Noticed,
       FormAccepted, Accepts, SettledSoFar
  <2>4. reading' \in BOOLEAN
    BY <2>1 DEF IInv, Shape
  <2> QED BY <2>1, <2>3, <2>4, ReadingKeepsIInv
<1> QED BY <1>1, <1>2, <1>3, <1>4 DEF Next

THEOREM IInvHolds == HonestTable /\ Spec => []IInv
<1>1. Init => IInv
  BY InitIInv
<1>2. HonestTable /\ IInv /\ [Next]_vars => IInv'
  BY StepKeepsIInv
<1>3. HonestTable => HonestTable'
  BY DEF HonestTable, Honest
<1> QED BY <1>1, <1>2, <1>3, PTL DEF Spec

-----------------------------------------------------------------------------
LEMMA IInvGivesFinal ==
  ASSUME HonestTable, IInv
  PROVE  KnownPlanIsFinal /\ RefusalIsFinal
<1>1. Arguments /\ ~Deferred(fn, given)
  BY GivenIsKnown DEF IInv
<1>2. KnownPlanIsFinal
  <2> SUFFICES ASSUME answer["plan"].kind = "settled",
                      answer["apply"].kind # "none"
               PROVE  answer["apply"] = answer["plan"]
    BY DEF KnownPlanIsFinal
  <2>1. /\ answer["plan"] = Settled(Settings(shown))
        /\ ~Deferred(fn, shown) /\ FormAccepted(fn) /\ AllAccepted(shown)
    BY DEF IInv, Answered, NoAnswer, Unknown, Refused, Settled
  <2>2. \A k \in DOMAIN given : shown[k] = given[k]
    BY <1>1, <2>1, ShownAsGiven DEF AllAccepted
  <2>3. AllAccepted(given) /\ Settings(given) = Settings(shown)
    BY <2>1, <2>2 DEF AllAccepted, Settings
  <2>4. answer["apply"] = Settled(Settings(given))
    BY <1>1, <2>1, <2>3 DEF IInv, Answered, NoAnswer
  <2> QED BY <2>1, <2>3, <2>4
<1>3. RefusalIsFinal
  <2> SUFFICES ASSUME answer["plan"].kind = "refused",
                      answer["apply"].kind # "none"
               PROVE  answer["apply"].kind = "refused"
    BY DEF RefusalIsFinal
  <2>1. /\ ~Deferred(fn, shown)
        /\ ~FormAccepted(fn) \/ ~AllAccepted(shown)
    BY DEF IInv, Answered, NoAnswer, Unknown, Refused, Settled
  <2>2. ~FormAccepted(fn) \/ ~AllAccepted(given)
    <3>1. CASE ~FormAccepted(fn)
      BY <3>1
    <3>2. CASE ~AllAccepted(shown)
      <4>1. PICK k \in DOMAIN given : ~Accepts(fn, k, shown[k])
        BY <3>2 DEF AllAccepted
      <4>2. ~Accepts(fn, k, given[k])
        BY <1>1, <2>1, <4>1, ShownAsGiven
      <4> QED BY <4>2 DEF AllAccepted
    <3> QED BY <2>1, <3>1, <3>2
  <2>3. answer["apply"] = Refused
    BY <1>1, <2>2 DEF IInv, Answered, NoAnswer
  <2> QED BY <2>3 DEF Refused
<1> QED BY <1>2, <1>3

\* What a plan knows, the apply confirms: with an honest table, whatever the
\* functions, their options and the values.
THEOREM PlansAreFinal == HonestTable /\ Spec => []KnownPlanIsFinal
<1>1. HonestTable /\ IInv => KnownPlanIsFinal
  BY IInvGivesFinal
<1>2. HonestTable => HonestTable'
  BY DEF HonestTable, Honest
<1> QED BY <1>1, <1>2, IInvHolds, PTL

\* What a plan refuses, the apply would have refused.
THEOREM RefusalsAreFinal == HonestTable /\ Spec => []RefusalIsFinal
<1>1. HonestTable /\ IInv => RefusalIsFinal
  BY IInvGivesFinal
<1>2. HonestTable => HonestTable'
  BY DEF HonestTable, Honest
<1> QED BY <1>1, <1>2, IInvHolds, PTL

-----------------------------------------------------------------------------
\* The type invariant needs no honest table.  The settings collected so far
\* are among those an answer may hold.
Sound == { p \in Pairs : Accepts(fn, p[1], p[2]) }

TypeInv == /\ TypeOK
           /\ got \subseteq Sound
           /\ reading => turn # "over"

LEMMA ReadValue ==
  ASSUME TypeOK, NEW k \in DOMAIN given, k # Stray, Accepts(fn, k, Seen[k])
  PROVE  <<k, Setting(Seen[k])>> \in Sound
<1>1. k \in fn.keys \cup fn.inputs /\ Seen[k] \in Final \cup Holes
  BY DEF TypeOK, Seen
<1>2. Setting(Seen[k]) \in Final \cup Holes
  BY <1>1 DEF Setting, Final
<1>3. Accepts(fn, k, Setting(Seen[k]))
  BY DEF Accepts, Setting
<1> QED BY <1>1, <1>2, <1>3 DEF Sound, Pairs

LEMMA InitTypeInv == Init => TypeInv
<1> SUFFICES ASSUME Init PROVE TypeInv
  OBVIOUS
<1>1. PICK K : /\ K \subseteq fn.keys \cup {Stray}
               /\ given \in [K \cup fn.inputs -> Final]
               /\ shown \in [K \cup fn.inputs -> Final \cup Holes]
  BY DEF Init
<1>2. /\ DOMAIN given \subseteq fn.keys \cup fn.inputs \cup {Stray}
      /\ DOMAIN shown = DOMAIN given
      /\ \A k \in DOMAIN given : given[k] \in Final /\ shown[k] \in Final \cup Holes
  BY <1>1
<1>3. \A t \in DOMAIN answer :
        /\ answer[t].kind \in {"none", "unknown", "refused", "settled"}
        /\ answer[t].got = {}
  BY DEF Init, NoAnswer
<1> QED BY <1>2, <1>3 DEF Init, TypeInv, TypeOK

\* The parts of the type invariant that no step touches, in the next state.
LEMMA SameArguments ==
  ASSUME TypeOK, UNCHANGED <<fn, form, given, shown>>
  PROVE  /\ Sound' = Sound /\ Pairs' = Pairs
         /\ fn' \in Functions /\ form' \in Forms
         /\ DOMAIN given' \subseteq fn'.keys \cup fn'.inputs \cup {Stray}
         /\ DOMAIN shown' = DOMAIN given'
         /\ \A k \in DOMAIN given' :
               given'[k] \in Final /\ shown'[k] \in Final \cup Holes
BY DEF TypeOK, Sound, Pairs, Accepts

LEMMA ReplyKeepsType ==
  ASSUME TypeInv, UNCHANGED <<fn, form, given, shown>>, turn # "over",
         NEW a, Reply(a), a.kind \in {"unknown", "refused", "settled"},
         a.got \subseteq Sound
  PROVE  TypeInv'
<1>1. TypeOK
  BY DEF TypeInv
<1>2. /\ turn' \in {"plan", "apply", "over"} /\ reading' = FALSE
      /\ todo' = {} /\ got' = {}
  BY <1>1 DEF Reply, TypeOK
<1>3. DOMAIN answer' = {"plan", "apply"}
  BY <1>1 DEF Reply, TypeOK
<1>4. \A t \in DOMAIN answer' : answer'[t] = a \/ answer'[t] = answer[t]
  BY <1>1 DEF Reply, TypeOK
<1>5. \A t \in DOMAIN answer' :
        /\ answer'[t].kind \in {"none", "unknown", "refused", "settled"}
        /\ answer'[t].got \subseteq Sound'
  BY <1>1, <1>3, <1>4, SameArguments DEF TypeOK, Sound
<1> QED BY <1>1, <1>2, <1>3, <1>5, SameArguments DEF TypeInv, TypeOK, Sound

LEMMA ReadingKeepsType ==
  ASSUME TypeInv, UNCHANGED <<fn, form, given, shown, turn, answer>>,
         reading' \in BOOLEAN, todo' \subseteq DOMAIN given, got' \subseteq Sound,
         reading' => turn # "over"
  PROVE  TypeInv'
<1>1. TypeOK
  BY DEF TypeInv
<1>2. /\ turn' \in {"plan", "apply", "over"}
      /\ DOMAIN answer' = {"plan", "apply"}
      /\ todo' \subseteq DOMAIN given'
  BY <1>1 DEF TypeOK
<1>3. \A t \in DOMAIN answer' :
        /\ answer'[t].kind \in {"none", "unknown", "refused", "settled"}
        /\ answer'[t].got \subseteq Sound'
  BY <1>1, SameArguments DEF TypeOK, Sound
<1>4. got' \subseteq Pairs'
  BY <1>1, SameArguments DEF Sound
<1> QED BY <1>1, <1>2, <1>3, <1>4, SameArguments DEF TypeInv, TypeOK, Sound

LEMMA StepKeepsType == TypeInv /\ [Next]_vars => TypeInv'
<1> SUFFICES ASSUME TypeInv, [Next]_vars PROVE TypeInv'
  OBVIOUS
<1>0. /\ TypeOK /\ got \subseteq Sound
      /\ reading => turn # "over"
  BY DEF TypeInv
<1>1. CASE Begin
  <2>1. UNCHANGED <<fn, form, given, shown>> /\ turn # "over"
    BY <1>1 DEF Begin
  <2>2. CASE Reply(Unknown) \/ Reply(Refused)
    BY <2>1, <2>2, ReplyKeepsType DEF Unknown, Refused
  <2>3. CASE /\ reading' = TRUE /\ todo' = DOMAIN given /\ got' = {}
             /\ UNCHANGED <<turn, answer>>
    BY <2>1, <2>3, ReadingKeepsType
  <2> QED BY <1>1, <2>2, <2>3 DEF Begin
<1>2. ASSUME NEW k \in todo, Visit(k)
      PROVE  TypeInv'
  <2>0. turn # "over"
    BY <1>0, <1>2 DEF Visit
  <2>1. UNCHANGED <<fn, form, given, shown>> /\ k \in DOMAIN given
    BY <1>0, <1>2 DEF Visit, TypeOK
  <2>2. CASE ~Accepts(fn, k, Seen[k])
    <3>1. Reply(Refused)
      BY <1>2, <2>2 DEF Visit
    <3> QED BY <2>0, <2>1, <3>1, ReplyKeepsType DEF Refused
  <2>3. CASE Accepts(fn, k, Seen[k])
    <3>1. /\ got' = got \cup (IF k = Stray THEN {} ELSE {<<k, Setting(Seen[k])>>})
          /\ todo' \subseteq todo
          /\ UNCHANGED <<turn, reading, answer>>
      BY <1>2, <2>3 DEF Visit
    <3>2. got' \subseteq Sound
      BY <1>0, <2>1, <2>3, <3>1, ReadValue
    <3>3. todo' \subseteq DOMAIN given /\ reading' \in BOOLEAN
      BY <1>0, <3>1 DEF TypeOK
    <3> QED BY <2>0, <2>1, <3>1, <3>2, <3>3, ReadingKeepsType
  <2> QED BY <2>2, <2>3
<1>3. CASE Finish
  <2>1. /\ UNCHANGED <<fn, form, given, shown>>
        /\ Reply(Settled(got)) /\ turn # "over"
    BY <1>0, <1>3 DEF Finish
  <2> QED BY <1>0, <2>1, ReplyKeepsType DEF Settled
<1>4. CASE UNCHANGED vars
  <2>1. UNCHANGED <<fn, form, given, shown, turn, answer>>
    BY <1>4 DEF vars
  <2>2. /\ reading' \in BOOLEAN /\ todo' \subseteq DOMAIN given
        /\ got' \subseteq Sound
        /\ reading' => turn # "over"
    BY <1>0, <1>4 DEF vars, TypeOK
  <2> QED BY <2>1, <2>2, ReadingKeepsType
<1> QED BY <1>1, <1>2, <1>3, <1>4 DEF Next

\* The type invariant, for any table of functions.
THEOREM PlanTypeCorrect == Spec => []TypeOK
<1>1. TypeInv => TypeOK
  BY DEF TypeInv
<1> QED BY <1>1, InitTypeInv, StepKeepsType, PTL DEF Spec

-----------------------------------------------------------------------------
(* Numbers and their rounding                                              *)

(* Products, for leaves that are about more than one of them.              *)
LEMMA Products ==
  /\ \A a, b \in Nat : a * b \in Nat /\ a * b = b * a
  /\ \A a, b, c \in Nat : (a + b) * c = a * c + b * c /\ (a * b) * c = a * (b * c)
<1>1. \A a, b \in Nat : a * b \in Nat /\ a * b = b * a
  OBVIOUS
<1>2. \A a, b, c \in Nat : (a + b) * c = a * c + b * c
  OBVIOUS
<1>3. \A a, b, c \in Nat : (a * b) * c = a * (b * c)
  OBVIOUS
<1> QED
  BY <1>1, <1>2, <1>3

HighBit == 2 ^ (FloatBits - 1)
TopUnit == 2 * Int64Bits

LEMMA HighBitFacts == HighBit \in Nat /\ HighBit >= 1 /\ TopUnit \in Nat
<1>1. FloatBits - 1 \in Nat /\ Int64Bits \in Nat
  BY ValuesAssumption
<1> QED
  BY <1>1, PowerType DEF HighBit, TopUnit

(* The unit of a number is the largest that leaves it all its bits.        *)
LEMMA UnitIs ==
  ASSUME NEW m \in Nat
  PROVE  \E j \in 0 .. TopUnit :
           /\ UnitOf(m) = 2 ^ j /\ 2 ^ j \in Nat /\ 2 ^ j >= 1
           /\ j = 0 \/ m >= 2 ^ j * HighBit
           /\ j < TopUnit => m < 2 ^ (j + 1) * HighBit
<1> DEFINE Far == { i \in 0 .. TopUnit : Reaches(m, 2 ^ (TopUnit - i)) }
<1>1. 2 ^ 0 = 1 /\ \A j \in 0 .. TopUnit : 2 ^ j \in Nat /\ 2 ^ j >= 1
  BY PowerType
<1>2. TopUnit \in Far
  BY <1>1, HighBitFacts DEF Reaches
<1>3. PICK f \in Far : \A i \in Far : f <= i
  <2>1. Far \subseteq Nat /\ Far # {}
    BY <1>2
  <2> QED
    BY <2>1, FirstPosition
<1> DEFINE j == TopUnit - f
<1>4. j \in 0 .. TopUnit /\ Reaches(m, 2 ^ j)
  BY <1>3, HighBitFacts
<1>5. \A i \in 0 .. TopUnit : i > j => ~Reaches(m, 2 ^ i)
  <2> SUFFICES ASSUME NEW i \in 0 .. TopUnit, i > j, Reaches(m, 2 ^ i)
               PROVE  FALSE
    OBVIOUS
  <2>1. TopUnit - (TopUnit - i) = i /\ TopUnit - i \in 0 .. TopUnit /\ TopUnit - i < f
    BY <1>3, HighBitFacts
  <2>2. TopUnit - i \in Far
    BY <2>1
  <2> QED
    BY <1>3, <2>1, <2>2, HighBitFacts
<1> HIDE DEF j
<1>6. Units = { 2 ^ i : i \in 0 .. TopUnit }
  BY DEF Units, TopUnit
<1>7. \A other \in Units : other > 2 ^ j => ~Reaches(m, other)
  <2> SUFFICES ASSUME NEW i \in 0 .. TopUnit, 2 ^ i > 2 ^ j
               PROVE  ~Reaches(m, 2 ^ i)
    BY <1>6
  <2>1. i > j
    <3>1. i \in Nat /\ j \in Nat /\ 2 ^ i \in Nat /\ 2 ^ j \in Nat
      BY <1>1, <1>4
    <3>2. i <= j => 2 ^ i <= 2 ^ j
      BY <3>1, PowerOrder
    <3> QED
      BY <3>1, <3>2
  <2> QED
    BY <1>5, <2>1
<1> DEFINE Fits(unit) == Reaches(m, unit) /\ \A other \in Units : other > unit => ~Reaches(m, other)
<1>8. 2 ^ j \in Units /\ Fits(2 ^ j)
  BY <1>4, <1>6, <1>7
<1>9. UnitOf(m) \in Units /\ Fits(UnitOf(m))
  <2>1. UnitOf(m) = CHOOSE unit \in Units : Fits(unit)
    BY DEF UnitOf
  <2> HIDE DEF Fits
  <2> QED
    BY <1>8, <2>1
<1>10. PICK i \in 0 .. TopUnit : UnitOf(m) = 2 ^ i
  BY <1>6, <1>9
<1>11. i = 0 \/ m >= 2 ^ i * HighBit
  <2>1. Reaches(m, 2 ^ i)
    BY <1>9, <1>10
  <2>2. CASE i = 0
    BY <2>2
  <2>3. CASE i > 0
    <3>1. 2 ^ 0 = 1 /\ 2 * 2 ^ 0 <= 2 ^ i
      <4>1. 0 \in Nat /\ i \in Nat /\ 0 < i
        BY <2>3
      <4> QED
        BY <1>1, <4>1, PowerOrder
    <3>2. 2 ^ i # 1
      BY <3>1, <1>1
    <3> QED
      BY <2>1, <3>2 DEF Reaches, HighBit
  <2> QED
    BY <2>2, <2>3
<1>12. i < TopUnit => m < 2 ^ (i + 1) * HighBit
  <2> SUFFICES ASSUME i < TopUnit
               PROVE  m < 2 ^ (i + 1) * HighBit
    OBVIOUS
  <2>1. i + 1 \in 0 .. TopUnit
    BY HighBitFacts
  <2>2. 2 ^ (i + 1) = 2 * 2 ^ i /\ 2 ^ i \in Nat /\ 2 ^ i >= 1 /\ 2 ^ (i + 1) \in Nat
    <3>1. i \in Nat
      OBVIOUS
    <3> QED
      BY <3>1, <2>1, <1>1, TwiceTheSubsets
  <2>3. 2 ^ (i + 1) \in Units /\ 2 ^ (i + 1) > UnitOf(m)
    BY <1>6, <1>10, <2>1, <2>2
  <2>4. ~Reaches(m, 2 ^ (i + 1))
    BY <1>9, <2>3
  <2>5. ~(m >= 2 ^ (i + 1) * HighBit)
    BY <2>4 DEF Reaches, HighBit
  <2>6. 2 ^ (i + 1) * HighBit \in Nat
    BY <2>2, HighBitFacts, Products
  <2> QED
    BY <2>5, <2>6
<1> QED
  BY <1>1, <1>10, <1>11, <1>12

(* A number is rounded to a multiple of its unit, and a multiple is not    *)
(* rounded.                                                                *)
LEMMA NearUnitIs ==
  ASSUME NEW m \in Nat, NEW u \in Nat, u >= 1
  PROVE  /\ \E k \in Nat : /\ NearUnit(m, u) = k * u
                           /\ k = 0 \/ (k - 1) * u <= m
         /\ \A k \in Nat : m = k * u => NearUnit(m, u) = m
<1> DEFINE q == m \div u
           rest == m % u
           up == 2 * rest > u \/ (2 * rest = u /\ q % 2 = 1)
<1>1. q \in Nat /\ rest \in 0 .. u - 1 /\ m = q * u + rest
  <2>1. \A a, b \in Nat : b >= 1 => /\ a \div b \in Nat /\ a % b \in 0 .. b - 1
                                    /\ a = (a \div b) * b + (a % b)
    OBVIOUS
  <2> QED
    BY <2>1
<1>2. NearUnit(m, u) = (q + (IF up THEN 1 ELSE 0)) * u
  BY DEF NearUnit
<1>3. q * u \in Nat /\ q * u <= m
  BY <1>1, Products
<1>4. ASSUME NEW k \in Nat, m = k * u
      PROVE  NearUnit(m, u) = m
  <2>1. k * u <= m /\ m < (k + 1) * u
    BY <1>4, Products
  <2>2. q = k
    BY <2>1, QuotientIs
  <2>3. rest = 0
    BY <1>1, <1>3, <1>4, <2>2
  <2>4. ~up
    BY <2>3
  <2> QED
    BY <1>2, <1>4, <2>2, <2>4
<1> HIDE DEF q, rest
<1>5. \E k \in Nat : NearUnit(m, u) = k * u /\ (k = 0 \/ (k - 1) * u <= m)
  <2>1. CASE up
    <3>1. q + 1 \in Nat /\ (q + 1) - 1 = q /\ NearUnit(m, u) = (q + 1) * u
      BY <1>1, <1>2, <2>1
    <3> QED
      BY <1>3, <3>1
  <2>2. CASE ~up
    <3>1. NearUnit(m, u) = q * u
      <4>1. q + 0 = q
        BY <1>1
      <4> QED
        BY <1>2, <2>2, <4>1
    <3>2. q = 0 \/ (q - 1) * u <= m
      <4>1. CASE q > 0
        <5>1. q - 1 \in Nat /\ q - 1 <= q
          BY <1>1, <4>1
        <5>2. (q - 1) * u <= q * u /\ (q - 1) * u \in Nat
          BY <1>1, <5>1, ProductOrder, Products
        <5> QED
          BY <1>3, <5>2
      <4> QED
        BY <1>1, <4>1
    <3> QED
      BY <1>1, <3>1, <3>2
  <2> QED
    BY <2>1, <2>2
<1> QED
  BY <1>4, <1>5

(* A rounded number is a multiple of its own unit, and whole if the number *)
(* was.                                                                    *)
LEMMA NearUnitAgain ==
  ASSUME NEW m \in Nat
  PROVE  LET r == NearUnit(m, UnitOf(m)) IN
         r \in Nat /\ NearUnit(r, UnitOf(r)) = r /\ (Whole(m) => Whole(r))
<1> DEFINE r == NearUnit(m, UnitOf(m))
<1>1. PICK j \in 0 .. TopUnit :
        /\ UnitOf(m) = 2 ^ j /\ 2 ^ j \in Nat /\ 2 ^ j >= 1
        /\ j = 0 \/ m >= 2 ^ j * HighBit
        /\ j < TopUnit => m < 2 ^ (j + 1) * HighBit
  BY UnitIs
<1>2. PICK k \in Nat : r = k * 2 ^ j /\ (k = 0 \/ (k - 1) * 2 ^ j <= m)
  <2>1. \E k \in Nat : /\ NearUnit(m, 2 ^ j) = k * 2 ^ j
                       /\ k = 0 \/ (k - 1) * 2 ^ j <= m
    BY <1>1, NearUnitIs
  <2>2. r = NearUnit(m, 2 ^ j)
    BY <1>1
  <2> HIDE DEF r
  <2> QED
    BY <2>1, <2>2, Zenon
<1>3. \A i \in Nat : m = i * 2 ^ j => r = m
  BY <1>1, NearUnitIs
<1> HIDE DEF r
<1>4. r \in Nat
  BY <1>1, <1>2, Products
<1>5. PICK e \in 0 .. TopUnit :
        /\ UnitOf(r) = 2 ^ e /\ 2 ^ e \in Nat /\ 2 ^ e >= 1
        /\ e = 0 \/ r >= 2 ^ e * HighBit
  BY <1>4, UnitIs
<1>6. \E i \in Nat : r = i * 2 ^ e
  <2>1. CASE e <= j
    <3>1. j - e \in Nat /\ e \in Nat /\ (j - e) + e = j
      BY <2>1
    <3>2. 2 ^ j = 2 ^ (j - e) * 2 ^ e /\ 2 ^ (j - e) \in Nat
      BY <3>1, PowerSum, PowerType
    <3>3. r = (k * 2 ^ (j - e)) * 2 ^ e /\ k * 2 ^ (j - e) \in Nat
      BY <1>2, <1>5, <3>2, Products
    <3> QED
      BY <3>3
  <2>2. CASE e > j
    <3>1. e > 0 /\ j < TopUnit /\ e \in Nat /\ j \in Nat
      BY <2>2, HighBitFacts
    <3>2. 2 * 2 ^ j <= 2 ^ e /\ 2 ^ (j + 1) = 2 * 2 ^ j
      BY <2>2, <3>1, PowerOrder, TwiceTheSubsets
    <3>3. m < (2 * 2 ^ j) * HighBit
      BY <1>1, <3>1, <3>2
    <3> DEFINE H == 2 * HighBit
    <3>4. H \in Nat /\ H >= 1
      BY HighBitFacts
    <3>5. (2 * 2 ^ j) * HighBit = H * 2 ^ j
      <4>1. (2 * 2 ^ j) * HighBit = 2 * (2 ^ j * HighBit)
        BY <1>1, HighBitFacts, Products
      <4>2. 2 ^ j * HighBit = HighBit * 2 ^ j
        BY <1>1, HighBitFacts, Products
      <4>3. 2 * (HighBit * 2 ^ j) = (2 * HighBit) * 2 ^ j
        BY <1>1, HighBitFacts, Products
      <4> QED
        BY <4>1, <4>2, <4>3
    <3> HIDE DEF H
    <3>6. k <= H
      <4>1. CASE k > 0
        <5>1. k - 1 \in Nat
          BY <4>1
        <5>2. (k - 1) * 2 ^ j < H * 2 ^ j
          <6>1. (k - 1) * 2 ^ j \in Nat /\ (k - 1) * 2 ^ j <= m /\ H * 2 ^ j \in Nat
            BY <1>1, <1>2, <3>4, <4>1, <5>1, Products
          <6> QED
            BY <3>3, <3>5, <6>1
        <5>3. k - 1 < H
          BY <1>1, <3>4, <5>1, <5>2, ProductOrder
        <5> QED
          BY <3>4, <5>3
      <4> QED
        BY <3>4, <4>1
    <3>7. r <= H * 2 ^ j
      BY <1>1, <1>2, <3>4, <3>6, ProductOrder
    <3>8. H * 2 ^ j <= 2 ^ e * HighBit
      <4>1. 2 * 2 ^ j \in Nat
        BY <1>1
      <4>2. (2 * 2 ^ j) * HighBit <= 2 ^ e * HighBit
        BY <1>5, <3>2, <4>1, HighBitFacts, ProductOrder
      <4> QED
        BY <3>5, <4>2
    <3>9. 2 ^ e * HighBit \in Nat /\ H * 2 ^ j \in Nat
      BY <1>1, <1>5, <3>4, HighBitFacts, Products
    <3>10. r = 2 ^ e * HighBit
      BY <1>4, <1>5, <3>1, <3>7, <3>8, <3>9
    <3>11. r = HighBit * 2 ^ e
      BY <1>5, <3>10, HighBitFacts, Products
    <3> QED
      BY <3>11, HighBitFacts
  <2> QED
    BY <2>1, <2>2
<1>7. NearUnit(r, UnitOf(r)) = r
  BY <1>4, <1>5, <1>6, NearUnitIs
<1>8. ASSUME Whole(m)
      PROVE  Whole(r)
  <2>1. CASE j = 0
    <3>1. 2 ^ j = 1
      BY <2>1
    <3>2. m = m * 2 ^ j
      BY <3>1
    <3>3. r = m
      BY <1>3, <3>2
    <3> QED
      BY <1>8, <3>3
  <2>2. CASE j > 0
    <3>1. j - 1 \in Nat /\ (j - 1) + 1 = j
      BY <2>2
    <3>2. 2 ^ j = 2 * 2 ^ (j - 1) /\ 2 ^ (j - 1) \in Nat
      <4> DEFINE i == j - 1
      <4>1. i \in Nat /\ i + 1 = j
        BY <3>1
      <4> HIDE DEF i
      <4>2. 2 ^ (i + 1) = 2 * 2 ^ i /\ 2 ^ i \in Nat
        BY <4>1, TwiceTheSubsets, PowerType
      <4> QED
        BY <4>1, <4>2 DEF i
    <3>3. PICK h \in Nat : h = 2 ^ (j - 1)
      BY <3>2
    <3>4. r = (k * h) * 2 /\ k * h \in Nat
      <4>1. 2 * h = h * 2
        BY <3>3
      <4> QED
        BY <1>2, <3>2, <3>3, <4>1, Products
    <3>5. \A a \in Nat : (a * 2) % 2 = 0
      OBVIOUS
    <3> QED
      BY <3>4, <3>5 DEF Whole
  <2> QED
    BY <2>1, <2>2
<1> QED
  BY <1>4, <1>7, <1>8 DEF r

(* A float64 is not rounded, and a whole number to a whole one.            *)
LEMMA NearFacts ==
  ASSUME NEW n \in Int
  PROVE  Near(n) \in Int /\ Near(Near(n)) = Near(n) /\ (Whole(n) => Whole(Near(n)))
<1> DEFINE m == Abs(n)
           r == NearUnit(m, UnitOf(m))
<1>1. m \in Nat /\ (n < 0 => m = -n) /\ (~(n < 0) => m = n)
  BY DEF Abs
<1>2. r \in Nat /\ NearUnit(r, UnitOf(r)) = r /\ (Whole(m) => Whole(r))
  BY <1>1, NearUnitAgain
<1>3. Near(n) = IF n < 0 THEN -r ELSE r
  BY DEF Near
<1> HIDE DEF m, r
<1>4. Abs(r) = r /\ Abs(-r) = r
  BY <1>2 DEF Abs
<1>5. Near(r) = r /\ Near(-r) = -r
  <2>1. Near(r) = r
    BY <1>2, <1>4 DEF Near
  <2>2. CASE r = 0
    BY <2>1, <2>2
  <2>3. CASE r > 0
    <3>1. -r < 0
      BY <1>2, <2>3
    <3> QED
      BY <1>2, <1>4, <3>1, <2>1 DEF Near
  <2> QED
    BY <1>2, <2>1, <2>2, <2>3
<1>6. \A i \in Int : Whole(-i) <=> Whole(i)
  BY DEF Whole
<1>7. Near(n) \in Int
  BY <1>2, <1>3
<1>8. Near(Near(n)) = Near(n)
  BY <1>3, <1>5
<1>9. Whole(n) => Whole(Near(n))
  <2> SUFFICES ASSUME Whole(n)
               PROVE  Whole(Near(n))
    OBVIOUS
  <2>1. CASE n < 0
    <3>1. m = -n /\ Whole(m) /\ Near(n) = -r /\ Whole(r)
      BY <1>1, <1>2, <1>3, <1>6, <2>1
    <3> QED
      BY <1>2, <1>6, <3>1
  <2>2. CASE ~(n < 0)
    <3>1. m = n /\ Near(n) = r
      BY <1>1, <1>3, <2>2
    <3> QED
      BY <1>2, <3>1
  <2> QED
    BY <2>1, <2>2
<1> QED
  BY <1>7, <1>8, <1>9

(* Paths: the key that was appended last, and what it was appended to.     *)
LEMMA PathFacts ==
  /\ \A p \in Seq(KeyNames), x \in KeyNames :
       /\ Append(p, x) \in Seq(KeyNames) /\ Append(p, x) # <<>>
       /\ Parent(Append(p, x)) = p /\ Append(p, x)[Len(Append(p, x))] = x
  /\ \A p \in Seq(KeyNames) : p # <<>> =>
       Parent(p) \in Seq(KeyNames) /\ p[Len(p)] \in KeyNames /\ p = Append(Parent(p), p[Len(p)])
<1>1. ASSUME NEW p \in Seq(KeyNames), NEW x \in KeyNames
      PROVE  /\ Append(p, x) \in Seq(KeyNames) /\ Append(p, x) # <<>>
             /\ Parent(Append(p, x)) = p /\ Append(p, x)[Len(Append(p, x))] = x
  <2> DEFINE a == Append(p, x)
  <2>1. /\ a \in Seq(KeyNames) /\ a # <<>> /\ Len(a) = Len(p) + 1
        /\ a[Len(p) + 1] = x /\ \A i \in 1 .. Len(p) : a[i] = p[i]
    BY AppendProperties
  <2> HIDE DEF a
  <2>2. Len(p) \in Nat /\ Len(a) - 1 = Len(p)
    BY <2>1, LenProperties
  <2>3. \A i \in 1 .. Len(p) : a[i] \in KeyNames
    BY <2>1, ElementOfSeq
  <2> DEFINE f == SubSeq(a, 1, Len(p))
  <2>4. f \in Seq(KeyNames) /\ Len(f) = Len(p) /\ \A i \in 1 .. Len(p) : f[i] = a[i]
    <3>1. 1 \in Int /\ Len(p) \in Int
      BY <2>2
    <3>2. /\ f \in Seq(KeyNames) /\ Len(f) = IF 1 <= Len(p) THEN Len(p) - 1 + 1 ELSE 0
          /\ \A i \in 1 .. Len(p) - 1 + 1 : f[i] = a[1 + i - 1]
      BY <3>1, <2>3, SubSeqProperties
    <3> HIDE DEF f
    <3> QED
      BY <3>2, <2>2
  <2> HIDE DEF f
  <2>5. f = p
    BY <2>1, <2>4, SeqEqual
  <2>6. Parent(a) = p
    BY <2>2, <2>5 DEF Parent, f
  <2> QED
    BY <2>1, <2>6 DEF a
<1>2. ASSUME NEW p \in Seq(KeyNames), p # <<>>
      PROVE  Parent(p) \in Seq(KeyNames) /\ p[Len(p)] \in KeyNames /\ p = Append(Parent(p), p[Len(p)])
  <2>1. PICK s \in Seq(KeyNames), x \in KeyNames : p = Append(s, x)
    BY <1>2, SequenceEmptyOrAppend
  <2> QED
    BY <1>1, <2>1
<1> QED
  BY <1>1, <1>2

(* Paths under lists.                                                      *)
Zeros(n) == [i \in 1 .. n |-> "0"]

LEMMA ZerosFacts ==
  ASSUME NEW n \in Nat
  PROVE  /\ Zeros(n) \in Seq(KeyNames) /\ Len(Zeros(n)) = n
         /\ Zeros(n + 1) = <<"0">> \o Zeros(n) /\ Zeros(n + 1) = Append(Zeros(n), "0")
<1>1. \A m \in Nat : /\ Zeros(m) \in Seq(KeyNames) /\ Len(Zeros(m)) = m
                     /\ \A i \in 1 .. m : Zeros(m)[i] = "0"
  <2> SUFFICES ASSUME NEW m \in Nat
               PROVE  /\ Zeros(m) \in Seq(KeyNames) /\ Len(Zeros(m)) = m
                      /\ \A i \in 1 .. m : Zeros(m)[i] = "0"
    OBVIOUS
  <2>1. Zeros(m) \in [1 .. m -> KeyNames] /\ \A i \in 1 .. m : Zeros(m)[i] = "0"
    BY ValuesAssumption DEF Zeros
  <2>2. Zeros(m) \in Seq(KeyNames)
    BY <2>1, SeqDef
  <2>3. DOMAIN Zeros(m) = 1 .. m /\ DOMAIN Zeros(m) = 1 .. Len(Zeros(m)) /\ Len(Zeros(m)) \in Nat
    BY <2>1, <2>2, LenProperties
  <2>4. Len(Zeros(m)) = m
    BY <2>3
  <2> QED
    BY <2>1, <2>2, <2>4
<1> DEFINE a == Zeros(n)
           b == Zeros(n + 1)
<1>2. /\ a \in Seq(KeyNames) /\ Len(a) = n /\ (\A i \in 1 .. n : a[i] = "0")
      /\ b \in Seq(KeyNames) /\ Len(b) = n + 1 /\ (\A i \in 1 .. n + 1 : b[i] = "0")
  <2>1. n + 1 \in Nat
    OBVIOUS
  <2> QED
    BY <1>1, <2>1
<1> HIDE DEF a, b
<1>3. <<"0">> \in Seq(KeyNames) /\ Len(<<"0">>) = 1 /\ <<"0">>[1] = "0"
  BY ValuesAssumption
<1>4. b = <<"0">> \o a
  <2> DEFINE c == <<"0">> \o a
  <2>1. /\ c \in Seq(KeyNames) /\ Len(c) = 1 + n
        /\ \A i \in 1 .. 1 + n : c[i] = IF i <= 1 THEN <<"0">>[i] ELSE a[i - 1]
    BY <1>2, <1>3, ConcatProperties
  <2> HIDE DEF c
  <2>2. \A i \in 1 .. n + 1 : c[i] = "0"
    <3> SUFFICES ASSUME NEW i \in 1 .. n + 1
                 PROVE  c[i] = "0"
      OBVIOUS
    <3>1. CASE i = 1
      BY <1>3, <2>1, <3>1
    <3>2. CASE i # 1
      <4> DEFINE k == i - 1
      <4>1. k \in 1 .. n /\ ~(i <= 1) /\ i \in 1 .. 1 + n
        BY <3>2
      <4> QED
        BY <1>2, <2>1, <4>1
    <3> QED
      BY <3>1, <3>2
  <2>3. b = c
    BY <1>2, <2>1, <2>2, SeqEqual
  <2> QED
    BY <2>3 DEF c
<1>5. b = Append(a, "0")
  <2> DEFINE c == Append(a, "0")
  <2>1. /\ c \in Seq(KeyNames) /\ Len(c) = n + 1
        /\ (\A i \in 1 .. n : c[i] = a[i]) /\ c[n + 1] = "0"
    BY <1>2, AppendProperties
  <2> HIDE DEF c
  <2>2. \A i \in 1 .. n + 1 : c[i] = "0"
    BY <1>2, <2>1
  <2>3. b = c
    BY <1>2, <2>1, <2>2, SeqEqual
  <2> QED
    BY <2>3 DEF c
<1> QED
  BY <1>2, <1>4, <1>5 DEF a, b

LEMMA UnderFacts ==
  ASSUME NEW n \in Nat, NEW p \in Seq(KeyNames)
  PROVE  /\ Under(n, p) \in Seq(KeyNames) /\ Len(Under(n, p)) = n + Len(p)
         /\ Under(n, <<>>) = Zeros(n) /\ Under(0, p) = p
         /\ Under(n + 1, p) = <<"0">> \o Under(n, p)
         /\ \A x \in KeyNames : Under(n, Append(p, x)) = Append(Under(n, p), x)
         /\ \A q \in Seq(KeyNames) : Under(n, p) = Under(n, q) => p = q
<1>1. \A m \in Nat : Under(m, p) = Zeros(m) \o p
  BY DEF Under, Zeros
<1>2. \A m \in Nat : Zeros(m) \in Seq(KeyNames) /\ Len(Zeros(m)) = m
  BY ZerosFacts
<1>10. Zeros(n) \in Seq(KeyNames) /\ Len(Zeros(n)) = n /\ Under(n, p) = Zeros(n) \o p
  BY <1>1, <1>2
<1>11. \A a, b, c \in Seq(KeyNames) : (a \o b) \o c = a \o (b \o c)
  BY ConcatAssociative
<1>3. Under(n, p) \in Seq(KeyNames) /\ Len(Under(n, p)) = n + Len(p)
  <2> DEFINE z == Zeros(n)
  <2>1. z \in Seq(KeyNames) /\ Len(z) = n /\ Under(n, p) = z \o p
    BY <1>10
  <2> HIDE DEF z
  <2>2. z \o p \in Seq(KeyNames) /\ Len(z \o p) = Len(z) + Len(p)
    BY <2>1, ConcatProperties
  <2> QED
    BY <2>1, <2>2
<1>4. Under(n, <<>>) = Zeros(n)
  BY <1>2, ConcatEmptySeq DEF Under, Zeros
<1>5. Under(0, p) = p
  <2>1. Zeros(0) = <<>>
    <3>1. 0 \in Nat
      OBVIOUS
    <3>2. Zeros(0) \in Seq(KeyNames) /\ Len(Zeros(0)) = 0
      BY <1>2, <3>1
    <3> QED
      BY <3>2, EmptySeq
  <2>2. Under(0, p) = <<>> \o p
    BY <1>1, <2>1
  <2> QED
    BY <2>2, ConcatEmptySeq
<1>6. Under(n + 1, p) = <<"0">> \o Under(n, p)
  <2>1. Under(n + 1, p) = (<<"0">> \o Zeros(n)) \o p /\ Under(n, p) = Zeros(n) \o p
    <3>1. n + 1 \in Nat
      OBVIOUS
    <3>2. Under(n + 1, p) = Zeros(n + 1) \o p
      BY <1>1, <3>1
    <3>3. Zeros(n + 1) = <<"0">> \o Zeros(n)
      BY ZerosFacts
    <3> QED
      BY <1>10, <3>2, <3>3
  <2>2. <<"0">> \in Seq(KeyNames)
    BY ValuesAssumption
  <2>3. (<<"0">> \o Zeros(n)) \o p = <<"0">> \o (Zeros(n) \o p)
    BY <1>10, <1>11, <2>2, Zenon
  <2> QED
    BY <2>1, <2>3
<1>7. ASSUME NEW x \in KeyNames
      PROVE  Under(n, Append(p, x)) = Append(Under(n, p), x)
  <2>1. Append(p, x) = p \o <<x>> /\ Append(Under(n, p), x) = Under(n, p) \o <<x>>
    BY <1>3, AppendIsConcat
  <2>2. <<x>> \in Seq(KeyNames)
    OBVIOUS
  <2>3. (Zeros(n) \o p) \o <<x>> = Zeros(n) \o (p \o <<x>>)
    BY <1>10, <1>11, <2>2, Zenon
  <2>4. Under(n, Append(p, x)) = Zeros(n) \o Append(p, x) /\ Under(n, p) = Zeros(n) \o p
    BY DEF Under, Zeros
  <2> QED
    BY <2>1, <2>3, <2>4
<1>8. ASSUME NEW q \in Seq(KeyNames), Under(n, p) = Under(n, q)
      PROVE  p = q
  <2>1. Zeros(n) \o p = Zeros(n) \o q
    BY <1>8 DEF Under, Zeros
  <2> QED
    BY <1>10, <2>1, ConcatSimplifications, Zenon
<1> QED
  BY <1>3, <1>4, <1>5, <1>6, <1>7, <1>8

LEMMA UnderParent ==
  /\ \A n \in Nat, p \in Seq(KeyNames) :
       p # <<>> => Parent(Under(n, p)) = Under(n, Parent(p)) /\ Under(n, p) # <<>>
  /\ \A n \in Nat : Parent(Under(n + 1, <<>>)) = Under(n, <<>>) /\ Under(n + 1, <<>>) # <<>>
<1>1. ASSUME NEW n \in Nat, NEW p \in Seq(KeyNames), p # <<>>
      PROVE  Parent(Under(n, p)) = Under(n, Parent(p)) /\ Under(n, p) # <<>>
  <2>1. PICK q \in Seq(KeyNames), x \in KeyNames : p = Append(q, x) /\ Parent(p) = q
    <3>1. PICK q \in Seq(KeyNames), x \in KeyNames : p = Append(q, x)
      BY <1>1, SequenceEmptyOrAppend
    <3> QED
      BY <3>1, PathFacts
  <2>2. Under(n, p) = Append(Under(n, q), x) /\ Under(n, q) \in Seq(KeyNames)
    BY <2>1, UnderFacts
  <2>3. Parent(Append(Under(n, q), x)) = Under(n, q) /\ Append(Under(n, q), x) # <<>>
    BY <2>1, <2>2, PathFacts, Zenon
  <2> QED
    BY <2>1, <2>2, <2>3, Zenon
<1>2. ASSUME NEW n \in Nat
      PROVE  Parent(Under(n + 1, <<>>)) = Under(n, <<>>) /\ Under(n + 1, <<>>) # <<>>
  <2>1. <<>> \in Seq(KeyNames) /\ n + 1 \in Nat /\ "0" \in KeyNames
    BY ValuesAssumption, EmptySeq
  <2>2. Under(n + 1, <<>>) = Zeros(n + 1) /\ Under(n, <<>>) = Zeros(n)
    BY <2>1, UnderFacts
  <2>3. Zeros(n + 1) = Append(Zeros(n), "0") /\ Zeros(n) \in Seq(KeyNames)
    BY ZerosFacts
  <2>4. Parent(Append(Zeros(n), "0")) = Zeros(n) /\ Append(Zeros(n), "0") # <<>>
    BY <2>1, <2>3, PathFacts, Zenon
  <2> QED
    BY <2>2, <2>3, <2>4, Zenon
<1> QED
  BY <1>1, <1>2

-----------------------------------------------------------------------------
(* Items through the conversions                                           *)

KnownItem(x) == IsTerraformItem(x) /\ x.k # "unknown"
Known(v) == \A p \in DOMAIN v : KnownItem(v[p])

Shaped(x, y) ==
  IF x.k = "seq" THEN Sequence("tuple") ELSE IF x.k = "map" THEN Mapping("object") ELSE y

(* Every item of v is in w, its number perhaps rounded.                    *)
Kept(v, w) == DOMAIN w = DOMAIN v /\ \A p \in DOMAIN v : Same(v[p], w[p])

LEMMA ItemFields ==
  \A k, as, n, s : /\ Item(k, as, n, s).k = k /\ Item(k, as, n, s).as = as
                   /\ Item(k, as, n, s).n = n /\ Item(k, as, n, s).s = s
BY DEF Item

LEMMA KindFields ==
  /\ \A n : Number(n).k = "num" /\ Number(n).as = "number" /\ Number(n).n = n /\ Number(n).s = ""
  /\ \A s : Truth(s).k = "bool" /\ Truth(s).n = 0 /\ Truth(s).s = s
  /\ \A as : /\ Sequence(as).k = "seq" /\ Sequence(as).as = as
             /\ Sequence(as).n = 0 /\ Sequence(as).s = ""
  /\ \A as : /\ Mapping(as).k = "map" /\ Mapping(as).as = as
             /\ Mapping(as).n = 0 /\ Mapping(as).s = ""
  /\ Null.k = "null" /\ NotKnown.k = "unknown"
BY DEF Item, Number, Truth, Sequence, Mapping, Null, NotKnown

(* What a known item can be.                                               *)
LEMMA KnownKinds ==
  ASSUME NEW x, KnownItem(x)
  PROVE  /\ x.n \in Int
         /\ \/ x.k = "num" /\ x = Number(x.n)
            \/ /\ x.k \in {"null", "bool", "string"}
               /\ x = Null \/ x = Truth(x.s) \/ (x.k = "string" /\ IsText(x))
            \/ x.k = "seq" /\ x = Sequence(x.as)
            \/ x.k = "map" /\ x = Mapping(x.as)
<1>1. x.n \in Int
  BY DEF KnownItem, IsTerraformItem, IsItem
<1>2. CASE x = Null
  BY <1>1, <1>2 DEF Null, Item
<1>3. CASE x = Truth(x.s)
  <2>1. x.k = "bool"
    <3>1. PICK a : x = Truth(a)
      BY <1>3, Zenon
    <3>2. Truth(a).k = "bool"
      BY KindFields, Zenon
    <3> QED
      BY <3>1, <3>2
  <2> QED
    BY <1>1, <1>3, <2>1
<1>4. CASE x = Number(x.n)
  <2>1. x.k = "num"
    <3>1. PICK a : x = Number(a)
      BY <1>4, Zenon
    <3>2. Number(a).k = "num"
      BY KindFields, Zenon
    <3> QED
      BY <3>1, <3>2
  <2> QED
    BY <1>1, <1>4, <2>1
<1>5. CASE x.k = "string" /\ IsText(x)
  BY <1>1, <1>5
<1>6. CASE x = Sequence(x.as)
  <2>1. x.k = "seq"
    <3>1. PICK a : x = Sequence(a)
      BY <1>6, Zenon
    <3>2. Sequence(a).k = "seq"
      BY KindFields, Zenon
    <3> QED
      BY <3>1, <3>2
  <2> QED
    BY <1>1, <1>6, <2>1
<1>7. CASE x = Mapping(x.as)
  <2>1. x.k = "map"
    <3>1. PICK a : x = Mapping(a)
      BY <1>7, Zenon
    <3>2. Mapping(a).k = "map"
      BY KindFields, Zenon
    <3> QED
      BY <3>1, <3>2
  <2> QED
    BY <1>1, <1>7, <2>1
<1>8. x # NotKnown
  BY KindFields DEF KnownItem
<1> QED
  BY <1>2, <1>3, <1>4, <1>5, <1>6, <1>7, <1>8 DEF KnownItem, IsTerraformItem

(* What is no number becomes what its shape is, whichever the conversion.  *)
LEMMA CalmItems ==
  ASSUME NEW x, KnownItem(x), x.k # "num"
  PROVE  LET c == Shaped(x, x) IN
         /\ KnownItem(c) /\ c.k = x.k /\ Same(x, c) /\ Shaped(c, c) = c
         /\ Shaped(x, ToJSONLeaf(x)) = c /\ Shaped(x, FromJSONLeaf(x)) = c
         /\ Shaped(x, GoToTerraformLeaf(x)) = c /\ Shaped(x, TerraformToGoLeaf(x)) = c
         /\ Shaped(x, PrepareBinaryLeaf(x)) = c /\ Shaped(x, PreparePlistLeaf(x)) = c
         /\ Shaped(x, PrepareJSONLeaf(x)) = c /\ Shaped(x, NormalizeForJMESPathLeaf(x)) = c
         /\ Shaped(x, NormalizeForGojqLeaf(x)) = c /\ Shaped(x, NormalizeFromGojqLeaf(x)) = c
         /\ Shaped(x, ToGoValueLeaf(x)) = c /\ Shaped(x, JSONTextLeaf(x)) = c
         /\ Shaped(x, PlistTextLeaf(x)) = c
<1> DEFINE c == Shaped(x, x)
<1>1. /\ x.n \in Int /\ x.k \in {"null", "bool", "string", "seq", "map"}
      /\ x.k = "seq" => x = Sequence(x.as)
      /\ x.k = "map" => x = Mapping(x.as)
      /\ x.k = "null" => x = Null
  <2>1. x.k = "null" => x = Null
    <3>1. CASE x = Truth(x.s)
      BY <3>1, ItemFields DEF Truth
    <3> QED
      BY <3>1, KnownKinds
  <2> QED
    BY <2>1, KnownKinds
<1>2. /\ KnownItem(c) /\ c.k = x.k /\ c.s = x.s /\ c.n = x.n /\ (x.k = "string" => c.as = x.as)
      /\ Shaped(c, c) = c
  <2>1. CASE x.k = "seq"
    <3>1. c = Sequence("tuple") /\ x = Sequence(x.as)
      BY <1>1, <2>1 DEF Shaped
    <3>2. /\ Sequence("tuple").k = "seq" /\ Sequence("tuple").as = "tuple"
          /\ Sequence("tuple").n = 0 /\ Sequence("tuple").s = ""
          /\ x.n = 0 /\ x.s = ""
      <4>1. PICK a : x = Sequence(a)
        BY <3>1, Zenon
      <4>2. Sequence(a).n = 0 /\ Sequence(a).s = ""
        BY KindFields, Zenon
      <4> QED
        BY <4>1, <4>2, KindFields
    <3>3. KnownItem(Sequence("tuple"))
      BY <3>2 DEF KnownItem, IsTerraformItem, IsItem, Walked, Sequence
    <3> QED
      BY <2>1, <3>1, <3>2, <3>3 DEF Shaped
  <2>2. CASE x.k = "map"
    <3>1. c = Mapping("object") /\ x = Mapping(x.as)
      BY <1>1, <2>2 DEF Shaped
    <3>2. /\ Mapping("object").k = "map" /\ Mapping("object").as = "object"
          /\ Mapping("object").n = 0 /\ Mapping("object").s = ""
          /\ x.n = 0 /\ x.s = ""
      <4>1. PICK a : x = Mapping(a)
        BY <3>1, Zenon
      <4>2. Mapping(a).n = 0 /\ Mapping(a).s = ""
        BY KindFields, Zenon
      <4> QED
        BY <4>1, <4>2, KindFields
    <3>3. KnownItem(Mapping("object"))
      BY <3>2 DEF KnownItem, IsTerraformItem, IsItem, Walked, Mapping
    <3> QED
      BY <2>2, <3>1, <3>2, <3>3 DEF Shaped
  <2>3. CASE x.k \notin {"seq", "map"}
    BY <2>3 DEF Shaped
  <2> QED
    BY <2>1, <2>2, <2>3
<1>3. Same(x, c)
  BY <1>2 DEF Same, Drift
<1>4. /\ Shaped(x, ToJSONLeaf(x)) = c /\ Shaped(x, FromJSONLeaf(x)) = c
      /\ Shaped(x, GoToTerraformLeaf(x)) = c /\ Shaped(x, TerraformToGoLeaf(x)) = c
  BY <1>1 DEF Shaped, ToJSONLeaf, FromJSONLeaf, GoToTerraformLeaf, TerraformToGoLeaf
<1>5. /\ Shaped(x, PrepareBinaryLeaf(x)) = c /\ Shaped(x, PreparePlistLeaf(x)) = c
      /\ Shaped(x, PrepareJSONLeaf(x)) = c /\ Shaped(x, NormalizeForJMESPathLeaf(x)) = c
  BY <1>1 DEF Shaped, PrepareBinaryLeaf, PreparePlistLeaf, PrepareJSONLeaf, NormalizeForJMESPathLeaf
<1>6. /\ Shaped(x, NormalizeForGojqLeaf(x)) = c /\ Shaped(x, NormalizeFromGojqLeaf(x)) = c
      /\ Shaped(x, ToGoValueLeaf(x)) = c /\ Shaped(x, JSONTextLeaf(x)) = c
      /\ Shaped(x, PlistTextLeaf(x)) = c
  BY <1>1 DEF Shaped, NormalizeForGojqLeaf, NormalizeFromGojqLeaf, ToGoValueLeaf, JSONTextLeaf, PlistTextLeaf
<1> QED
  BY <1>2, <1>3, <1>4, <1>5, <1>6

(* And a number becomes one.                                               *)
LEMMA GoFields ==
  \A as, n : Go(as, n).k = "num" /\ Go(as, n).as = as /\ Go(as, n).n = n /\ Go(as, n).s = ""
BY DEF Go, Item

LEMMA GoShape == \A as, n, y : Shaped(Go(as, n), y) = y
BY GoFields DEF Shaped

LEMMA NumberIsGo == \A n : Number(n) = Go("number", n)
BY DEF Number, Go

LEMMA NumberIsKnown ==
  ASSUME NEW n \in Int
  PROVE  KnownItem(Number(n))
<1>1. Number(n).k = "num" /\ Number(n).as = "number" /\ Number(n).n = n /\ Number(n).s = ""
  BY KindFields, Zenon
<1>2. IsItem(Number(n)) /\ Number(n).k # "unknown"
  BY <1>1 DEF IsItem, Number
<1> QED
  BY <1>1, <1>2 DEF KnownItem, IsTerraformItem

LEMMA GoNumbers ==
  /\ \A n : ToJSONLeaf(Number(n)) = Go("json", n)
  /\ \A n : FromJSONLeaf(Go("json", n)) = Number(Near(n))
  /\ \A n : FromJSONLeaf(Go("float", n)) = Number(n)
  /\ \A n : GoToTerraformLeaf(Go("json", n)) = Number(Near(n))
  /\ \A as, n : as # "json" => GoToTerraformLeaf(Go(as, n)) = Number(n)
  /\ \A as, n : /\ JSONTextLeaf(Go(as, n)) = Go("json", n)
                /\ NormalizeFromGojqLeaf(Go(as, n)) = Go("json", n)
                /\ NormalizeForJMESPathLeaf(Go(as, n)) = Go("float", Near(n))
                /\ PlistTextLeaf(Go(as, n)) = Go(as, n)
<1>1. \A n : ToJSONLeaf(Number(n)) = Go("json", n)
  BY KindFields DEF ToJSONLeaf
<1>2. /\ \A n : FromJSONLeaf(Go("json", n)) = Number(Near(n))
      /\ \A n : FromJSONLeaf(Go("float", n)) = Number(n)
  <2> SUFFICES ASSUME NEW n
               PROVE  /\ FromJSONLeaf(Go("json", n)) = Number(Near(n))
                      /\ FromJSONLeaf(Go("float", n)) = Number(n)
    OBVIOUS
  <2>1. /\ Go("json", n).k = "num" /\ Go("json", n).as = "json" /\ Go("json", n).n = n
        /\ Go("float", n).k = "num" /\ Go("float", n).as = "float" /\ Go("float", n).n = n
    BY GoFields, Zenon
  <2> QED
    BY <2>1 DEF FromJSONLeaf
<1>3. /\ \A n : GoToTerraformLeaf(Go("json", n)) = Number(Near(n))
      /\ \A as, n : as # "json" => GoToTerraformLeaf(Go(as, n)) = Number(n)
  <2>1. ASSUME NEW as, NEW n
        PROVE  GoToTerraformLeaf(Go(as, n)) = IF as = "json" THEN Number(Near(n)) ELSE Number(n)
    <3>1. Go(as, n).k = "num" /\ Go(as, n).as = as /\ Go(as, n).n = n
      BY GoFields, Zenon
    <3> QED
      BY <3>1 DEF GoToTerraformLeaf
  <2>2. \A n : GoToTerraformLeaf(Go("json", n)) = Number(Near(n))
    BY <2>1
  <2>3. \A as, n : as # "json" => GoToTerraformLeaf(Go(as, n)) = Number(n)
    BY <2>1
  <2> QED
    BY <2>2, <2>3
<1>4. \A as, n : /\ JSONTextLeaf(Go(as, n)) = Go("json", n)
                /\ NormalizeFromGojqLeaf(Go(as, n)) = Go("json", n)
                /\ NormalizeForJMESPathLeaf(Go(as, n)) = Go("float", Near(n))
                /\ PlistTextLeaf(Go(as, n)) = Go(as, n)
  <2> SUFFICES ASSUME NEW as, NEW n
               PROVE  /\ JSONTextLeaf(Go(as, n)) = Go("json", n)
                      /\ NormalizeFromGojqLeaf(Go(as, n)) = Go("json", n)
                      /\ NormalizeForJMESPathLeaf(Go(as, n)) = Go("float", Near(n))
                      /\ PlistTextLeaf(Go(as, n)) = Go(as, n)
    OBVIOUS
  <2>1. Go(as, n).k = "num" /\ Go(as, n).n = n
    BY GoFields, Zenon
  <2> QED
    BY <2>1 DEF JSONTextLeaf, NormalizeFromGojqLeaf, NormalizeForJMESPathLeaf, PlistTextLeaf
<1> QED
  BY <1>1, <1>2, <1>3, <1>4, Zenon

(* A conversion goes item by item.                                         *)
LEMMA EachOne ==
  /\ \A v : /\ DOMAIN Each(v, ToJSONLeaf) = DOMAIN v
            /\ \A p \in DOMAIN v : Each(v, ToJSONLeaf)[p] = Shaped(v[p], ToJSONLeaf(v[p]))
  /\ \A v : /\ DOMAIN Each(v, FromJSONLeaf) = DOMAIN v
            /\ \A p \in DOMAIN v : Each(v, FromJSONLeaf)[p] = Shaped(v[p], FromJSONLeaf(v[p]))
  /\ \A v : /\ DOMAIN Each(v, GoToTerraformLeaf) = DOMAIN v
            /\ \A p \in DOMAIN v : Each(v, GoToTerraformLeaf)[p] = Shaped(v[p], GoToTerraformLeaf(v[p]))
  /\ \A v : /\ DOMAIN Each(v, TerraformToGoLeaf) = DOMAIN v
            /\ \A p \in DOMAIN v : Each(v, TerraformToGoLeaf)[p] = Shaped(v[p], TerraformToGoLeaf(v[p]))
  /\ \A v : /\ DOMAIN Each(v, PrepareBinaryLeaf) = DOMAIN v
            /\ \A p \in DOMAIN v : Each(v, PrepareBinaryLeaf)[p] = Shaped(v[p], PrepareBinaryLeaf(v[p]))
  /\ \A v : /\ DOMAIN Each(v, PreparePlistLeaf) = DOMAIN v
            /\ \A p \in DOMAIN v : Each(v, PreparePlistLeaf)[p] = Shaped(v[p], PreparePlistLeaf(v[p]))
  /\ \A v : /\ DOMAIN Each(v, PrepareJSONLeaf) = DOMAIN v
            /\ \A p \in DOMAIN v : Each(v, PrepareJSONLeaf)[p] = Shaped(v[p], PrepareJSONLeaf(v[p]))
  /\ \A v : /\ DOMAIN Each(v, NormalizeForJMESPathLeaf) = DOMAIN v
            /\ \A p \in DOMAIN v : Each(v, NormalizeForJMESPathLeaf)[p] = Shaped(v[p], NormalizeForJMESPathLeaf(v[p]))
  /\ \A v : /\ DOMAIN Each(v, NormalizeForGojqLeaf) = DOMAIN v
            /\ \A p \in DOMAIN v : Each(v, NormalizeForGojqLeaf)[p] = Shaped(v[p], NormalizeForGojqLeaf(v[p]))
  /\ \A v : /\ DOMAIN Each(v, NormalizeFromGojqLeaf) = DOMAIN v
            /\ \A p \in DOMAIN v : Each(v, NormalizeFromGojqLeaf)[p] = Shaped(v[p], NormalizeFromGojqLeaf(v[p]))
  /\ \A v : /\ DOMAIN Each(v, ToGoValueLeaf) = DOMAIN v
            /\ \A p \in DOMAIN v : Each(v, ToGoValueLeaf)[p] = Shaped(v[p], ToGoValueLeaf(v[p]))
  /\ \A v : /\ DOMAIN Each(v, JSONTextLeaf) = DOMAIN v
            /\ \A p \in DOMAIN v : Each(v, JSONTextLeaf)[p] = Shaped(v[p], JSONTextLeaf(v[p]))
  /\ \A v : /\ DOMAIN Each(v, PlistTextLeaf) = DOMAIN v
            /\ \A p \in DOMAIN v : Each(v, PlistTextLeaf)[p] = Shaped(v[p], PlistTextLeaf(v[p]))
  /\ \A v : /\ DOMAIN Each(v, AsReadLeaf) = DOMAIN v
            /\ \A p \in DOMAIN v : Each(v, AsReadLeaf)[p] = Shaped(v[p], AsReadLeaf(v[p]))
<1>1. \A v : /\ DOMAIN Each(v, ToJSONLeaf) = DOMAIN v
            /\ \A p \in DOMAIN v : Each(v, ToJSONLeaf)[p] = Shaped(v[p], ToJSONLeaf(v[p]))
  BY DEF Each, Shaped
<1>2. \A v : /\ DOMAIN Each(v, FromJSONLeaf) = DOMAIN v
            /\ \A p \in DOMAIN v : Each(v, FromJSONLeaf)[p] = Shaped(v[p], FromJSONLeaf(v[p]))
  BY DEF Each, Shaped
<1>3. \A v : /\ DOMAIN Each(v, GoToTerraformLeaf) = DOMAIN v
            /\ \A p \in DOMAIN v : Each(v, GoToTerraformLeaf)[p] = Shaped(v[p], GoToTerraformLeaf(v[p]))
  BY DEF Each, Shaped
<1>4. \A v : /\ DOMAIN Each(v, TerraformToGoLeaf) = DOMAIN v
            /\ \A p \in DOMAIN v : Each(v, TerraformToGoLeaf)[p] = Shaped(v[p], TerraformToGoLeaf(v[p]))
  BY DEF Each, Shaped
<1>5. \A v : /\ DOMAIN Each(v, PrepareBinaryLeaf) = DOMAIN v
            /\ \A p \in DOMAIN v : Each(v, PrepareBinaryLeaf)[p] = Shaped(v[p], PrepareBinaryLeaf(v[p]))
  BY DEF Each, Shaped
<1>6. \A v : /\ DOMAIN Each(v, PreparePlistLeaf) = DOMAIN v
            /\ \A p \in DOMAIN v : Each(v, PreparePlistLeaf)[p] = Shaped(v[p], PreparePlistLeaf(v[p]))
  BY DEF Each, Shaped
<1>7. \A v : /\ DOMAIN Each(v, PrepareJSONLeaf) = DOMAIN v
            /\ \A p \in DOMAIN v : Each(v, PrepareJSONLeaf)[p] = Shaped(v[p], PrepareJSONLeaf(v[p]))
  BY DEF Each, Shaped
<1>8. \A v : /\ DOMAIN Each(v, NormalizeForJMESPathLeaf) = DOMAIN v
            /\ \A p \in DOMAIN v : Each(v, NormalizeForJMESPathLeaf)[p] = Shaped(v[p], NormalizeForJMESPathLeaf(v[p]))
  BY DEF Each, Shaped
<1>9. \A v : /\ DOMAIN Each(v, NormalizeForGojqLeaf) = DOMAIN v
            /\ \A p \in DOMAIN v : Each(v, NormalizeForGojqLeaf)[p] = Shaped(v[p], NormalizeForGojqLeaf(v[p]))
  BY DEF Each, Shaped
<1>10. \A v : /\ DOMAIN Each(v, NormalizeFromGojqLeaf) = DOMAIN v
            /\ \A p \in DOMAIN v : Each(v, NormalizeFromGojqLeaf)[p] = Shaped(v[p], NormalizeFromGojqLeaf(v[p]))
  BY DEF Each, Shaped
<1>11. \A v : /\ DOMAIN Each(v, ToGoValueLeaf) = DOMAIN v
            /\ \A p \in DOMAIN v : Each(v, ToGoValueLeaf)[p] = Shaped(v[p], ToGoValueLeaf(v[p]))
  BY DEF Each, Shaped
<1>12. \A v : /\ DOMAIN Each(v, JSONTextLeaf) = DOMAIN v
            /\ \A p \in DOMAIN v : Each(v, JSONTextLeaf)[p] = Shaped(v[p], JSONTextLeaf(v[p]))
  BY DEF Each, Shaped
<1>13. \A v : /\ DOMAIN Each(v, PlistTextLeaf) = DOMAIN v
            /\ \A p \in DOMAIN v : Each(v, PlistTextLeaf)[p] = Shaped(v[p], PlistTextLeaf(v[p]))
  BY DEF Each, Shaped
<1>14. \A v : /\ DOMAIN Each(v, AsReadLeaf) = DOMAIN v
            /\ \A p \in DOMAIN v : Each(v, AsReadLeaf)[p] = Shaped(v[p], AsReadLeaf(v[p]))
  BY DEF Each, Shaped
<1> QED
  BY <1>1, <1>2, <1>3, <1>4, <1>5, <1>6, <1>7, <1>8, <1>9, <1>10, <1>11, <1>12, <1>13, <1>14, Zenon

(* Numbers that PrepareBinary keeps, give or take the rounding.            *)
Tame(n) == Whole(n) \/ ~Whole(Near(n)) \/ ~Past(n)

LEMMA TopIs == Top63 \in Nat /\ Top63 >= 2
<1>1. Int64Bits - 1 \in Nat
  BY ValuesAssumption
<1>2. 2 ^ (Int64Bits - 1) \in Nat /\ 2 ^ (Int64Bits - 1) >= 1
  BY <1>1, PowerType
<1> QED
  BY <1>2 DEF Top63

(* A number that is n or n rounded.                                        *)
LEMMA SameNumber ==
  ASSUME NEW n \in Int, NEW as, NEW m \in Drift(n)
  PROVE  Same(Number(n), Go(as, m)) /\ m \in Int /\ Near(m) \in Drift(n)
<1>1. m \in Int /\ Near(m) \in Drift(n)
  BY NearFacts DEF Drift
<1>2. Number(n).k = "num" /\ Number(n).s = "" /\ Number(n).n = n
  BY KindFields, Zenon
<1>3. Go(as, m).k = "num" /\ Go(as, m).s = "" /\ Go(as, m).n = m
  BY GoFields, Zenon
<1>4. "num" # "string"
  OBVIOUS
<1> QED
  BY <1>1, <1>2, <1>3, <1>4 DEF Same

(* What became its shape keeps it.                                         *)
Steady(c) ==
  /\ Shaped(c, ToJSONLeaf(c)) = c
  /\ Shaped(c, FromJSONLeaf(c)) = c
  /\ Shaped(c, GoToTerraformLeaf(c)) = c
  /\ Shaped(c, TerraformToGoLeaf(c)) = c
  /\ Shaped(c, PrepareBinaryLeaf(c)) = c
  /\ Shaped(c, PreparePlistLeaf(c)) = c
  /\ Shaped(c, PrepareJSONLeaf(c)) = c
  /\ Shaped(c, NormalizeForJMESPathLeaf(c)) = c
  /\ Shaped(c, NormalizeForGojqLeaf(c)) = c
  /\ Shaped(c, NormalizeFromGojqLeaf(c)) = c
  /\ Shaped(c, ToGoValueLeaf(c)) = c
  /\ Shaped(c, JSONTextLeaf(c)) = c
  /\ Shaped(c, PlistTextLeaf(c)) = c

LEMMA CalmStays ==
  ASSUME NEW x, KnownItem(x), x.k # "num"
  PROVE  Steady(Shaped(x, x))
<1> DEFINE c == Shaped(x, x)
<1>1. KnownItem(c) /\ c.k # "num" /\ Shaped(c, c) = c
  BY CalmItems
<1> HIDE DEF c
<1>2. Steady(c)
  BY <1>1, CalmItems DEF Steady
<1> QED
  BY <1>2 DEF c

(* The number that each conversion makes.                                  *)
LEMMA NumberMade ==
  ASSUME NEW n \in Int
  PROVE  /\ \E as : \E m \in Drift(n) : NormalizeForGojqLeaf(Go("json", n)) = Go(as, m)
         /\ \E as \in {"int64", "big", "float"} : \E m \in Drift(n) :
              /\ TerraformToGoLeaf(Number(n)) = Go(as, m)
              /\ as = "float" => m = Near(n) /\ ~Whole(n)
         /\ \A as : as # "json" =>
              \E other : other # "json" /\ PrepareJSONLeaf(Go(as, n)) = Go(other, n)
         /\ \A as : as # "float" => PrepareBinaryLeaf(Go(as, n)) = Go(as, n)
                                  /\ PreparePlistLeaf(Go(as, n)) = Go(as, n)
         /\ PrepareBinaryLeaf(Go("float", n)) = PreparePlistLeaf(Go("float", n))
         /\ PreparePlistLeaf(Go("float", n)) \in
              {Go("float", n), Go("int64", IF n = Top63 THEN edge ELSE n)}
         /\ Whole(n) /\ n \in -Top63 .. Top63 =>
              PreparePlistLeaf(Go("float", n)) = Go("int64", IF n = Top63 THEN edge ELSE n)
         /\ ~Whole(n) => PreparePlistLeaf(Go("float", n)) = Go("float", n)
         /\ ToGoValueLeaf(Number(n)) \in
              {Go("int", Clamped(n)), Go("float", Near(n))}
         /\ ~Whole(n) => ToGoValueLeaf(Number(n)) = Go("float", Near(n))
<1>1. n \in Drift(n) /\ Near(n) \in Drift(n)
  BY DEF Drift
<1>2. \A as, m : Go(as, m).k = "num" /\ Go(as, m).as = as /\ Go(as, m).n = m
  BY GoFields
<1>3. Number(n).k = "num" /\ Number(n).n = n
  BY KindFields
<1>4. \E as : \E m \in Drift(n) : NormalizeForGojqLeaf(Go("json", n)) = Go(as, m)
  <2>1. Go("json", n).k = "num" /\ Go("json", n).n = n
    BY <1>2
  <2>2. NormalizeForGojqLeaf(Go("json", n)) \in {Go("int", n), Go("big", n), Go("float", Near(n))}
    BY <2>1 DEF NormalizeForGojqLeaf
  <2> QED
    BY <1>1, <2>2
<1>5. \E as \in {"int64", "big", "float"} : \E m \in Drift(n) :
        /\ TerraformToGoLeaf(Number(n)) = Go(as, m)
        /\ as = "float" => m = Near(n) /\ ~Whole(n)
  <2>1. CASE Fits64(n)
    <3>1. TerraformToGoLeaf(Number(n)) = Go("int64", n)
      BY <1>3, <2>1 DEF TerraformToGoLeaf
    <3> QED
      BY <1>1, <3>1
  <2>2. CASE ~Fits64(n) /\ Whole(n)
    <3>1. TerraformToGoLeaf(Number(n)) = Go("big", n)
      BY <1>3, <2>2 DEF TerraformToGoLeaf
    <3> QED
      BY <1>1, <3>1
  <2>3. CASE ~Whole(n)
    <3>1. ~Fits64(n)
      BY <2>3 DEF Fits64
    <3>2. TerraformToGoLeaf(Number(n)) = Go("float", Near(n))
      BY <1>3, <2>3, <3>1 DEF TerraformToGoLeaf
    <3> QED
      BY <1>1, <2>3, <3>2
  <2> QED
    BY <2>1, <2>2, <2>3
<1>6. ASSUME NEW as, as # "json"
      PROVE  \E other : other # "json" /\ PrepareJSONLeaf(Go(as, n)) = Go(other, n)
  <2>1. Go(as, n).n = n
    BY <1>2
  <2>2. PrepareJSONLeaf(Go(as, n)) \in {Go(as, n), Go("int64", n)}
    BY <2>1 DEF PrepareJSONLeaf
  <2> QED
    BY <1>6, <2>2
<1>7. ASSUME NEW as, as # "float"
      PROVE  PrepareBinaryLeaf(Go(as, n)) = Go(as, n) /\ PreparePlistLeaf(Go(as, n)) = Go(as, n)
  <2>1. Go(as, n).as # "float"
    BY <1>2, <1>7
  <2> QED
    BY <2>1 DEF PrepareBinaryLeaf, PreparePlistLeaf
<1>8. PrepareBinaryLeaf(Go("float", n)) = PreparePlistLeaf(Go("float", n))
  BY DEF PrepareBinaryLeaf, PreparePlistLeaf
<1>9. /\ PreparePlistLeaf(Go("float", n)) \in
           {Go("float", n), Go("int64", IF n = Top63 THEN edge ELSE n)}
      /\ Whole(n) /\ n \in -Top63 .. Top63 =>
           PreparePlistLeaf(Go("float", n)) = Go("int64", IF n = Top63 THEN edge ELSE n)
      /\ ~Whole(n) => PreparePlistLeaf(Go("float", n)) = Go("float", n)
  <2> DEFINE g == Go("float", n)
  <2>1. g.k = "num" /\ g.as = "float" /\ g.n = n
    BY <1>2
  <2> HIDE DEF g
  <2>2. AsInt64(g) = Go("int64", IF n = Top63 THEN edge ELSE n)
    BY <2>1 DEF AsInt64
  <2>3. PreparePlistLeaf(g) = IF Whole(n) /\ n \in -Top63 .. Top63 THEN AsInt64(g) ELSE g
    BY <2>1 DEF PreparePlistLeaf
  <2>4. PreparePlistLeaf(g) \in {g, AsInt64(g)}
    BY <2>3
  <2> QED
    BY <2>2, <2>3, <2>4 DEF g
<1>10. /\ ToGoValueLeaf(Number(n)) \in {Go("int", Clamped(n)), Go("float", Near(n))}
       /\ ~Whole(n) => ToGoValueLeaf(Number(n)) = Go("float", Near(n))
  BY <1>3 DEF ToGoValueLeaf
<1> QED
  BY <1>4, <1>5, <1>6, <1>7, <1>8, <1>9, <1>10

(* There and back in each family: what the library sees, and the result.   *)
LEMMA JSONItem ==
  ASSUME NEW x, KnownItem(x)
  PROVE  LET y == Shaped(x, ToJSONLeaf(x))
             z == Shaped(y, FromJSONLeaf(y)) IN
         Same(x, y) /\ Same(x, z) /\ KnownItem(z)
<1> DEFINE y == Shaped(x, ToJSONLeaf(x))
           z == Shaped(y, FromJSONLeaf(y))
<1>1. CASE x.k = "num"
  <2>1. PICK n \in Int : x = Number(n)
    BY <1>1, KnownKinds
  <2>2. n \in Drift(n) /\ Near(n) \in Drift(n) /\ Near(n) \in Int
    BY NearFacts DEF Drift
  <2>3. Number(Near(n)) = Go("number", Near(n)) /\ KnownItem(Number(Near(n)))
    BY <2>2, NumberIsGo, NumberIsKnown
  <2>first. y = Go("json", n)
    <3>1. ToJSONLeaf(Number(n)) = Go("json", n)
      BY GoNumbers, Zenon
    <3>2. y = Shaped(Number(n), Go("json", n))
      BY <2>1, <3>1
    <3>3. Shaped(Go("number", n), Go("json", n)) = Go("json", n)
      <4>1. Go("number", n).k = "num"
        BY GoFields, Zenon
      <4> QED
        BY <4>1 DEF Shaped
    <3>4. Number(n) = Go("number", n)
      BY NumberIsGo, Zenon
    <3> QED
      BY <3>2, <3>3, <3>4
  <2>second. z = Number(Near(n))
    <3>1. FromJSONLeaf(Go("json", n)) = Number(Near(n))
      BY GoNumbers, Zenon
    <3>2. z = Shaped(Go("json", n), Number(Near(n)))
      BY <2>first, <3>1
    <3>3. Shaped(Go("json", n), Number(Near(n))) = Number(Near(n))
      <4>1. Go("json", n).k = "num"
        BY GoFields, Zenon
      <4> QED
        BY <4>1 DEF Shaped
    <3> QED
      BY <3>2, <3>3
  <2>4. Same(Number(n), Go("json", n)) /\ Same(Number(n), Go("number", Near(n)))
    BY <2>2, SameNumber
  <2> HIDE DEF y, z
  <2>both. Same(x, y) /\ Same(x, z) /\ KnownItem(z)
    BY <2>1, <2>first, <2>second, <2>3, <2>4
  <2> QED
    BY <2>both DEF y, z
<1>2. CASE x.k # "num"
  <2> DEFINE c == Shaped(x, x)
  <2>1. /\ KnownItem(c) /\ Same(x, c) /\ c.k = x.k
        /\ Shaped(x, ToJSONLeaf(x)) = c /\ Steady(c)
    BY <1>2, CalmItems, CalmStays
  <2> HIDE DEF c
  <2>first. y = c
    BY <2>1
  <2>second. z = c
    BY <2>1, <2>first DEF Steady
  <2>both. Same(x, y) /\ Same(x, z) /\ KnownItem(z)
    BY <2>1, <2>first, <2>second
  <2> QED
    BY <2>both DEF y, z
<1> QED
  BY <1>1, <1>2

(* JMESPath works on float64s.                                             *)
LEMMA JMESItem ==
  ASSUME NEW x, KnownItem(x)
  PROVE  LET a == Shaped(x, ToJSONLeaf(x))
             y == Shaped(a, NormalizeForJMESPathLeaf(a))
             z == Shaped(y, FromJSONLeaf(y)) IN
         Same(x, y) /\ Same(x, z) /\ KnownItem(z)
<1> DEFINE a == Shaped(x, ToJSONLeaf(x))
           y == Shaped(a, NormalizeForJMESPathLeaf(a))
           z == Shaped(y, FromJSONLeaf(y))
<1>1. CASE x.k = "num"
  <2>1. PICK n \in Int : x = Number(n)
    BY <1>1, KnownKinds
  <2>2. n \in Drift(n) /\ Near(n) \in Drift(n) /\ Near(n) \in Int
    BY NearFacts DEF Drift
  <2>3. Number(Near(n)) = Go("number", Near(n)) /\ KnownItem(Number(Near(n)))
    BY <2>2, NumberIsGo, NumberIsKnown
  <2>first. a = Go("json", n)
    <3>1. ToJSONLeaf(Number(n)) = Go("json", n)
      BY GoNumbers, Zenon
    <3>2. a = Shaped(Number(n), Go("json", n))
      BY <2>1, <3>1
    <3>3. Shaped(Go("number", n), Go("json", n)) = Go("json", n)
      <4>1. Go("number", n).k = "num"
        BY GoFields, Zenon
      <4> QED
        BY <4>1 DEF Shaped
    <3>4. Number(n) = Go("number", n)
      BY NumberIsGo, Zenon
    <3> QED
      BY <3>2, <3>3, <3>4
  <2>second. y = Go("float", Near(n))
    <3>1. NormalizeForJMESPathLeaf(Go("json", n)) = Go("float", Near(n))
      BY GoNumbers, Zenon
    <3>2. y = Shaped(Go("json", n), Go("float", Near(n)))
      BY <2>first, <3>1
    <3>3. Shaped(Go("json", n), Go("float", Near(n))) = Go("float", Near(n))
      <4>1. Go("json", n).k = "num"
        BY GoFields, Zenon
      <4> QED
        BY <4>1 DEF Shaped
    <3> QED
      BY <3>2, <3>3
  <2>third. z = Number(Near(n))
    <3>1. FromJSONLeaf(Go("float", Near(n))) = Number(Near(n))
      BY GoNumbers, Zenon
    <3>2. z = Shaped(Go("float", Near(n)), Number(Near(n)))
      BY <2>second, <3>1
    <3>3. Shaped(Go("float", Near(n)), Number(Near(n))) = Number(Near(n))
      <4>1. Go("float", Near(n)).k = "num"
        BY GoFields, Zenon
      <4> QED
        BY <4>1 DEF Shaped
    <3> QED
      BY <3>2, <3>3
  <2>4. Same(Number(n), Go("float", Near(n))) /\ Same(Number(n), Go("number", Near(n)))
    BY <2>2, SameNumber
  <2> HIDE DEF a, y, z
  <2>both. Same(x, y) /\ Same(x, z) /\ KnownItem(z)
    BY <2>1, <2>second, <2>third, <2>3, <2>4
  <2> QED
    BY <2>both DEF a, y, z
<1>2. CASE x.k # "num"
  <2> DEFINE c == Shaped(x, x)
  <2>1. /\ KnownItem(c) /\ Same(x, c) /\ c.k = x.k
        /\ Shaped(x, ToJSONLeaf(x)) = c /\ Steady(c)
    BY <1>2, CalmItems, CalmStays
  <2> HIDE DEF c
  <2>first. a = c
    BY <2>1
  <2>second. y = c
    BY <2>1, <2>first DEF Steady
  <2>third. z = c
    BY <2>1, <2>second DEF Steady
  <2>both. Same(x, y) /\ Same(x, z) /\ KnownItem(z)
    BY <2>1, <2>first, <2>second, <2>third
  <2> QED
    BY <2>both DEF a, y, z
<1> QED
  BY <1>1, <1>2

(* gojq works on its three kinds of number.                                *)
LEMMA GojqItem ==
  ASSUME NEW x, KnownItem(x)
  PROVE  LET a == Shaped(x, ToJSONLeaf(x))
             y == Shaped(a, NormalizeForGojqLeaf(a))
             b == Shaped(y, NormalizeFromGojqLeaf(y))
             z == Shaped(b, FromJSONLeaf(b)) IN
         Same(x, y) /\ Same(x, z) /\ KnownItem(z)
<1> DEFINE a == Shaped(x, ToJSONLeaf(x))
           y == Shaped(a, NormalizeForGojqLeaf(a))
           b == Shaped(y, NormalizeFromGojqLeaf(y))
           z == Shaped(b, FromJSONLeaf(b))
<1>1. CASE x.k = "num"
  <2>1. PICK n \in Int : x = Number(n)
    BY <1>1, KnownKinds
  <2>2. PICK as, m : m \in Drift(n) /\ NormalizeForGojqLeaf(Go("json", n)) = Go(as, m)
    BY NumberMade
  <2>3. m \in Int /\ Near(m) \in Drift(n) /\ Near(m) \in Int
    BY <2>2, SameNumber, NearFacts
  <2>4. Number(Near(m)) = Go("number", Near(m)) /\ KnownItem(Number(Near(m)))
    BY <2>3, NumberIsGo, NumberIsKnown
  <2>first. a = Go("json", n)
    <3>1. ToJSONLeaf(Number(n)) = Go("json", n)
      BY GoNumbers, Zenon
    <3>2. a = Shaped(Number(n), Go("json", n))
      BY <2>1, <3>1
    <3>3. Shaped(Go("number", n), Go("json", n)) = Go("json", n)
      <4>1. Go("number", n).k = "num"
        BY GoFields, Zenon
      <4> QED
        BY <4>1 DEF Shaped
    <3>4. Number(n) = Go("number", n)
      BY NumberIsGo, Zenon
    <3> QED
      BY <3>2, <3>3, <3>4
  <2>second. y = Go(as, m)
    <3>1. NormalizeForGojqLeaf(Go("json", n)) = Go(as, m)
      BY <2>2
    <3>2. y = Shaped(Go("json", n), Go(as, m))
      BY <2>first, <3>1
    <3>3. Shaped(Go("json", n), Go(as, m)) = Go(as, m)
      <4>1. Go("json", n).k = "num"
        BY GoFields, Zenon
      <4> QED
        BY <4>1 DEF Shaped
    <3> QED
      BY <3>2, <3>3
  <2>third. b = Go("json", m)
    <3>1. NormalizeFromGojqLeaf(Go(as, m)) = Go("json", m)
      BY GoNumbers, Zenon
    <3>2. b = Shaped(Go(as, m), Go("json", m))
      BY <2>second, <3>1
    <3>3. Shaped(Go(as, m), Go("json", m)) = Go("json", m)
      <4>1. Go(as, m).k = "num"
        BY GoFields, Zenon
      <4> QED
        BY <4>1 DEF Shaped
    <3> QED
      BY <3>2, <3>3
  <2>fourth. z = Number(Near(m))
    <3>1. FromJSONLeaf(Go("json", m)) = Number(Near(m))
      BY GoNumbers, Zenon
    <3>2. z = Shaped(Go("json", m), Number(Near(m)))
      BY <2>third, <3>1
    <3>3. Shaped(Go("json", m), Number(Near(m))) = Number(Near(m))
      <4>1. Go("json", m).k = "num"
        BY GoFields, Zenon
      <4> QED
        BY <4>1 DEF Shaped
    <3> QED
      BY <3>2, <3>3
  <2>5. Same(Number(n), Go(as, m)) /\ Same(Number(n), Go("number", Near(m)))
    BY <2>2, <2>3, SameNumber
  <2> HIDE DEF a, y, b, z
  <2>both. Same(x, y) /\ Same(x, z) /\ KnownItem(z)
    BY <2>1, <2>second, <2>fourth, <2>4, <2>5
  <2> QED
    BY <2>both DEF a, y, b, z
<1>2. CASE x.k # "num"
  <2> DEFINE c == Shaped(x, x)
  <2>1. /\ KnownItem(c) /\ Same(x, c) /\ c.k = x.k
        /\ Shaped(x, ToJSONLeaf(x)) = c /\ Steady(c)
    BY <1>2, CalmItems, CalmStays
  <2> HIDE DEF c
  <2>first. a = c
    BY <2>1
  <2>second. y = c
    BY <2>1, <2>first DEF Steady
  <2>third. b = c
    BY <2>1, <2>second DEF Steady
  <2>fourth. z = c
    BY <2>1, <2>third DEF Steady
  <2>both. Same(x, y) /\ Same(x, z) /\ KnownItem(z)
    BY <2>1, <2>first, <2>second, <2>third, <2>fourth
  <2> QED
    BY <2>both DEF a, y, b, z
<1> QED
  BY <1>1, <1>2

(* The decoders of text get a number as its digits.                        *)
LEMMA TextItem ==
  ASSUME NEW x, KnownItem(x)
  PROVE  LET a == Shaped(x, TerraformToGoLeaf(x))
             b == Shaped(a, PrepareJSONLeaf(a))
             y == Shaped(b, JSONTextLeaf(b))
             z == Shaped(y, GoToTerraformLeaf(y)) IN
         Same(x, y) /\ Same(x, z) /\ KnownItem(z)
<1> DEFINE a == Shaped(x, TerraformToGoLeaf(x))
           b == Shaped(a, PrepareJSONLeaf(a))
           y == Shaped(b, JSONTextLeaf(b))
           z == Shaped(y, GoToTerraformLeaf(y))
<1>1. CASE x.k = "num"
  <2>1. PICK n \in Int : x = Number(n)
    BY <1>1, KnownKinds
  <2>2. PICK as \in {"int64", "big", "float"}, m \in Drift(n) : TerraformToGoLeaf(Number(n)) = Go(as, m)
    BY NumberMade
  <2>3. m \in Int /\ Near(m) \in Drift(n) /\ Near(m) \in Int
    BY SameNumber, NearFacts
  <2>4. Number(Near(m)) = Go("number", Near(m)) /\ KnownItem(Number(Near(m)))
    BY <2>3, NumberIsGo, NumberIsKnown
  <2>5. PICK other : PrepareJSONLeaf(Go(as, m)) = Go(other, m)
    <3>1. as # "json"
      OBVIOUS
    <3>2. \A o : o # "json" => \E other : other # "json" /\ PrepareJSONLeaf(Go(o, m)) = Go(other, m)
      BY <2>3, NumberMade, Zenon
    <3> QED
      BY <3>1, <3>2
  <2>first. a = Go(as, m)
    <3>1. TerraformToGoLeaf(Number(n)) = Go(as, m)
      BY <2>2
    <3>2. a = Shaped(Number(n), Go(as, m))
      BY <2>1, <3>1
    <3>3. Shaped(Go("number", n), Go(as, m)) = Go(as, m)
      <4>1. Go("number", n).k = "num"
        BY GoFields, Zenon
      <4> QED
        BY <4>1 DEF Shaped
    <3>4. Number(n) = Go("number", n)
      BY NumberIsGo, Zenon
    <3> QED
      BY <3>2, <3>3, <3>4
  <2>second. b = Go(other, m)
    <3>1. PrepareJSONLeaf(Go(as, m)) = Go(other, m)
      BY <2>5
    <3>2. b = Shaped(Go(as, m), Go(other, m))
      BY <2>first, <3>1
    <3>3. Shaped(Go(as, m), Go(other, m)) = Go(other, m)
      <4>1. Go(as, m).k = "num"
        BY GoFields, Zenon
      <4> QED
        BY <4>1 DEF Shaped
    <3> QED
      BY <3>2, <3>3
  <2>third. y = Go("json", m)
    <3>1. JSONTextLeaf(Go(other, m)) = Go("json", m)
      BY GoNumbers, Zenon
    <3>2. y = Shaped(Go(other, m), Go("json", m))
      BY <2>second, <3>1
    <3>3. Shaped(Go(other, m), Go("json", m)) = Go("json", m)
      <4>1. Go(other, m).k = "num"
        BY GoFields, Zenon
      <4> QED
        BY <4>1 DEF Shaped
    <3> QED
      BY <3>2, <3>3
  <2>fourth. z = Number(Near(m))
    <3>1. GoToTerraformLeaf(Go("json", m)) = Number(Near(m))
      BY GoNumbers, Zenon
    <3>2. z = Shaped(Go("json", m), Number(Near(m)))
      BY <2>third, <3>1
    <3>3. Shaped(Go("json", m), Number(Near(m))) = Number(Near(m))
      <4>1. Go("json", m).k = "num"
        BY GoFields, Zenon
      <4> QED
        BY <4>1 DEF Shaped
    <3> QED
      BY <3>2, <3>3
  <2>6. Same(Number(n), Go("json", m)) /\ Same(Number(n), Go("number", Near(m)))
    BY <2>3, SameNumber
  <2> HIDE DEF a, b, y, z
  <2>both. Same(x, y) /\ Same(x, z) /\ KnownItem(z)
    BY <2>1, <2>third, <2>fourth, <2>4, <2>6
  <2> QED
    BY <2>both DEF a, b, y, z
<1>2. CASE x.k # "num"
  <2> DEFINE c == Shaped(x, x)
  <2>1. /\ KnownItem(c) /\ Same(x, c) /\ c.k = x.k
        /\ Shaped(x, TerraformToGoLeaf(x)) = c /\ Steady(c)
    BY <1>2, CalmItems, CalmStays
  <2> HIDE DEF c
  <2>first. a = c
    BY <2>1
  <2>second. b = c
    BY <2>1, <2>first DEF Steady
  <2>third. y = c
    BY <2>1, <2>second DEF Steady
  <2>fourth. z = c
    BY <2>1, <2>third DEF Steady
  <2>both. Same(x, y) /\ Same(x, z) /\ KnownItem(z)
    BY <2>1, <2>first, <2>second, <2>third, <2>fourth
  <2> QED
    BY <2>both DEF a, b, y, z
<1> QED
  BY <1>1, <1>2

(* The binary decoders get it as it is, unless it was rounded past an int64. *)
LEMMA BinaryItem ==
  ASSUME NEW x, KnownItem(x), edge \in Int
  PROVE  LET a == Shaped(x, TerraformToGoLeaf(x))
             y == Shaped(a, PrepareBinaryLeaf(a))
             z == Shaped(y, GoToTerraformLeaf(y)) IN
         KnownItem(z) /\ z.k = x.k /\ ((x.k = "num" => Tame(x.n)) => Same(x, y) /\ Same(x, z))
<1> DEFINE a == Shaped(x, TerraformToGoLeaf(x))
           y == Shaped(a, PrepareBinaryLeaf(a))
           z == Shaped(y, GoToTerraformLeaf(y))
<1>1. CASE x.k = "num"
  <2>1. PICK n \in Int : x = Number(n)
    BY <1>1, KnownKinds
  <2>2. PICK as \in {"int64", "big", "float"}, m \in Drift(n) :
          /\ TerraformToGoLeaf(Number(n)) = Go(as, m)
          /\ as = "float" => m = Near(n) /\ ~Whole(n)
    BY NumberMade
  <2>3. m \in Int /\ Near(m) \in Drift(n) /\ as # "json"
    BY SameNumber, NearFacts
  <2>5. PICK other, k :
          /\ k \in Int
          /\ PrepareBinaryLeaf(Go(as, m)) = Go(other, k) /\ other # "json"
          /\ Tame(n) => k = m
    <3> DEFINE IsKept(other, k) ==
                 /\ PrepareBinaryLeaf(Go(as, m)) = Go(other, k) /\ other # "json"
                 /\ Tame(n) => k = m
    <3>1. CASE as # "float"
      <4>1. PrepareBinaryLeaf(Go(as, m)) = Go(as, m)
        BY <2>3, <3>1, NumberMade
      <4>2. IsKept(as, m)
        BY <2>3, <4>1
      <4> HIDE DEF IsKept
      <4>3. \E other, k : k \in Int /\ IsKept(other, k)
        BY <2>3, <4>2
      <4> QED
        BY <4>3 DEF IsKept
    <3>2. CASE as = "float"
      <4> DEFINE top == IF m = Top63 THEN edge ELSE m
      <4>1. /\ PrepareBinaryLeaf(Go("float", m)) \in {Go("float", m), Go("int64", top)}
            /\ ~Whole(m) => PrepareBinaryLeaf(Go("float", m)) = Go("float", m)
        BY <2>3, NumberMade
      <4>2. top \in Int /\ (Tame(n) /\ Whole(m) => top = m)
        <5>1. m = Near(n) /\ ~Whole(n)
          BY <2>2, <3>2
        <5>2. Tame(n) /\ Whole(m) => m # Top63
          BY <5>1, TopIs DEF Tame, Past
        <5> QED
          BY <2>3, <5>2
      <4> HIDE DEF top
      <4>3. IsKept("float", m) \/ IsKept("int64", top)
        BY <3>2, <4>1, <4>2
      <4> HIDE DEF IsKept
      <4>4. \E other, k : k \in Int /\ IsKept(other, k)
        BY <2>3, <4>2, <4>3
      <4> QED
        BY <4>4 DEF IsKept
    <3> QED
      BY <3>1, <3>2
  <2>4. Number(k) = Go("number", k) /\ KnownItem(Number(k))
    BY <2>5, NumberIsGo, NumberIsKnown
  <2>first. a = Go(as, m)
    <3>1. TerraformToGoLeaf(Number(n)) = Go(as, m)
      BY <2>2
    <3>2. a = Shaped(Number(n), Go(as, m))
      BY <2>1, <3>1
    <3>3. Shaped(Go("number", n), Go(as, m)) = Go(as, m)
      <4>1. Go("number", n).k = "num"
        BY GoFields, Zenon
      <4> QED
        BY <4>1 DEF Shaped
    <3>4. Number(n) = Go("number", n)
      BY NumberIsGo, Zenon
    <3> QED
      BY <3>2, <3>3, <3>4
  <2>second. y = Go(other, k)
    <3>1. PrepareBinaryLeaf(Go(as, m)) = Go(other, k)
      BY <2>5
    <3>2. y = Shaped(Go(as, m), Go(other, k))
      BY <2>first, <3>1
    <3>3. Shaped(Go(as, m), Go(other, k)) = Go(other, k)
      <4>1. Go(as, m).k = "num"
        BY GoFields, Zenon
      <4> QED
        BY <4>1 DEF Shaped
    <3> QED
      BY <3>2, <3>3
  <2>third. z = Number(k)
    <3>1. GoToTerraformLeaf(Go(other, k)) = Number(k)
      BY <2>5, GoNumbers, Zenon
    <3>2. z = Shaped(Go(other, k), Number(k))
      BY <2>second, <3>1
    <3>3. Shaped(Go(other, k), Number(k)) = Number(k)
      <4>1. Go(other, k).k = "num"
        BY GoFields, Zenon
      <4> QED
        BY <4>1 DEF Shaped
    <3> QED
      BY <3>2, <3>3
  <2>6. Tame(n) => Same(Number(n), Go(other, k)) /\ Same(Number(n), Go("number", k))
    BY <2>5, SameNumber
  <2>7. x.k = "num" /\ x.n = n
    BY <2>1, KindFields
  <2>8. Number(k).k = "num"
    BY KindFields, Zenon
  <2> HIDE DEF a, y, z
  <2>both. KnownItem(z) /\ z.k = x.k /\ ((x.k = "num" => Tame(x.n)) => Same(x, y) /\ Same(x, z))
    BY <2>1, <2>second, <2>third, <2>4, <2>6, <2>7, <2>8
  <2> QED
    BY <2>both DEF a, y, z
<1>2. CASE x.k # "num"
  <2> DEFINE c == Shaped(x, x)
  <2>1. /\ KnownItem(c) /\ Same(x, c) /\ c.k = x.k
        /\ Shaped(x, TerraformToGoLeaf(x)) = c /\ Steady(c)
    BY <1>2, CalmItems, CalmStays
  <2> HIDE DEF c
  <2>first. a = c
    BY <2>1
  <2>second. y = c
    BY <2>1, <2>first DEF Steady
  <2>third. z = c
    BY <2>1, <2>second DEF Steady
  <2>both. KnownItem(z) /\ z.k = x.k /\ ((x.k = "num" => Tame(x.n)) => Same(x, y) /\ Same(x, z))
    BY <2>1, <2>first, <2>second, <2>third
  <2> QED
    BY <2>both DEF a, y, z
<1> QED
  BY <1>1, <1>2

(* The evaluators hold whole numbers in an int64.                          *)
LEMMA EvalItem ==
  ASSUME NEW x, KnownItem(x)
  PROVE  LET y == Shaped(x, ToGoValueLeaf(x)) IN
         (x.k = "num" /\ Whole(x.n) => Clamped(x.n) = x.n) => Same(x, y)
<1> DEFINE y == Shaped(x, ToGoValueLeaf(x))
<1>1. CASE x.k = "num"
  <2>1. PICK n \in Int : x = Number(n)
    BY <1>1, KnownKinds
  <2>2. PICK as, m : ToGoValueLeaf(Number(n)) = Go(as, m) /\ (m \in Drift(n) \/ (Whole(n) /\ m = Clamped(n)))
    BY NumberMade DEF Drift
  <2>first. y = Go(as, m)
    <3>1. ToGoValueLeaf(Number(n)) = Go(as, m)
      BY <2>2
    <3>2. y = Shaped(Number(n), Go(as, m))
      BY <2>1, <3>1
    <3>3. Shaped(Go("number", n), Go(as, m)) = Go(as, m)
      <4>1. Go("number", n).k = "num"
        BY GoFields, Zenon
      <4> QED
        BY <4>1 DEF Shaped
    <3>4. Number(n) = Go("number", n)
      BY NumberIsGo, Zenon
    <3> QED
      BY <3>2, <3>3, <3>4
  <2>3. x.k = "num" /\ x.n = n
    BY <2>1, KindFields
  <2>4. (Whole(n) => Clamped(n) = n) => m \in Drift(n)
    BY <2>2 DEF Drift
  <2>5. m \in Drift(n) => Same(Number(n), Go(as, m))
    BY SameNumber
  <2> HIDE DEF y
  <2>both. (x.k = "num" /\ Whole(x.n) => Clamped(x.n) = x.n) => Same(x, y)
    BY <2>1, <2>first, <2>3, <2>4, <2>5
  <2> QED
    BY <2>both DEF y
<1>2. CASE x.k # "num"
  <2> DEFINE c == Shaped(x, x)
  <2>1. /\ KnownItem(c) /\ Same(x, c) /\ c.k = x.k
        /\ Shaped(x, ToGoValueLeaf(x)) = c /\ Steady(c)
    BY <1>2, CalmItems, CalmStays
  <2> HIDE DEF c
  <2>first. y = c
    BY <2>1
  <2>both. (x.k = "num" /\ Whole(x.n) => Clamped(x.n) = x.n) => Same(x, y)
    BY <2>1, <2>first
  <2> QED
    BY <2>both DEF y
<1> QED
  BY <1>1, <1>2

(* Whole values.                                                           *)
LEMMA JSONKept ==
  ASSUME NEW v, Known(v), IsTree(v)
  PROVE  LET s == Each(v, ToJSONLeaf)
             w == Each(s, FromJSONLeaf) IN
         /\ Known(w) /\ IsTree(w) /\ DOMAIN s = DOMAIN v /\ DOMAIN w = DOMAIN v
         /\ Kept(v, s) /\ Kept(v, w)
<1> DEFINE s == Each(v, ToJSONLeaf)
           w == Each(s, FromJSONLeaf)
<1>1. /\ DOMAIN s = DOMAIN v /\ DOMAIN w = DOMAIN v
  BY EachOne
<1>2. ASSUME NEW p \in DOMAIN v
      PROVE  /\ KnownItem(w[p]) /\ w[p].k = v[p].k
             /\ Same(v[p], s[p]) /\ Same(v[p], w[p])
  <2> DEFINE y == Shaped(v[p], ToJSONLeaf(v[p]))
             z == Shaped(y, FromJSONLeaf(y))
  <2> DEFINE m0 == Each(v, ToJSONLeaf)
  <2> DEFINE m1 == Each(s, FromJSONLeaf)
  <2>first. DOMAIN m0 = DOMAIN v /\ m0[p] = y
    <3>1. DOMAIN m0 = DOMAIN v /\ \A q \in DOMAIN v : m0[q] = Shaped(v[q], ToJSONLeaf(v[q]))
      BY EachOne
    <3> HIDE DEF m0
    <3> QED
      BY <3>1
  <2>second. DOMAIN m1 = DOMAIN v /\ m1[p] = z
    <3>1. DOMAIN m1 = DOMAIN m0 /\ \A q \in DOMAIN m0 : m1[q] = Shaped(m0[q], FromJSONLeaf(m0[q]))
      BY EachOne
    <3>2. z = Shaped(y, FromJSONLeaf(y))
      OBVIOUS
    <3> HIDE DEF m1, m0, z, y
    <3> QED
      BY <2>first, <3>1, <3>2
  <2>1. KnownItem(v[p])
    BY DEF Known
  <2>2. Same(v[p], y) /\ Same(v[p], z) /\ KnownItem(z)
    BY <2>1, JSONItem
  <2>3. s[p] = y /\ w[p] = z
    BY <2>first, <2>second
  <2> HIDE DEF s, w, y, z
  <2> QED
    BY <2>2, <2>3 DEF Same
<1> HIDE DEF s, w
<1>3. Known(w)
  BY <1>1, <1>2 DEF Known
<1>4. IsTree(w)
  BY <1>1, <1>2 DEF IsTree
<1>5. Kept(v, s) /\ Kept(v, w)
  BY <1>1, <1>2 DEF Kept
<1> QED
  BY <1>1, <1>3, <1>4, <1>5 DEF s, w

LEMMA JMESKept ==
  ASSUME NEW v, Known(v), IsTree(v)
  PROVE  LET s == Each(Each(v, ToJSONLeaf), NormalizeForJMESPathLeaf)
             w == Each(s, FromJSONLeaf) IN
         /\ Known(w) /\ IsTree(w) /\ DOMAIN s = DOMAIN v /\ DOMAIN w = DOMAIN v
         /\ Kept(v, s) /\ Kept(v, w)
<1> DEFINE s == Each(Each(v, ToJSONLeaf), NormalizeForJMESPathLeaf)
           w == Each(s, FromJSONLeaf)
<1>1. /\ DOMAIN s = DOMAIN v /\ DOMAIN w = DOMAIN v
  BY EachOne
<1>2. ASSUME NEW p \in DOMAIN v
      PROVE  /\ KnownItem(w[p]) /\ w[p].k = v[p].k
             /\ Same(v[p], s[p]) /\ Same(v[p], w[p])
  <2> DEFINE a == Shaped(v[p], ToJSONLeaf(v[p]))
             y == Shaped(a, NormalizeForJMESPathLeaf(a))
             z == Shaped(y, FromJSONLeaf(y))
  <2> DEFINE m0 == Each(v, ToJSONLeaf)
  <2> DEFINE m1 == Each(m0, NormalizeForJMESPathLeaf)
  <2> DEFINE m2 == Each(s, FromJSONLeaf)
  <2>first. DOMAIN m0 = DOMAIN v /\ m0[p] = a
    <3>1. DOMAIN m0 = DOMAIN v /\ \A q \in DOMAIN v : m0[q] = Shaped(v[q], ToJSONLeaf(v[q]))
      BY EachOne
    <3> HIDE DEF m0
    <3> QED
      BY <3>1
  <2>second. DOMAIN m1 = DOMAIN v /\ m1[p] = y
    <3>1. DOMAIN m1 = DOMAIN m0 /\ \A q \in DOMAIN m0 : m1[q] = Shaped(m0[q], NormalizeForJMESPathLeaf(m0[q]))
      BY EachOne
    <3>2. y = Shaped(a, NormalizeForJMESPathLeaf(a))
      OBVIOUS
    <3> HIDE DEF m1, m0, y, a
    <3> QED
      BY <2>first, <3>1, <3>2
  <2>third. DOMAIN m2 = DOMAIN v /\ m2[p] = z
    <3>1. DOMAIN m2 = DOMAIN m1 /\ \A q \in DOMAIN m1 : m2[q] = Shaped(m1[q], FromJSONLeaf(m1[q]))
      BY EachOne
    <3>2. z = Shaped(y, FromJSONLeaf(y))
      OBVIOUS
    <3> HIDE DEF m2, m1, z, y
    <3> QED
      BY <2>second, <3>1, <3>2
  <2>1. KnownItem(v[p])
    BY DEF Known
  <2>2. Same(v[p], y) /\ Same(v[p], z) /\ KnownItem(z)
    BY <2>1, JMESItem
  <2>3. s[p] = y /\ w[p] = z
    BY <2>second, <2>third
  <2> HIDE DEF s, w, y, z
  <2> QED
    BY <2>2, <2>3 DEF Same
<1> HIDE DEF s, w
<1>3. Known(w)
  BY <1>1, <1>2 DEF Known
<1>4. IsTree(w)
  BY <1>1, <1>2 DEF IsTree
<1>5. Kept(v, s) /\ Kept(v, w)
  BY <1>1, <1>2 DEF Kept
<1> QED
  BY <1>1, <1>3, <1>4, <1>5 DEF s, w

LEMMA GojqKept ==
  ASSUME NEW v, Known(v), IsTree(v)
  PROVE  LET s == Each(Each(v, ToJSONLeaf), NormalizeForGojqLeaf)
             w == Each(Each(s, NormalizeFromGojqLeaf), FromJSONLeaf) IN
         /\ Known(w) /\ IsTree(w) /\ DOMAIN s = DOMAIN v /\ DOMAIN w = DOMAIN v
         /\ Kept(v, s) /\ Kept(v, w)
<1> DEFINE s == Each(Each(v, ToJSONLeaf), NormalizeForGojqLeaf)
           w == Each(Each(s, NormalizeFromGojqLeaf), FromJSONLeaf)
<1>1. /\ DOMAIN s = DOMAIN v /\ DOMAIN w = DOMAIN v
  BY EachOne
<1>2. ASSUME NEW p \in DOMAIN v
      PROVE  /\ KnownItem(w[p]) /\ w[p].k = v[p].k
             /\ Same(v[p], s[p]) /\ Same(v[p], w[p])
  <2> DEFINE a == Shaped(v[p], ToJSONLeaf(v[p]))
             y == Shaped(a, NormalizeForGojqLeaf(a))
             c == Shaped(y, NormalizeFromGojqLeaf(y))
             z == Shaped(c, FromJSONLeaf(c))
  <2> DEFINE m0 == Each(v, ToJSONLeaf)
  <2> DEFINE m1 == Each(m0, NormalizeForGojqLeaf)
  <2> DEFINE m2 == Each(s, NormalizeFromGojqLeaf)
  <2> DEFINE m3 == Each(m2, FromJSONLeaf)
  <2>first. DOMAIN m0 = DOMAIN v /\ m0[p] = a
    <3>1. DOMAIN m0 = DOMAIN v /\ \A q \in DOMAIN v : m0[q] = Shaped(v[q], ToJSONLeaf(v[q]))
      BY EachOne
    <3> HIDE DEF m0
    <3> QED
      BY <3>1
  <2>second. DOMAIN m1 = DOMAIN v /\ m1[p] = y
    <3>1. DOMAIN m1 = DOMAIN m0 /\ \A q \in DOMAIN m0 : m1[q] = Shaped(m0[q], NormalizeForGojqLeaf(m0[q]))
      BY EachOne
    <3>2. y = Shaped(a, NormalizeForGojqLeaf(a))
      OBVIOUS
    <3> HIDE DEF m1, m0, y, a
    <3> QED
      BY <2>first, <3>1, <3>2
  <2>third. DOMAIN m2 = DOMAIN v /\ m2[p] = c
    <3>1. DOMAIN m2 = DOMAIN m1 /\ \A q \in DOMAIN m1 : m2[q] = Shaped(m1[q], NormalizeFromGojqLeaf(m1[q]))
      BY EachOne
    <3>2. c = Shaped(y, NormalizeFromGojqLeaf(y))
      OBVIOUS
    <3> HIDE DEF m2, m1, c, y
    <3> QED
      BY <2>second, <3>1, <3>2
  <2>fourth. DOMAIN m3 = DOMAIN v /\ m3[p] = z
    <3>1. DOMAIN m3 = DOMAIN m2 /\ \A q \in DOMAIN m2 : m3[q] = Shaped(m2[q], FromJSONLeaf(m2[q]))
      BY EachOne
    <3>2. z = Shaped(c, FromJSONLeaf(c))
      OBVIOUS
    <3> HIDE DEF m3, m2, z, c
    <3> QED
      BY <2>third, <3>1, <3>2
  <2>1. KnownItem(v[p])
    BY DEF Known
  <2>2. Same(v[p], y) /\ Same(v[p], z) /\ KnownItem(z)
    BY <2>1, GojqItem
  <2>3. s[p] = y /\ w[p] = z
    BY <2>second, <2>fourth
  <2> HIDE DEF s, w, y, z
  <2> QED
    BY <2>2, <2>3 DEF Same
<1> HIDE DEF s, w
<1>3. Known(w)
  BY <1>1, <1>2 DEF Known
<1>4. IsTree(w)
  BY <1>1, <1>2 DEF IsTree
<1>5. Kept(v, s) /\ Kept(v, w)
  BY <1>1, <1>2 DEF Kept
<1> QED
  BY <1>1, <1>3, <1>4, <1>5 DEF s, w

LEMMA TextKept ==
  ASSUME NEW v, Known(v), IsTree(v)
  PROVE  LET s == Each(Each(Each(v, TerraformToGoLeaf), PrepareJSONLeaf), JSONTextLeaf)
             w == Each(s, GoToTerraformLeaf) IN
         /\ Known(w) /\ IsTree(w) /\ DOMAIN s = DOMAIN v /\ DOMAIN w = DOMAIN v
         /\ Kept(v, s) /\ Kept(v, w)
<1> DEFINE s == Each(Each(Each(v, TerraformToGoLeaf), PrepareJSONLeaf), JSONTextLeaf)
           w == Each(s, GoToTerraformLeaf)
<1>1. /\ DOMAIN s = DOMAIN v /\ DOMAIN w = DOMAIN v
  BY EachOne
<1>2. ASSUME NEW p \in DOMAIN v
      PROVE  /\ KnownItem(w[p]) /\ w[p].k = v[p].k
             /\ Same(v[p], s[p]) /\ Same(v[p], w[p])
  <2> DEFINE a == Shaped(v[p], TerraformToGoLeaf(v[p]))
             b == Shaped(a, PrepareJSONLeaf(a))
             y == Shaped(b, JSONTextLeaf(b))
             z == Shaped(y, GoToTerraformLeaf(y))
  <2> DEFINE m0 == Each(v, TerraformToGoLeaf)
  <2> DEFINE m1 == Each(m0, PrepareJSONLeaf)
  <2> DEFINE m2 == Each(m1, JSONTextLeaf)
  <2> DEFINE m3 == Each(s, GoToTerraformLeaf)
  <2>first. DOMAIN m0 = DOMAIN v /\ m0[p] = a
    <3>1. DOMAIN m0 = DOMAIN v /\ \A q \in DOMAIN v : m0[q] = Shaped(v[q], TerraformToGoLeaf(v[q]))
      BY EachOne
    <3> HIDE DEF m0
    <3> QED
      BY <3>1
  <2>second. DOMAIN m1 = DOMAIN v /\ m1[p] = b
    <3>1. DOMAIN m1 = DOMAIN m0 /\ \A q \in DOMAIN m0 : m1[q] = Shaped(m0[q], PrepareJSONLeaf(m0[q]))
      BY EachOne
    <3>2. b = Shaped(a, PrepareJSONLeaf(a))
      OBVIOUS
    <3> HIDE DEF m1, m0, b, a
    <3> QED
      BY <2>first, <3>1, <3>2
  <2>third. DOMAIN m2 = DOMAIN v /\ m2[p] = y
    <3>1. DOMAIN m2 = DOMAIN m1 /\ \A q \in DOMAIN m1 : m2[q] = Shaped(m1[q], JSONTextLeaf(m1[q]))
      BY EachOne
    <3>2. y = Shaped(b, JSONTextLeaf(b))
      OBVIOUS
    <3> HIDE DEF m2, m1, y, b
    <3> QED
      BY <2>second, <3>1, <3>2
  <2>fourth. DOMAIN m3 = DOMAIN v /\ m3[p] = z
    <3>1. DOMAIN m3 = DOMAIN m2 /\ \A q \in DOMAIN m2 : m3[q] = Shaped(m2[q], GoToTerraformLeaf(m2[q]))
      BY EachOne
    <3>2. z = Shaped(y, GoToTerraformLeaf(y))
      OBVIOUS
    <3> HIDE DEF m3, m2, z, y
    <3> QED
      BY <2>third, <3>1, <3>2
  <2>1. KnownItem(v[p])
    BY DEF Known
  <2>2. Same(v[p], y) /\ Same(v[p], z) /\ KnownItem(z)
    BY <2>1, TextItem
  <2>3. s[p] = y /\ w[p] = z
    BY <2>third, <2>fourth
  <2> HIDE DEF s, w, y, z
  <2> QED
    BY <2>2, <2>3 DEF Same
<1> HIDE DEF s, w
<1>3. Known(w)
  BY <1>1, <1>2 DEF Known
<1>4. IsTree(w)
  BY <1>1, <1>2 DEF IsTree
<1>5. Kept(v, s) /\ Kept(v, w)
  BY <1>1, <1>2 DEF Kept
<1> QED
  BY <1>1, <1>3, <1>4, <1>5 DEF s, w

LEMMA BinaryKept ==
  ASSUME NEW v, Known(v), IsTree(v), edge \in Int
  PROVE  LET s == Each(Each(v, TerraformToGoLeaf), PrepareBinaryLeaf)
             w == Each(s, GoToTerraformLeaf) IN
         /\ Known(w) /\ IsTree(w) /\ DOMAIN s = DOMAIN v /\ DOMAIN w = DOMAIN v
         /\ (\A p \in DOMAIN v : v[p].k = "num" => Tame(v[p].n)) => Kept(v, s) /\ Kept(v, w)
<1> DEFINE s == Each(Each(v, TerraformToGoLeaf), PrepareBinaryLeaf)
           w == Each(s, GoToTerraformLeaf)
<1>1. /\ DOMAIN s = DOMAIN v /\ DOMAIN w = DOMAIN v
  BY EachOne
<1>2. ASSUME NEW p \in DOMAIN v
      PROVE  /\ KnownItem(w[p]) /\ w[p].k = v[p].k
             /\ (v[p].k = "num" => Tame(v[p].n)) => Same(v[p], s[p]) /\ Same(v[p], w[p])
  <2> DEFINE a == Shaped(v[p], TerraformToGoLeaf(v[p]))
             y == Shaped(a, PrepareBinaryLeaf(a))
             z == Shaped(y, GoToTerraformLeaf(y))
  <2> DEFINE m0 == Each(v, TerraformToGoLeaf)
  <2> DEFINE m1 == Each(m0, PrepareBinaryLeaf)
  <2> DEFINE m2 == Each(s, GoToTerraformLeaf)
  <2>first. DOMAIN m0 = DOMAIN v /\ m0[p] = a
    <3>1. DOMAIN m0 = DOMAIN v /\ \A q \in DOMAIN v : m0[q] = Shaped(v[q], TerraformToGoLeaf(v[q]))
      BY EachOne
    <3> HIDE DEF m0
    <3> QED
      BY <3>1
  <2>second. DOMAIN m1 = DOMAIN v /\ m1[p] = y
    <3>1. DOMAIN m1 = DOMAIN m0 /\ \A q \in DOMAIN m0 : m1[q] = Shaped(m0[q], PrepareBinaryLeaf(m0[q]))
      BY EachOne
    <3>2. y = Shaped(a, PrepareBinaryLeaf(a))
      OBVIOUS
    <3> HIDE DEF m1, m0, y, a
    <3> QED
      BY <2>first, <3>1, <3>2
  <2>third. DOMAIN m2 = DOMAIN v /\ m2[p] = z
    <3>1. DOMAIN m2 = DOMAIN m1 /\ \A q \in DOMAIN m1 : m2[q] = Shaped(m1[q], GoToTerraformLeaf(m1[q]))
      BY EachOne
    <3>2. z = Shaped(y, GoToTerraformLeaf(y))
      OBVIOUS
    <3> HIDE DEF m2, m1, z, y
    <3> QED
      BY <2>second, <3>1, <3>2
  <2>1. KnownItem(v[p])
    BY DEF Known
  <2>2. /\ KnownItem(z) /\ z.k = v[p].k
        /\ (v[p].k = "num" => Tame(v[p].n)) => Same(v[p], y) /\ Same(v[p], z)
    BY <2>1, BinaryItem
  <2>3. s[p] = y /\ w[p] = z
    BY <2>second, <2>third
  <2> HIDE DEF s, w, y, z
  <2> QED
    BY <2>2, <2>3 DEF Same
<1> HIDE DEF s, w
<1>3. Known(w)
  BY <1>1, <1>2 DEF Known
<1>4. IsTree(w)
  BY <1>1, <1>2 DEF IsTree
<1>5. (\A p \in DOMAIN v : v[p].k = "num" => Tame(v[p].n)) => Kept(v, s) /\ Kept(v, w)
  BY <1>1, <1>2 DEF Kept
<1> QED
  BY <1>1, <1>3, <1>4, <1>5 DEF s, w

-----------------------------------------------------------------------------
(* A value inside another                                                  *)

Terraform(v) == IsTree(v) /\ \A p \in DOMAIN v : IsTerraformItem(v[p])

(* What a tag can stand for.                                               *)
LEMMA TagStandsFor ==
  ASSUME NEW v, NEW p
  PROVE  LET text == v[Append(p, ValueKey)]  type == v[Append(p, TypeKey)].s  g == TryUnpack(v, p) IN
         \/ g = Opaque("date", text.s) /\ type = "date" /\ text.as = "date"
         \/ g = Opaque("data", text.s) /\ type = "data" /\ text.as = "base64"
         \/ g = Real(Near(text.n)) /\ type = "real" /\ text.as = "digits"
         \/ g = Misfit
BY DEF TryUnpack

LEMMA TagFields ==
  /\ \A k, s : Opaque(k, s).k = k /\ Opaque(k, s).s = s /\ Opaque(k, s).n = 0 /\ Opaque(k, s).as = "none"
  /\ \A n : Real(n).k = "real" /\ Real(n).n = n
  /\ \A as, s : Text(as, s).k = "string" /\ Text(as, s).as = as /\ Text(as, s).s = s
                  /\ Text(as, s).n = 0
  /\ \A n : Digits(n).k = "string" /\ Digits(n).as = "digits" /\ Digits(n).n = n /\ Digits(n).s = ""
  /\ Misfit.k = "misfit"
BY DEF Opaque, Real, Text, Digits, Misfit, Item

(* A text that the code wrote is spelt as the code spells it.              *)
LEMMA RespeltIs ==
  /\ \A s : Canonical(Canonical(s)) = Canonical(s)
  /\ \A x : /\ Respelt(x).k = x.k /\ Respelt(x).as = x.as /\ Respelt(x).n = x.n
             /\ Respelt(x).s = Canonical(x.s) /\ Respelt(Respelt(x)) = Respelt(x)
  /\ \A k, s : Respelt(Opaque(k, s)) = Opaque(k, Canonical(s))
  /\ \A as, s : Respelt(Text(as, s)) = Text(as, Canonical(s))
<1>1. \A s : Canonical(Canonical(s)) = Canonical(s)
  <2> SUFFICES ASSUME NEW s
               PROVE  Canonical(Canonical(s)) = Canonical(s)
    OBVIOUS
  <2>1. CASE s \in DOMAIN Spelling
    <3>1. Canonical(s) = Spelling[s] /\ Spelling[s] \notin DOMAIN Spelling
      BY <2>1, ValuesAssumption DEF Canonical
    <3> QED
      BY <3>1 DEF Canonical
  <2>2. CASE s \notin DOMAIN Spelling
    BY <2>2 DEF Canonical
  <2> QED
    BY <2>1, <2>2
<1>2. \A x : /\ Respelt(x).k = x.k /\ Respelt(x).as = x.as /\ Respelt(x).n = x.n
             /\ Respelt(x).s = Canonical(x.s)
  BY DEF Respelt, Item
<1>3. \A x : Respelt(Respelt(x)) = Respelt(x)
  <2> SUFFICES ASSUME NEW x
               PROVE  Respelt(Respelt(x)) = Respelt(x)
    OBVIOUS
  <2>1. Respelt(Respelt(x)) = Item(x.k, x.as, x.n, Canonical(Canonical(x.s)))
    BY <1>2 DEF Respelt
  <2> QED
    BY <1>1, <2>1 DEF Respelt
<1>4. /\ \A k, s : Respelt(Opaque(k, s)) = Opaque(k, Canonical(s))
      /\ \A as, s : Respelt(Text(as, s)) = Text(as, Canonical(s))
  BY DEF Respelt, Opaque, Text, Item
<1> QED
  BY <1>1, <1>2, <1>3, <1>4

(* A known item read from a tag is the number of a real with a fraction.   *)
LEMMA NumberRead ==
  ASSUME NEW v, Terraform(v), NEW p \in Seq(KeyNames), NEW y, KnownItem(y), ReadFrom(v, p, y)
  PROVE  /\ HasTagKeys(v, p) /\ TryUnpack(v, p).k = "real" /\ y.k = "num"
         /\ y.n = TryUnpack(v, p).n /\ ~Whole(y.n) /\ Near(y.n) = y.n /\ y.n \in Int
<1> DEFINE g == TryUnpack(v, p)
<1> DEFINE text == v[Append(p, ValueKey)]
<1>0. \/ g = Opaque("date", text.s) \/ g = Opaque("data", text.s)
      \/ g = Real(Near(text.n)) \/ g = Misfit
  BY TagStandsFor
<1> HIDE DEF g, text
<1>1. /\ g.k \in {"date", "data", "real", "misfit"}
      /\ g.k = "real" => g = Real(Near(text.n))
  <2>1. /\ Opaque("date", text.s).k = "date" /\ Opaque("data", text.s).k = "data"
        /\ Real(Near(text.n)).k = "real" /\ Misfit.k = "misfit"
    BY DEF Opaque, Real, Misfit, Item
  <2> QED
    BY <1>0, <2>1
<1>2. y.k \in {"num", "null", "bool", "string", "seq", "map"} /\ y.n \in Int
  BY KnownKinds
<1>3. y # g /\ ~(g.k \in {"date", "data"} /\ y = Respelt(g))
  <2>1. Respelt(g).k = g.k
    BY RespeltIs
  <2> QED
    BY <1>1, <1>2, <2>1
<1>4. HasTagKeys(v, p) /\ g.k = "real" /\ y.k = "num" /\ y.n = g.n /\ (y.as = "float" \/ ~Whole(y.n))
  BY <1>3 DEF ReadFrom, g
<1>5. y.as # "float"
  <2>1. PICK n \in Int : y = Number(n)
    BY <1>4, KnownKinds
  <2>2. Number(n).as = "number"
    BY KindFields, Zenon
  <2> QED
    BY <2>1, <2>2
<1>6. Near(y.n) = y.n
  <2>1. g = Real(Near(v[Append(p, ValueKey)].n))
    BY <1>1, <1>4 DEF text
  <2>2. v[Append(p, ValueKey)].n \in Int
    <3>1. Append(p, ValueKey) \in DOMAIN v
      BY <1>4 DEF HasTagKeys, Kids
    <3> QED
      BY <3>1 DEF Terraform, IsTerraformItem, IsItem
  <2>3. g.n = Near(v[Append(p, ValueKey)].n)
    BY <2>1, TagFields
  <2> QED
    BY <1>4, <2>2, <2>3, NearFacts
<1> QED
  BY <1>2, <1>4, <1>5, <1>6 DEF g

(* A number rounded twice is rounded once.                                 *)
LEMMA SameAgain ==
  ASSUME NEW x, NEW y, NEW z, x.n \in Int, Same(x, y), Same(y, z)
  PROVE  Same(x, z)
<1>1. y.n \in Int /\ Near(y.n) \in Drift(x.n)
  BY NearFacts DEF Same, Drift
<1>2. z.n \in Drift(x.n)
  BY <1>1 DEF Same, Drift
<1> QED
  BY <1>2 DEF Same

LEMMA AsAgain ==
  ASSUME NEW v, NEW p, NEW y, NEW z, v[p].n \in Int, As(v, p, y), Same(y, z)
  PROVE  As(v, p, z)
<1>1. CASE Same(v[p], y)
  BY <1>1, SameAgain DEF As
<1>2. CASE InTag(v, p) /\ v[p].as \in {"date", "base64"} /\ Same(Respelt(v[p]), y)
  <2>1. Respelt(v[p]).n \in Int
    BY RespeltIs
  <2> QED
    BY <1>2, <2>1, SameAgain DEF As
<1> QED
  BY <1>1, <1>2 DEF As

(* What does not depend on the spelling.                                   *)
LEMMA AsIs ==
  ASSUME NEW v, NEW p, NEW y, As(v, p, y)
  PROVE  /\ v[p].k = y.k /\ y.n \in Drift(v[p].n) /\ (y.k = "string" => v[p].as = y.as)
         /\ y.s \in {v[p].s, Canonical(v[p].s)}
         /\ v[p].as \notin {"date", "base64"} => y.s = v[p].s
BY RespeltIs DEF As, Same

LEMMA InsideStays ==
  ASSUME NEW o, Terraform(o), NEW v, Known(v), IsTree(v), NEW w, Kept(v, w),
         NEW n \in Nat, InsideBy(o, v, n)
  PROVE  InsideBy(o, w, n)
<1>1. \A p \in DOMAIN o : p \in Seq(KeyNames) /\ o[p].n \in Int
  BY DEF Terraform, IsTree, IsTerraformItem, IsItem
<1>2. ASSUME NEW q \in Seq(KeyNames), NEW p \in DOMAIN v, ReadFrom(o, q, v[p])
      PROVE  ReadFrom(o, q, w[p])
  <2>1. KnownItem(v[p]) /\ Same(v[p], w[p])
    BY DEF Known, Kept
  <2>2. /\ HasTagKeys(o, q) /\ TryUnpack(o, q).k = "real" /\ v[p].k = "num"
        /\ v[p].n = TryUnpack(o, q).n /\ ~Whole(v[p].n) /\ Near(v[p].n) = v[p].n
    BY <1>2, <2>1, NumberRead
  <2>3. w[p].k = "num" /\ w[p].n = v[p].n
    BY <2>1, <2>2 DEF Same, Drift
  <2> QED
    BY <2>2, <2>3 DEF ReadFrom
<1>3. ASSUME NEW p \in DOMAIN w
      PROVE  \/ Len(p) < n /\ p = Under(Len(p), <<>>) /\ w[p].k = "seq"
             \/ \E q \in DOMAIN o : p = Under(n, q) /\ (As(o, q, w[p]) \/ ReadFrom(o, q, w[p]))
  <2>1. p \in DOMAIN v /\ Same(v[p], w[p])
    BY DEF Kept
  <2>2. CASE Len(p) < n /\ p = Under(Len(p), <<>>) /\ v[p].k = "seq"
    BY <2>1, <2>2 DEF Same
  <2>3. ASSUME NEW q \in DOMAIN o, p = Under(n, q), As(o, q, v[p]) \/ ReadFrom(o, q, v[p])
        PROVE  p = Under(n, q) /\ (As(o, q, w[p]) \/ ReadFrom(o, q, w[p]))
    <3>1. As(o, q, v[p]) => As(o, q, w[p])
      BY <1>1, <2>1, AsAgain
    <3> QED
      BY <1>1, <1>2, <2>1, <2>3, <3>1
  <2> QED
    BY <2>1, <2>2, <2>3 DEF InsideBy
<1>4. ASSUME NEW q \in DOMAIN o
      PROVE  \/ Under(n, q) \in DOMAIN w
             \/ /\ q # <<>> /\ Under(n, Parent(q)) \in DOMAIN w
                /\ ReadFrom(o, Parent(q), w[Under(n, Parent(q))])
  <2>1. CASE Under(n, q) \in DOMAIN v
    BY <2>1 DEF Kept
  <2>2. CASE /\ q # <<>> /\ Under(n, Parent(q)) \in DOMAIN v
             /\ ReadFrom(o, Parent(q), v[Under(n, Parent(q))])
    <3>1. Parent(q) \in Seq(KeyNames)
      BY <1>1, <2>2, PathFacts
    <3>2. ReadFrom(o, Parent(q), w[Under(n, Parent(q))])
      BY <1>2, <2>2, <3>1
    <3> QED
      BY <2>2, <3>2 DEF Kept
  <2> QED
    BY <2>1, <2>2 DEF InsideBy
<1> QED
  BY <1>3, <1>4 DEF InsideBy

(* A value is in itself.                                                   *)
LEMMA InsideItself ==
  ASSUME NEW o, Terraform(o)
  PROVE  InsideBy(o, o, 0)
<1>1. \A q \in DOMAIN o : Under(0, q) = q /\ As(o, q, o[q])
  <2> SUFFICES ASSUME NEW q \in DOMAIN o
               PROVE  Under(0, q) = q /\ As(o, q, o[q])
    OBVIOUS
  <2>1. q \in Seq(KeyNames) /\ 0 \in Nat
    BY DEF Terraform, IsTree
  <2>2. Under(0, q) = q
    BY <2>1, UnderFacts
  <2> QED
    BY <2>2 DEF As, Same, Drift
<1> QED
  BY <1>1 DEF InsideBy

LEMMA TupleKnown == KnownItem(Sequence("tuple"))
<1> DEFINE t == Sequence("tuple")
<1>1. t.k = "seq" /\ t.as = "tuple" /\ t.n = 0 /\ t.s = ""
  BY KindFields, Zenon
<1>2. t = Item("seq", "tuple", 0, "")
  BY DEF Sequence
<1>3. t = Sequence(t.as)
  BY <1>1
<1> HIDE DEF t
<1>4. IsItem(t)
  <2>1. t = Item(t.k, t.as, t.n, t.s)
    BY <1>2 DEF Item
  <2>2. t.n \in Int
    <3>1. t.n = 0
      BY <1>1, Zenon
    <3> QED
      BY <3>1
  <2> QED
    BY <2>1, <2>2, Zenon DEF IsItem
<1>5. Walked(t)
  BY <1>1 DEF Walked
<1>6. KnownItem(t)
  BY <1>1, <1>3, <1>4, <1>5 DEF KnownItem, IsTerraformItem
<1> QED
  BY <1>6 DEF t

(* The list of one result.                                                 *)
ListsOne(w, u) ==
  /\ DOMAIN w = {<<>>} \cup { <<"0">> \o q : q \in DOMAIN u }
  /\ w[<<>>] = Sequence("tuple")
  /\ \A q \in DOMAIN u : w[<<"0">> \o q] = u[q]

LEMMA OnePath ==
  ASSUME NEW q \in Seq(KeyNames)
  PROVE  /\ <<"0">> \o q = Under(1, q) /\ <<"0">> \o q \in Seq(KeyNames) /\ <<"0">> \o q # <<>>
         /\ Head(<<"0">> \o q) = "0" /\ Tail(<<"0">> \o q) = q
         /\ Parent(<<"0">> \o q) = IF q = <<>> THEN <<>> ELSE <<"0">> \o Parent(q)
<1>1. 0 \in Nat /\ 1 \in Nat /\ 0 + 1 = 1
  OBVIOUS
<1>2. \A r \in Seq(KeyNames) : <<"0">> \o r = Under(1, r) /\ Under(0, r) = r
  <2> SUFFICES ASSUME NEW r \in Seq(KeyNames)
               PROVE  <<"0">> \o r = Under(1, r) /\ Under(0, r) = r
    OBVIOUS
  <2>1. Under(0, r) = r /\ Under(0 + 1, r) = <<"0">> \o Under(0, r)
    BY <1>1, UnderFacts
  <2> QED
    BY <1>1, <2>1
<1>3. Under(1, q) \in Seq(KeyNames)
  BY <1>1, UnderFacts
<1>4. <<"0">> \in Seq(KeyNames) /\ Len(<<"0">>) = 1 /\ <<"0">>[1] = "0"
  BY ValuesAssumption
<1> DEFINE c == <<"0">> \o q
<1>5. /\ c \in Seq(KeyNames) /\ Len(c) = 1 + Len(q) /\ c[1] = "0"
      /\ \A i \in 1 .. Len(q) : c[1 + i] = q[i]
  <2>1. /\ c \in Seq(KeyNames) /\ Len(c) = Len(<<"0">>) + Len(q)
        /\ \A i \in 1 .. Len(<<"0">>) + Len(q) :
             c[i] = IF i <= Len(<<"0">>) THEN <<"0">>[i] ELSE q[i - Len(<<"0">>)]
    BY <1>4, ConcatProperties
  <2>2. Len(q) \in Nat
    BY LenProperties
  <2> HIDE DEF c
  <2> QED
    BY <1>4, <2>1, <2>2
<1> HIDE DEF c
<1>6. c # <<>> /\ Head(c) = "0"
  BY <1>5, LenProperties
<1>7. Tail(c) = q
  <2>1. Tail(c) \in Seq(KeyNames) /\ Len(Tail(c)) = Len(c) - 1 /\ \A i \in 1 .. Len(Tail(c)) : Tail(c)[i] = c[i + 1]
    BY <1>5, <1>6, HeadTailProperties
  <2>2. Len(q) \in Nat
    BY LenProperties
  <2>3. Len(Tail(c)) = Len(q) /\ \A i \in 1 .. Len(q) : Tail(c)[i] = q[i]
    BY <1>5, <2>1, <2>2
  <2> QED
    BY <2>1, <2>3, SeqEqual
<1>8. Parent(c) = IF q = <<>> THEN <<>> ELSE <<"0">> \o Parent(q)
  <2>1. CASE q = <<>>
    <3>1. Parent(Under(0 + 1, <<>>)) = Under(0, <<>>)
      BY <1>1, UnderParent
    <3>2. Under(0, <<>>) = <<>>
      BY <1>2, <2>1
    <3> QED
      BY <1>1, <1>2, <2>1, <3>1, <3>2 DEF c
  <2>2. CASE q # <<>>
    <3>1. Parent(Under(1, q)) = Under(1, Parent(q))
      BY <1>1, <2>2, UnderParent
    <3>2. Parent(q) \in Seq(KeyNames)
      BY <2>2, PathFacts
    <3> QED
      BY <1>2, <2>2, <3>1, <3>2 DEF c
  <2> QED
    BY <2>1, <2>2
<1> QED
  BY <1>2, <1>5, <1>6, <1>7, <1>8 DEF c

LEMMA ListedIs ==
  ASSUME NEW g, DOMAIN g \subseteq Seq(KeyNames), g # Rejected
  PROVE  ListsOne(InList(g), g)
<1> DEFINE part == [x \in {"0"} |-> g]
           root == Sequence("tuple")
           D == {<<>>} \cup UNION { {<<x>> \o q : q \in DOMAIN part[x]} : x \in DOMAIN part }
<1>1. InList(g) = [p \in D |-> IF p = <<>> THEN root ELSE part[Head(p)][Tail(p)]]
  BY DEF InList, Branch
<1>2. D = {<<>>} \cup { <<"0">> \o q : q \in DOMAIN g }
  <2>1. DOMAIN part = {"0"} /\ part["0"] = g
    OBVIOUS
  <2> HIDE DEF part
  <2> DEFINE Below(x) == {<<x>> \o q : q \in DOMAIN part[x]}
  <2>2. Below("0") = { <<"0">> \o q : q \in DOMAIN g } /\ D = {<<>>} \cup UNION { Below(x) : x \in DOMAIN part }
    BY <2>1
  <2> HIDE DEF Below, D
  <2>3. { Below(x) : x \in DOMAIN part } = {Below("0")}
    BY <2>1
  <2>4. \A X : UNION {X} = X
    OBVIOUS
  <2> QED
    BY <2>2, <2>3, <2>4
<1>3. part["0"] = g
  OBVIOUS
<1> HIDE DEF D, part
<1>4. ASSUME NEW q \in DOMAIN g
      PROVE  InList(g)[<<"0">> \o q] = g[q]
  <2> DEFINE c == <<"0">> \o q
  <2>1. c # <<>> /\ Head(c) = "0" /\ Tail(c) = q
    BY OnePath
  <2>2. c \in D
    BY <1>2
  <2> HIDE DEF c
  <2>3. InList(g)[c] = part[Head(c)][Tail(c)]
    BY <1>1, <2>1, <2>2
  <2> QED
    BY <1>3, <2>1, <2>3 DEF c
<1>5. DOMAIN InList(g) = D /\ InList(g)[<<>>] = root
  <2>1. <<>> \in D
    BY <1>2
  <2> QED
    BY <1>1, <2>1
<1> QED
  BY <1>2, <1>4, <1>5 DEF ListsOne

LEMMA ListConverted ==
  ASSUME NEW s, DOMAIN s \subseteq Seq(KeyNames), s # Rejected
  PROVE  ListsOne(Each(InList(s), FromJSONLeaf), Each(s, FromJSONLeaf))
<1> DEFINE l == InList(s)
           w == Each(l, FromJSONLeaf)
           u == Each(s, FromJSONLeaf)
<1>1. ListsOne(l, s)
  BY ListedIs
<1>2. /\ DOMAIN w = DOMAIN l /\ \A p \in DOMAIN l : w[p] = Shaped(l[p], FromJSONLeaf(l[p]))
      /\ DOMAIN u = DOMAIN s /\ \A p \in DOMAIN s : u[p] = Shaped(s[p], FromJSONLeaf(s[p]))
  BY EachOne
<1> HIDE DEF l, w, u
<1>3. w[<<>>] = Sequence("tuple")
  <2>1. <<>> \in DOMAIN l /\ l[<<>>] = Sequence("tuple") /\ Sequence("tuple").k = "seq"
    BY <1>1, KindFields DEF ListsOne
  <2> QED
    BY <1>2, <2>1 DEF Shaped
<1>4. ListsOne(w, u)
  BY <1>1, <1>2, <1>3 DEF ListsOne
<1> QED
  BY <1>4 DEF l, w, u

LEMMA ListedInside ==
  ASSUME NEW u, IsTree(u), Known(u), NEW w, ListsOne(w, u)
  PROVE  /\ IsTree(w) /\ Known(w)
         /\ \A o : \A n \in Nat : Terraform(o) /\ InsideBy(o, u, n) => InsideBy(o, w, n + 1)
<1>1. \A q \in DOMAIN u : q \in Seq(KeyNames)
  BY DEF IsTree
<1>2. <<>> \in DOMAIN u /\ <<>> \in DOMAIN w
  BY DEF IsTree, ListsOne
<1>3. \A p \in DOMAIN w : p = <<>> \/ \E q \in DOMAIN u : p = <<"0">> \o q /\ w[p] = u[q]
  BY DEF ListsOne
<1>4. \A q \in DOMAIN u : <<"0">> \o q \in DOMAIN w /\ w[<<"0">> \o q] = u[q]
  BY DEF ListsOne
<1>5. w[<<>>].k = "seq" /\ KnownItem(w[<<>>])
  <2>1. w[<<>>] = Sequence("tuple")
    BY DEF ListsOne
  <2>2. Sequence("tuple").k = "seq"
    BY KindFields
  <2>3. KnownItem(Sequence("tuple"))
    BY TupleKnown
  <2> QED
    BY <2>1, <2>2, <2>3
<1>6. IsTree(w)
  <2>1. DOMAIN w \subseteq Seq(KeyNames)
    <3>1. <<>> \in Seq(KeyNames)
      BY EmptySeq
    <3>2. \A q \in Seq(KeyNames) : <<"0">> \o q \in Seq(KeyNames)
      BY OnePath
    <3> QED
      BY <1>1, <1>3, <3>1, <3>2
  <2>2. ASSUME NEW p \in DOMAIN w \ {<<>>}
        PROVE  Parent(p) \in DOMAIN w /\ w[Parent(p)].k \in {"seq", "map"}
    <3>1. PICK q \in DOMAIN u : p = <<"0">> \o q
      BY <1>3
    <3>2. q \in Seq(KeyNames) /\ Parent(p) = IF q = <<>> THEN <<>> ELSE <<"0">> \o Parent(q)
      BY <1>1, <3>1, OnePath
    <3>3. CASE q = <<>>
      BY <1>2, <1>5, <3>2, <3>3
    <3>4. CASE q # <<>>
      <4>1. Parent(q) \in DOMAIN u /\ u[Parent(q)].k \in {"seq", "map"}
        BY <3>4 DEF IsTree
      <4> QED
        BY <1>4, <3>2, <3>4, <4>1
    <3> QED
      BY <3>3, <3>4
  <2> QED
    BY <1>2, <2>1, <2>2 DEF IsTree
<1>7. Known(w)
  BY <1>3, <1>5 DEF Known
<1>8. ASSUME NEW o, NEW n \in Nat, Terraform(o), InsideBy(o, u, n)
      PROVE  InsideBy(o, w, n + 1)
  <2>1. \A q \in Seq(KeyNames) : <<"0">> \o Under(n, q) = Under(n + 1, q)
    BY UnderFacts
  <2>2. \A q \in DOMAIN o : q \in Seq(KeyNames)
    BY <1>8 DEF Terraform, IsTree
  <2>3. ASSUME NEW p \in DOMAIN w
        PROVE  \/ Len(p) < n + 1 /\ p = Under(Len(p), <<>>) /\ w[p].k = "seq"
               \/ \E q \in DOMAIN o : p = Under(n + 1, q) /\ (As(o, q, w[p]) \/ ReadFrom(o, q, w[p]))
    <3>1. CASE p = <<>>
      <4>1. Len(p) = 0 /\ <<>> \in Seq(KeyNames)
        BY <3>1, EmptySeq
      <4>2. Under(0, <<>>) = <<>>
        BY <4>1, UnderFacts
      <4> QED
        BY <1>5, <3>1, <4>1, <4>2
    <3>2. ASSUME NEW r \in DOMAIN u, p = <<"0">> \o r, w[p] = u[r]
          PROVE  \/ Len(p) < n + 1 /\ p = Under(Len(p), <<>>) /\ w[p].k = "seq"
                 \/ \E q \in DOMAIN o : p = Under(n + 1, q) /\ (As(o, q, w[p]) \/ ReadFrom(o, q, w[p]))
      <4>1. CASE Len(r) < n /\ r = Under(Len(r), <<>>) /\ u[r].k = "seq"
        <5>1. r \in Seq(KeyNames) /\ Len(r) \in Nat /\ <<>> \in Seq(KeyNames)
          BY <1>1, LenProperties, EmptySeq
        <5>2. p = Under(Len(r) + 1, <<>>) /\ Len(p) = Len(r) + 1
          <6>1. Under(Len(r) + 1, <<>>) = <<"0">> \o Under(Len(r), <<>>)
            BY <5>1, UnderFacts
          <6>2. p = Under(1, r) /\ 1 \in Nat
            BY <3>2, <5>1, OnePath
          <6>3. Len(p) = 1 + Len(r)
            BY <5>1, <6>2, UnderFacts
          <6>4. p = Under(Len(r) + 1, <<>>)
            BY <3>2, <4>1, <6>1
          <6> QED
            BY <5>1, <6>3, <6>4
        <5> QED
          BY <3>2, <4>1, <5>1, <5>2
      <4>2. ASSUME NEW q \in DOMAIN o, r = Under(n, q), As(o, q, u[r]) \/ ReadFrom(o, q, u[r])
            PROVE  p = Under(n + 1, q) /\ (As(o, q, w[p]) \/ ReadFrom(o, q, w[p]))
        BY <2>1, <2>2, <3>2, <4>2
      <4> QED
        BY <1>8, <4>1, <4>2 DEF InsideBy
    <3> QED
      BY <1>3, <3>1, <3>2
  <2>4. ASSUME NEW q \in DOMAIN o
        PROVE  \/ Under(n + 1, q) \in DOMAIN w
               \/ /\ q # <<>> /\ Under(n + 1, Parent(q)) \in DOMAIN w
                  /\ ReadFrom(o, Parent(q), w[Under(n + 1, Parent(q))])
    <3>1. CASE Under(n, q) \in DOMAIN u
      BY <1>4, <2>1, <2>2, <3>1
    <3>2. CASE /\ q # <<>> /\ Under(n, Parent(q)) \in DOMAIN u
               /\ ReadFrom(o, Parent(q), u[Under(n, Parent(q))])
      <4>1. Parent(q) \in Seq(KeyNames)
        BY <2>2, <3>2, PathFacts
      <4>2. Under(n + 1, Parent(q)) \in DOMAIN w
            /\ w[Under(n + 1, Parent(q))] = u[Under(n, Parent(q))]
        BY <1>4, <2>1, <3>2, <4>1
      <4> QED
        BY <3>2, <4>2
    <3> QED
      BY <1>8, <3>1, <3>2 DEF InsideBy
  <2> QED
    BY <2>3, <2>4 DEF InsideBy
<1> QED
  BY <1>6, <1>7, <1>8

-----------------------------------------------------------------------------
(* Tags                                                                    *)

(* What a decoder of property lists reads.                                 *)
ReadItem(g) ==
  \/ KnownItem(g) /\ g.k \in {"null", "bool", "string"}
  \/ \E k \in {"date", "data"} : \E s : g = Opaque(k, s)
  \/ \E as : \E n \in Int : as # "json" /\ g = Go(as, n)
  \/ g = Sequence("tuple") \/ g = Mapping("object")

LEMMA MappingKnown == KnownItem(Mapping("object"))
<1> DEFINE t == Mapping("object")
<1>1. t.k = "map" /\ t.as = "object" /\ t.n = 0 /\ t.s = ""
  BY KindFields, Zenon
<1>2. t = Item("map", "object", 0, "")
  BY DEF Mapping
<1>3. t = Mapping(t.as)
  BY <1>1
<1> HIDE DEF t
<1>4. IsItem(t)
  <2>1. t = Item(t.k, t.as, t.n, t.s)
    BY <1>2 DEF Item
  <2>2. t.n \in Int
    <3>1. t.n = 0
      BY <1>1, Zenon
    <3> QED
      BY <3>1
  <2> QED
    BY <2>1, <2>2, Zenon DEF IsItem
<1>5. Walked(t)
  BY <1>1 DEF Walked
<1>6. KnownItem(t)
  BY <1>1, <1>3, <1>4, <1>5 DEF KnownItem, IsTerraformItem
<1> QED
  BY <1>6 DEF t

LEMMA TextKnown ==
  /\ \A as, s : as # "digits" => KnownItem(Text(as, s))
  /\ \A n \in Int : KnownItem(Digits(n))
<1>1. ASSUME NEW x, x.k = "string", IsText(x), x = Item(x.k, x.as, x.n, x.s), x.n \in Int
      PROVE  KnownItem(x)
  <2>1. IsItem(x)
    BY <1>1, Zenon DEF IsItem
  <2> QED
    BY <1>1, <2>1, Zenon DEF KnownItem, IsTerraformItem
<1>2. ASSUME NEW as, NEW s, as # "digits"
      PROVE  KnownItem(Text(as, s))
  <2> DEFINE x == Text(as, s)
  <2>1. x.k = "string" /\ x.as = as /\ x.n = 0 /\ x.s = s
    BY DEF Text, Item
  <2>2. x = Item("string", as, 0, s)
    BY DEF Text
  <2>3. x = Text(x.as, x.s)
    BY <2>1, Zenon
  <2> HIDE DEF x
  <2>4. x = Item(x.k, x.as, x.n, x.s)
    BY <2>2 DEF Item
  <2>5. x.n \in Int
    <3>1. x.n = 0
      BY <2>1, Zenon
    <3> QED
      BY <3>1
  <2>6. IsText(x) /\ x.k = "string"
    BY <1>2, <2>1, <2>3 DEF IsText
  <2> QED
    BY <1>1, <2>4, <2>5, <2>6 DEF x
<1>3. ASSUME NEW n \in Int
      PROVE  KnownItem(Digits(n))
  <2> DEFINE x == Digits(n)
  <2>1. x.k = "string" /\ x.as = "digits" /\ x.n = n /\ x.s = ""
    BY TagFields, Zenon
  <2>2. x = Item("string", "digits", n, "")
    BY DEF Digits
  <2>3. x = Digits(x.n)
    BY <2>1, Zenon
  <2> HIDE DEF x
  <2>4. x = Item(x.k, x.as, x.n, x.s)
    BY <2>2 DEF Item
  <2>5. x.n \in Int
    <3>1. x.n = n
      BY <2>1, Zenon
    <3> QED
      BY <3>1
  <2>6. IsText(x) /\ x.k = "string"
    BY <2>1, <2>3 DEF IsText
  <2> QED
    BY <1>1, <2>4, <2>5, <2>6 DEF x
<1> QED
  BY <1>2, <1>3

LEMMA ReadKept ==
  ASSUME NEW g, ReadItem(g), ~Taggable(g)
  PROVE  LET z == Shaped(g, GoToTerraformLeaf(g)) IN
         /\ g.n \in Int /\ KnownItem(z) /\ Same(g, z) /\ z.k = g.k
         /\ z.k = "string" => z = g
         /\ z.k = "map" => g = Mapping("object")
<1> DEFINE z == Shaped(g, GoToTerraformLeaf(g))
<1>1. CASE KnownItem(g) /\ g.k \in {"null", "bool", "string"}
  <2>1. g.n \in Int
    BY <1>1, KnownKinds
  <2>2. z = g
    BY <1>1 DEF Shaped, GoToTerraformLeaf
  <2>3. Same(g, g)
    BY DEF Same, Drift
  <2> HIDE DEF z
  <2>4. /\ g.n \in Int /\ KnownItem(z) /\ Same(g, z) /\ z.k = g.k
        /\ z.k = "string" => z = g
        /\ z.k # "map"
    BY <1>1, <2>1, <2>2, <2>3
  <2> QED
    BY <2>4 DEF z
<1>2. ASSUME NEW k \in {"date", "data"}, NEW s, g = Opaque(k, s)
      PROVE  FALSE
  <2>1. g.k = k
    BY <1>2, TagFields
  <2> QED
    BY <2>1 DEF Taggable
<1>3. ASSUME NEW as, NEW n \in Int, as # "json", g = Go(as, n)
      PROVE  /\ g.n \in Int /\ KnownItem(z) /\ Same(g, z) /\ z.k = g.k
             /\ z.k # "string" /\ z.k # "map"
  <2>1. g.k = "num" /\ g.n = n /\ g.s = ""
    BY <1>3, GoFields
  <2>2. GoToTerraformLeaf(g) = Number(n)
    BY <1>3, GoNumbers
  <2>3. z = Number(n)
    BY <2>1, <2>2 DEF Shaped
  <2>4. Number(n).k = "num" /\ Number(n).n = n /\ Number(n).s = "" /\ KnownItem(Number(n))
    BY KindFields, NumberIsKnown
  <2> HIDE DEF z
  <2>5. Same(g, z)
    BY <2>1, <2>3, <2>4 DEF Same, Drift
  <2>6. g.n \in Int
    <3>1. g.n = n
      BY <2>1, Zenon
    <3> QED
      BY <3>1
  <2> QED
    BY <2>1, <2>3, <2>4, <2>5, <2>6
<1>4. CASE g = Sequence("tuple")
  <2>1. KnownItem(g) /\ g.k = "seq"
    BY <1>4, TupleKnown, KindFields
  <2>2. g.n \in Int
    BY <2>1, KnownKinds
  <2>3. z = g
    BY <1>4, <2>1 DEF Shaped
  <2>4. Same(g, g)
    BY DEF Same, Drift
  <2> HIDE DEF z
  <2>5. /\ g.n \in Int /\ KnownItem(z) /\ Same(g, z) /\ z.k = g.k
        /\ z.k # "string" /\ z.k # "map"
    BY <2>1, <2>2, <2>3, <2>4
  <2> QED
    BY <2>5 DEF z
<1>5. CASE g = Mapping("object")
  <2>1. KnownItem(g) /\ g.k = "map"
    BY <1>5, MappingKnown, KindFields
  <2>2. g.n \in Int
    BY <2>1, KnownKinds
  <2>3. z = g
    BY <1>5, <2>1 DEF Shaped
  <2>4. Same(g, g)
    BY DEF Same, Drift
  <2> HIDE DEF z
  <2>5. /\ g.n \in Int /\ KnownItem(z) /\ Same(g, z) /\ z.k = g.k
        /\ z.k # "string"
    BY <2>1, <2>2, <2>3, <2>4
  <2> QED
    BY <1>5, <2>5 DEF z
<1> QED
  BY <1>1, <1>2, <1>3, <1>4, <1>5 DEF ReadItem

(* What is written as a tag.                                               *)
LEMMA TagWritten ==
  ASSUME NEW g, ReadItem(g), Taggable(g)
  PROVE  /\ g.k \in {"date", "data", "num"} /\ KnownItem(TagText(g)) /\ TagText(g).k = "string"
         /\ \/ \E s : g = Opaque("date", s) /\ TagText(g) = Text("date", Canonical(s))
            \/ \E s : g = Opaque("data", s) /\ TagText(g) = Text("base64", Canonical(s))
            \/ \E n \in Int : g = Go("float", n) /\ Whole(n) /\ TagText(g) = Digits(n)
<1>1. ASSUME NEW k \in {"date", "data"}, NEW s, g = Opaque(k, s)
      PROVE  /\ g.k \in {"date", "data"} /\ KnownItem(TagText(g)) /\ TagText(g).k = "string"
             /\ \/ g = Opaque("date", s) /\ TagText(g) = Text("date", Canonical(s))
                \/ g = Opaque("data", s) /\ TagText(g) = Text("base64", Canonical(s))
  <2>1. g.k = k /\ g.s = s
    BY <1>1 DEF Opaque, Item
  <2>2. KnownItem(Text("date", Canonical(s))) /\ KnownItem(Text("base64", Canonical(s)))
    BY TextKnown
  <2>3. \A r : Text("date", r).k = "string" /\ Text("base64", r).k = "string"
    BY DEF Text, Item
  <2>4. k = "date" => TagText(g) = Text("date", Canonical(s))
    BY <2>1 DEF TagText
  <2>5. k = "data" => TagText(g) = Text("base64", Canonical(s))
    BY <2>1 DEF TagText
  <2> QED
    BY <1>1, <2>1, <2>2, <2>3, <2>4, <2>5
<1>2. ASSUME NEW as, NEW n \in Int, as # "json", g = Go(as, n)
      PROVE  /\ g.k = "num" /\ KnownItem(TagText(g)) /\ TagText(g).k = "string"
             /\ g = Go("float", n) /\ Whole(n) /\ TagText(g) = Digits(n)
  <2>1. g.k = "num" /\ g.n = n /\ g.as = as
    BY <1>2, GoFields
  <2>2. as = "float" /\ Whole(n)
    BY <2>1 DEF Taggable
  <2>3. TagText(g) = Digits(n)
    BY <2>1 DEF TagText
  <2>4. KnownItem(Digits(n)) /\ Digits(n).k = "string"
    BY TextKnown, TagFields
  <2> QED
    BY <1>2, <2>1, <2>2, <2>3, <2>4
<1>3. g.k \in {"date", "data", "num"}
  BY DEF Taggable
<1>4. ~(KnownItem(g) /\ g.k \in {"null", "bool", "string"})
  BY <1>3
<1>5. g # Sequence("tuple") /\ g # Mapping("object")
  BY <1>3, KindFields
<1> QED
  BY <1>1, <1>2, <1>4, <1>5 DEF ReadItem

(* What a property list holds of an item.                                  *)
LEMMA PlistItem ==
  ASSUME NEW x, KnownItem(x), edge \in Int
  PROVE  LET a == Shaped(x, TerraformToGoLeaf(x))
             b == Shaped(a, PreparePlistLeaf(a))
             y == Shaped(b, PlistTextLeaf(b)) IN
         ReadItem(y) /\ y.k = x.k /\ ((x.k = "num" => Tame(x.n)) => Same(x, y) /\ ~Taggable(y))
<1> DEFINE a == Shaped(x, TerraformToGoLeaf(x))
           b == Shaped(a, PreparePlistLeaf(a))
           y == Shaped(b, PlistTextLeaf(b))
<1>1. CASE x.k = "num"
  <2>1. PICK n \in Int : x = Number(n)
    BY <1>1, KnownKinds
  <2>2. PICK as \in {"int64", "big", "float"}, m \in Drift(n) :
          /\ TerraformToGoLeaf(Number(n)) = Go(as, m)
          /\ as = "float" => m = Near(n) /\ ~Whole(n)
    BY NumberMade
  <2>3. m \in Int /\ Near(m) \in Drift(n) /\ as # "json"
    BY SameNumber, NearFacts
  <2>5. PICK other, k :
          /\ k \in Int
          /\ PreparePlistLeaf(Go(as, m)) = Go(other, k) /\ other # "json"
          /\ Tame(n) => k = m /\ (other = "float" => ~Whole(k))
    <3> DEFINE IsKept(other, k) ==
                 /\ PreparePlistLeaf(Go(as, m)) = Go(other, k) /\ other # "json"
                 /\ Tame(n) => k = m /\ (other = "float" => ~Whole(k))
    <3>1. CASE as # "float"
      <4>1. PreparePlistLeaf(Go(as, m)) = Go(as, m)
        BY <2>3, <3>1, NumberMade
      <4>2. IsKept(as, m)
        BY <2>3, <3>1, <4>1
      <4> HIDE DEF IsKept
      <4>3. \E other, k : k \in Int /\ IsKept(other, k)
        BY <2>3, <4>2
      <4> QED
        BY <4>3 DEF IsKept
    <3>2. CASE as = "float"
      <4> DEFINE top == IF m = Top63 THEN edge ELSE m
      <4>1. /\ PreparePlistLeaf(Go("float", m)) \in {Go("float", m), Go("int64", top)}
            /\ ~Whole(m) => PreparePlistLeaf(Go("float", m)) = Go("float", m)
            /\ Whole(m) /\ m \in -Top63 .. Top63 => PreparePlistLeaf(Go("float", m)) = Go("int64", top)
        BY <2>3, NumberMade
      <4>2. top \in Int /\ (Tame(n) /\ Whole(m) => top = m /\ m \in -Top63 .. Top63)
        <5>1. m = Near(n) /\ ~Whole(n)
          BY <2>2, <3>2
        <5>2. Tame(n) /\ Whole(m) => m # Top63 /\ m \in -Top63 .. Top63
          BY <2>3, <5>1, TopIs DEF Tame, Past
        <5> QED
          BY <2>3, <5>2
      <4> HIDE DEF top
      <4>3. IsKept("float", m) \/ IsKept("int64", top)
        BY <3>2, <4>1, <4>2
      <4> HIDE DEF IsKept
      <4>4. \E other, k : k \in Int /\ IsKept(other, k)
        BY <2>3, <4>2, <4>3
      <4> QED
        BY <4>4 DEF IsKept
    <3> QED
      BY <3>1, <3>2
  <2>first. a = Go(as, m)
    <3>1. TerraformToGoLeaf(Number(n)) = Go(as, m)
      BY <2>2
    <3>2. a = Shaped(Number(n), Go(as, m))
      BY <2>1, <3>1
    <3>3. Shaped(Go("number", n), Go(as, m)) = Go(as, m)
      <4>1. Go("number", n).k = "num"
        BY GoFields, Zenon
      <4> QED
        BY <4>1 DEF Shaped
    <3>4. Number(n) = Go("number", n)
      BY NumberIsGo, Zenon
    <3> QED
      BY <3>2, <3>3, <3>4
  <2>second. b = Go(other, k)
    <3>1. PreparePlistLeaf(Go(as, m)) = Go(other, k)
      BY <2>5
    <3>2. b = Shaped(Go(as, m), Go(other, k))
      BY <2>first, <3>1
    <3>3. Shaped(Go(as, m), Go(other, k)) = Go(other, k)
      <4>1. Go(as, m).k = "num"
        BY GoFields, Zenon
      <4> QED
        BY <4>1 DEF Shaped
    <3> QED
      BY <3>2, <3>3
  <2>third. y = Go(other, k)
    <3>1. PlistTextLeaf(Go(other, k)) = Go(other, k)
      BY GoNumbers, Zenon
    <3>2. y = Shaped(Go(other, k), Go(other, k))
      BY <2>second, <3>1
    <3>3. Shaped(Go(other, k), Go(other, k)) = Go(other, k)
      <4>1. Go(other, k).k = "num"
        BY GoFields, Zenon
      <4> QED
        BY <4>1 DEF Shaped
    <3> QED
      BY <3>2, <3>3
  <2>6. Tame(n) => Same(Number(n), Go(other, k))
    BY <2>3, <2>5, SameNumber
  <2>7. x.k = "num" /\ x.n = n
    BY <2>1, KindFields
  <2>8. /\ Go(other, k).k = "num" /\ Go(other, k).as = other /\ Go(other, k).n = k
        /\ ReadItem(Go(other, k))
    BY <2>5, GoFields DEF ReadItem
  <2>9. Tame(n) => ~Taggable(Go(other, k))
    BY <2>5, <2>8 DEF Taggable
  <2> HIDE DEF a, b, y
  <2>both. ReadItem(y) /\ y.k = x.k /\ ((x.k = "num" => Tame(x.n)) => Same(x, y) /\ ~Taggable(y))
    BY <2>1, <2>third, <2>6, <2>7, <2>8, <2>9
  <2> QED
    BY <2>both DEF a, b, y
<1>2. CASE x.k # "num"
  <2> DEFINE c == Shaped(x, x)
  <2>1. /\ KnownItem(c) /\ Same(x, c) /\ c.k = x.k
        /\ Shaped(x, TerraformToGoLeaf(x)) = c /\ Steady(c)
    BY <1>2, CalmItems, CalmStays
  <2> HIDE DEF c
  <2>first. a = c
    BY <2>1
  <2>second. b = c
    BY <2>1, <2>first DEF Steady
  <2>third. y = c
    BY <2>1, <2>second DEF Steady
  <2>2. ReadItem(c)
    <3>1. CASE c.k = "seq" \/ c.k = "map"
      <4>1. c = Sequence("tuple") \/ c = Mapping("object")
        BY <2>1, <3>1 DEF c, Shaped
      <4> QED
        BY <4>1 DEF ReadItem
    <3>2. CASE c.k # "seq" /\ c.k # "map"
      <4>1. c.k \in {"null", "bool", "string"}
        BY <1>2, <2>1, <3>2, KnownKinds
      <4> QED
        BY <2>1, <4>1 DEF ReadItem
    <3> QED
      BY <3>1, <3>2
  <2>3. ~Taggable(c)
    <3>1. c.k \in {"null", "bool", "string", "seq", "map"}
      BY <1>2, <2>1, KnownKinds
    <3> QED
      BY <3>1 DEF Taggable
  <2>both. ReadItem(y) /\ y.k = x.k /\ ((x.k = "num" => Tame(x.n)) => Same(x, y) /\ ~Taggable(y))
    BY <2>1, <2>2, <2>3, <2>first, <2>second, <2>third
  <2> QED
    BY <2>both DEF a, b, y
<1> QED
  BY <1>1, <1>2

Tagged(g) == { p \in DOMAIN g : Taggable(g[p]) }
TagPaths(g) == { Append(q, x) : q \in Tagged(g), x \in {TypeKey, ValueKey} }
TypeText(g) == Text("plain", IF g.k = "num" THEN "real" ELSE g.k)

LEMMA TagKeys == TypeKey \in KeyNames /\ ValueKey \in KeyNames /\ TypeKey # ValueKey
BY ValuesAssumption DEF TypeKey, ValueKey

(* A leaf has nothing below it.                                            *)
LEMMA TagPathsAreNew ==
  ASSUME NEW g, IsTree(g), \A p \in DOMAIN g : ReadItem(g[p]),
         NEW q \in Tagged(g), NEW x \in {TypeKey, ValueKey}
  PROVE  /\ q \in Seq(KeyNames) /\ Append(q, x) \in Seq(KeyNames) /\ Append(q, x) # <<>>
         /\ Parent(Append(q, x)) = q /\ Append(q, x)[Len(Append(q, x))] = x
         /\ Append(q, x) \notin DOMAIN g
<1>1. q \in DOMAIN g /\ Taggable(g[q]) /\ ReadItem(g[q]) /\ q \in Seq(KeyNames)
  BY DEF Tagged, IsTree
<1>2. x \in KeyNames
  BY TagKeys
<1>3. /\ Append(q, x) \in Seq(KeyNames) /\ Append(q, x) # <<>>
      /\ Parent(Append(q, x)) = q /\ Append(q, x)[Len(Append(q, x))] = x
  BY <1>1, <1>2, PathFacts
<1>4. g[q].k \notin {"seq", "map"}
  BY <1>1, TagWritten
<1>5. Append(q, x) \notin DOMAIN g
  BY <1>3, <1>4 DEF IsTree
<1> QED
  BY <1>1, <1>3, <1>5

LEMMA WithTagsIs ==
  ASSUME NEW g, IsTree(g), \A p \in DOMAIN g : ReadItem(g[p])
  PROVE  LET t == WithTags(g) IN
         /\ DOMAIN t = DOMAIN g \cup TagPaths(g)
         /\ \A p \in Tagged(g) : t[p] = Mapping("object")
         /\ \A p \in DOMAIN g \ Tagged(g) : t[p] = g[p]
         /\ \A q \in Tagged(g) : /\ t[Append(q, TypeKey)] = TypeText(g[q])
                                 /\ t[Append(q, ValueKey)] = TagText(g[q])
<1> DEFINE t == WithTags(g)
           D == DOMAIN g \cup TagPaths(g)
           F(p) == IF p \in Tagged(g) THEN Mapping("object")
                   ELSE IF p \in DOMAIN g THEN g[p]
                   ELSE IF p[Len(p)] = TypeKey THEN TypeText(g[Parent(p)])
                   ELSE TagText(g[Parent(p)])
<1>1. t = [p \in D |-> F(p)]
  BY DEF WithTags, Tagged, TagPaths, TypeText
<1> HIDE DEF t
<1>2. DOMAIN t = D /\ \A p \in D : t[p] = F(p)
  BY <1>1
<1>3. \A p \in Tagged(g) : p \in DOMAIN g /\ t[p] = Mapping("object")
  BY <1>2 DEF Tagged
<1>4. \A p \in DOMAIN g \ Tagged(g) : t[p] = g[p]
  BY <1>2
<1>5. ASSUME NEW q \in Tagged(g)
      PROVE  /\ t[Append(q, TypeKey)] = TypeText(g[q])
             /\ t[Append(q, ValueKey)] = TagText(g[q])
  <2>1. \A x \in {TypeKey, ValueKey} :
          /\ Append(q, x) \in D /\ Parent(Append(q, x)) = q
          /\ Append(q, x)[Len(Append(q, x))] = x /\ Append(q, x) \notin DOMAIN g
    BY TagPathsAreNew DEF TagPaths
  <2>2. \A x \in {TypeKey, ValueKey} : Append(q, x) \notin Tagged(g)
    BY <2>1 DEF Tagged
  <2>3. ASSUME NEW x \in {TypeKey, ValueKey}
        PROVE  t[Append(q, x)] = IF x = TypeKey THEN TypeText(g[q]) ELSE TagText(g[q])
    <3> DEFINE c == Append(q, x)
    <3>1. /\ c \in D /\ Parent(c) = q /\ c[Len(c)] = x /\ c \notin DOMAIN g /\ c \notin Tagged(g)
      BY <2>1, <2>2
    <3> HIDE DEF c
    <3>2. t[c] = F(c)
      BY <1>2, <3>1
    <3>3. F(c) = IF x = TypeKey THEN TypeText(g[q]) ELSE TagText(g[q])
      BY <3>1
    <3> QED
      BY <3>2, <3>3 DEF c
  <2> QED
    BY <2>3, TagKeys
<1> QED
  BY <1>2, <1>3, <1>4, <1>5 DEF t

(* What a decoder returns for a property list.                             *)
LEMMA TagsRead ==
  ASSUME NEW g, IsTree(g), \A p \in DOMAIN g : ReadItem(g[p])
  PROVE  LET w == Each(WithTags(g), GoToTerraformLeaf) IN
         /\ DOMAIN w = DOMAIN g \cup TagPaths(g)
         /\ \A p \in Tagged(g) : w[p] = Mapping("object")
         /\ \A p \in DOMAIN g \ Tagged(g) : w[p] = Shaped(g[p], GoToTerraformLeaf(g[p]))
         /\ \A q \in Tagged(g) : /\ w[Append(q, TypeKey)] = TypeText(g[q])
                                 /\ w[Append(q, ValueKey)] = TagText(g[q])
         /\ IsTree(w) /\ Known(w)
<1> DEFINE t == WithTags(g)
           w == Each(t, GoToTerraformLeaf)
<1>1. /\ DOMAIN t = DOMAIN g \cup TagPaths(g)
      /\ \A p \in Tagged(g) : t[p] = Mapping("object")
      /\ \A p \in DOMAIN g \ Tagged(g) : t[p] = g[p]
      /\ \A q \in Tagged(g) : /\ t[Append(q, TypeKey)] = TypeText(g[q])
                              /\ t[Append(q, ValueKey)] = TagText(g[q])
  BY WithTagsIs
<1>2. DOMAIN w = DOMAIN t /\ \A p \in DOMAIN t : w[p] = Shaped(t[p], GoToTerraformLeaf(t[p]))
  BY EachOne
<1> HIDE DEF t, w
<1>3. ASSUME NEW p \in Tagged(g)
      PROVE  w[p] = Mapping("object") /\ p \in DOMAIN g
  <2>1. p \in DOMAIN t /\ p \in DOMAIN g
    BY <1>1 DEF Tagged
  <2>2. t[p].k = "map"
    <3>1. Mapping("object").k = "map"
      BY KindFields, Zenon
    <3> QED
      BY <1>1, <3>1
  <2> QED
    BY <1>2, <2>1, <2>2 DEF Shaped
<1>4. \A p \in DOMAIN g \ Tagged(g) : w[p] = Shaped(g[p], GoToTerraformLeaf(g[p]))
  BY <1>1, <1>2
<1>5. ASSUME NEW x, KnownItem(x), x.k = "string"
      PROVE  Shaped(x, GoToTerraformLeaf(x)) = x
  BY <1>5 DEF Shaped, GoToTerraformLeaf
<1>6. ASSUME NEW q \in Tagged(g)
      PROVE  /\ w[Append(q, TypeKey)] = TypeText(g[q]) /\ KnownItem(TypeText(g[q]))
             /\ w[Append(q, ValueKey)] = TagText(g[q]) /\ KnownItem(TagText(g[q]))
             /\ TypeText(g[q]).k = "string" /\ TagText(g[q]).k = "string"
  <2>1. Append(q, TypeKey) \in DOMAIN t /\ Append(q, ValueKey) \in DOMAIN t
    BY <1>1 DEF TagPaths
  <2>2. KnownItem(TagText(g[q])) /\ TagText(g[q]).k = "string"
    BY TagWritten DEF Tagged
  <2>3. KnownItem(TypeText(g[q])) /\ TypeText(g[q]).k = "string"
    <3>1. \A s : KnownItem(Text("plain", s)) /\ Text("plain", s).k = "string"
      <4>1. \A s : KnownItem(Text("plain", s))
        BY TextKnown
      <4>2. \A s : Text("plain", s).k = "string"
        BY DEF Text, Item
      <4> QED
        BY <4>1, <4>2
    <3> QED
      BY <3>1 DEF TypeText
  <2> QED
    BY <1>1, <1>2, <1>5, <2>1, <2>2, <2>3
<1>7. \A p \in DOMAIN w : \/ p \in Tagged(g) \/ p \in DOMAIN g \ Tagged(g)
                          \/ \E q \in Tagged(g), x \in {TypeKey, ValueKey} : p = Append(q, x)
  BY <1>1, <1>2 DEF TagPaths
<1>8. Known(w)
  <2> SUFFICES ASSUME NEW p \in DOMAIN w
               PROVE  KnownItem(w[p])
    BY DEF Known
  <2>1. CASE p \in Tagged(g)
    BY <1>3, <2>1, MappingKnown
  <2>2. CASE p \in DOMAIN g \ Tagged(g)
    <3>1. ReadItem(g[p]) /\ ~Taggable(g[p])
      BY <2>2 DEF Tagged
    <3> QED
      BY <1>4, <2>2, <3>1, ReadKept
  <2>3. CASE \E q \in Tagged(g), x \in {TypeKey, ValueKey} : p = Append(q, x)
    BY <1>6, <2>3
  <2> QED
    BY <1>7, <2>1, <2>2, <2>3
<1>9. IsTree(w)
  <2>1. DOMAIN w \subseteq Seq(KeyNames) /\ <<>> \in DOMAIN w
    <3>1. DOMAIN g \subseteq Seq(KeyNames) /\ <<>> \in DOMAIN g
      BY DEF IsTree
    <3>2. TagPaths(g) \subseteq Seq(KeyNames)
      BY TagPathsAreNew DEF TagPaths
    <3> QED
      BY <1>1, <1>2, <3>1, <3>2
  <2>2. ASSUME NEW p \in DOMAIN w \ {<<>>}
        PROVE  Parent(p) \in DOMAIN w /\ w[Parent(p)].k \in {"seq", "map"}
    <3>1. CASE p \in DOMAIN g
      <4>1. Parent(p) \in DOMAIN g /\ g[Parent(p)].k \in {"seq", "map"}
        BY <3>1 DEF IsTree
      <4>2. Parent(p) \notin Tagged(g)
        <5> SUFFICES ASSUME Parent(p) \in Tagged(g)
                     PROVE  FALSE
          OBVIOUS
        <5>1. g[Parent(p)].k \in {"date", "data", "num"}
          BY TagWritten DEF Tagged
        <5> QED
          BY <4>1, <5>1
      <4>3. w[Parent(p)].k = g[Parent(p)].k
        <5>1. ReadItem(g[Parent(p)]) /\ ~Taggable(g[Parent(p)])
          BY <4>1, <4>2 DEF Tagged
        <5> QED
          BY <1>4, <4>1, <4>2, <5>1, ReadKept
      <4> QED
        BY <1>1, <1>2, <4>1, <4>3
    <3>2. ASSUME NEW q \in Tagged(g), NEW x \in {TypeKey, ValueKey}, p = Append(q, x)
          PROVE  Parent(p) \in DOMAIN w /\ w[Parent(p)].k \in {"seq", "map"}
      <4>1. Parent(p) = q
        BY <3>2, TagPathsAreNew
      <4>2. w[q] = Mapping("object") /\ q \in DOMAIN w
        BY <1>1, <1>2, <1>3
      <4>3. Mapping("object").k = "map"
        BY KindFields, Zenon
      <4> QED
        BY <4>1, <4>2, <4>3
    <3> QED
      BY <1>7, <1>3, <3>1, <3>2
  <2> QED
    BY <2>1, <2>2 DEF IsTree
<1> QED
  BY <1>1, <1>2, <1>3, <1>4, <1>6, <1>8, <1>9 DEF t, w

(* What the tags of a decoded list stand for is what was read, respelt.    *)
LEMMA TagsStandForWhatWasRead ==
  ASSUME NEW g, IsTree(g), \A p \in DOMAIN g : ReadItem(g[p]), NEW p \in Tagged(g)
  PROVE  LET w == Each(WithTags(g), GoToTerraformLeaf) IN
         /\ IsTag(w, p)
         /\ TryUnpack(w, p) = IF g[p].k = "num" THEN Real(Near(g[p].n)) ELSE Respelt(g[p])
<1> DEFINE w == Each(WithTags(g), GoToTerraformLeaf)
<1>1. /\ DOMAIN w = DOMAIN g \cup TagPaths(g)
      /\ w[p] = Mapping("object")
      /\ w[Append(p, TypeKey)] = TypeText(g[p]) /\ w[Append(p, ValueKey)] = TagText(g[p])
  BY TagsRead
<1> HIDE DEF w
<1>2. p \in DOMAIN g /\ ReadItem(g[p]) /\ Taggable(g[p])
  BY DEF Tagged
<1>3. /\ g[p].k \in {"date", "data", "num"} /\ TagText(g[p]).k = "string"
      /\ \/ \E s : g[p] = Opaque("date", s) /\ TagText(g[p]) = Text("date", Canonical(s))
         \/ \E s : g[p] = Opaque("data", s) /\ TagText(g[p]) = Text("base64", Canonical(s))
         \/ \E n \in Int : g[p] = Go("float", n) /\ Whole(n) /\ TagText(g[p]) = Digits(n)
  BY <1>2, TagWritten
<1>4. Kids(w, p) = {Append(p, TypeKey), Append(p, ValueKey)}
  <2>1. ASSUME NEW q \in Kids(w, p)
        PROVE  q \in {Append(p, TypeKey), Append(p, ValueKey)}
    <3>1. q \in DOMAIN w /\ q # <<>> /\ Parent(q) = p
      BY DEF Kids
    <3>2. q \notin DOMAIN g
      BY <1>3, <3>1 DEF IsTree
    <3>3. PICK r \in Tagged(g), x \in {TypeKey, ValueKey} : q = Append(r, x)
      BY <1>1, <3>1, <3>2 DEF TagPaths
    <3>4. r = p
      BY <3>1, <3>3, TagPathsAreNew
    <3> QED
      BY <3>3, <3>4
  <2>2. ASSUME NEW x \in {TypeKey, ValueKey}
        PROVE  Append(p, x) \in Kids(w, p)
    <3>1. Append(p, x) \in TagPaths(g)
      BY DEF TagPaths
    <3>2. Append(p, x) # <<>> /\ Parent(Append(p, x)) = p
      BY TagPathsAreNew
    <3> QED
      BY <1>1, <3>1, <3>2 DEF Kids
  <2> QED
    BY <2>1, <2>2
<1> DEFINE type == IF g[p].k = "num" THEN "real" ELSE g[p].k
<1>5. type \in TagTypes /\ w[Append(p, TypeKey)] = Text("plain", type)
  BY <1>1, <1>3 DEF TypeText, TagTypes
<1>6. w[Append(p, TypeKey)].k = "string" /\ w[Append(p, TypeKey)].s = type
  <2> HIDE DEF type
  <2>1. Text("plain", type).k = "string" /\ Text("plain", type).s = type
    BY DEF Text, Item
  <2> QED
    BY <1>5, <2>1
<1>7. IsTag(w, p)
  <2>1. \A q \in Kids(w, p) : w[q].k = "string"
    BY <1>1, <1>3, <1>4, <1>6
  <2>2. \E other \in TagTypes : w[Append(p, TypeKey)] = Text("plain", other)
    <3> HIDE DEF type
    <3> QED
      BY <1>5
  <2> QED
    BY <1>1, <1>4, <2>1, <2>2 DEF IsTag, HasTagKeys
<1> DEFINE text == w[Append(p, ValueKey)]
           name == w[Append(p, TypeKey)].s
<1>8. TryUnpack(w, p) =
        CASE name = "date" /\ text.as = "date"   -> Opaque("date", text.s)
          [] name = "data" /\ text.as = "base64" -> Opaque("data", text.s)
          [] name = "real" /\ text.as = "digits" -> Real(Near(text.n))
          [] OTHER -> Misfit
  BY DEF TryUnpack
<1>9. name = type /\ text = TagText(g[p])
  BY <1>1, <1>6
<1> HIDE DEF text, name
<1>10. TryUnpack(w, p) = IF g[p].k = "num" THEN Real(Near(g[p].n)) ELSE Respelt(g[p])
  <2>1. ASSUME NEW s, g[p] = Opaque("date", s), TagText(g[p]) = Text("date", Canonical(s))
        PROVE  TryUnpack(w, p) = Respelt(g[p]) /\ g[p].k # "num"
    <3>1. g[p].k = "date" /\ text.as = "date" /\ text.s = Canonical(s)
      BY <1>9, <2>1 DEF Opaque, Text, Item
    <3>2. name = "date"
      BY <1>9, <3>1
    <3> QED
      BY <1>8, <2>1, <3>1, <3>2, RespeltIs
  <2>2. ASSUME NEW s, g[p] = Opaque("data", s), TagText(g[p]) = Text("base64", Canonical(s))
        PROVE  TryUnpack(w, p) = Respelt(g[p]) /\ g[p].k # "num"
    <3>1. g[p].k = "data" /\ text.as = "base64" /\ text.s = Canonical(s)
      BY <1>9, <2>2 DEF Opaque, Text, Item
    <3>2. name = "data"
      BY <1>9, <3>1
    <3> QED
      BY <1>8, <2>2, <3>1, <3>2, RespeltIs
  <2>3. ASSUME NEW n \in Int, g[p] = Go("float", n), TagText(g[p]) = Digits(n)
        PROVE  TryUnpack(w, p) = Real(Near(n)) /\ g[p].k = "num" /\ g[p].n = n
    <3>1. g[p].k = "num" /\ g[p].n = n /\ text.as = "digits" /\ text.n = n
      <4>1. g[p].k = "num" /\ g[p].n = n
        <5>1. Go("float", n).k = "num" /\ Go("float", n).n = n
          BY GoFields, Zenon
        <5> QED
          BY <2>3, <5>1
      <4>2. Digits(n).as = "digits" /\ Digits(n).n = n
        BY DEF Digits, Item
      <4> QED
        BY <1>9, <2>3, <4>1, <4>2
    <3>2. name = "real"
      BY <1>9, <3>1
    <3> QED
      BY <1>8, <3>1, <3>2
  <2> QED
    BY <1>3, <2>1, <2>2, <2>3
<1> QED
  BY <1>7, <1>10 DEF w

(* There are no others, but for dictionaries that were read with the keys  *)
(* of a tag.                                                               *)
LEMMA OtherTagsWereRead ==
  ASSUME NEW g, IsTree(g), \A q \in DOMAIN g : ReadItem(g[q]),
         NEW p, p \notin Tagged(g), IsTag(Each(WithTags(g), GoToTerraformLeaf), p)
  PROVE  LET w == Each(WithTags(g), GoToTerraformLeaf) IN
         p \in DOMAIN g /\ IsTag(g, p) /\ TryUnpack(g, p) = TryUnpack(w, p)
<1> DEFINE w == Each(WithTags(g), GoToTerraformLeaf)
<1>1. /\ DOMAIN w = DOMAIN g \cup TagPaths(g)
      /\ \A q \in Tagged(g) : w[q] = Mapping("object")
      /\ \A q \in DOMAIN g \ Tagged(g) : w[q] = Shaped(g[q], GoToTerraformLeaf(g[q]))
      /\ \A q \in Tagged(g) : /\ w[Append(q, TypeKey)] = TypeText(g[q])
                              /\ w[Append(q, ValueKey)] = TagText(g[q])
      /\ IsTree(w)
  BY TagsRead
<1>2. IsTag(w, p)
  OBVIOUS
<1> HIDE DEF w
<1>3. /\ w[p] = Mapping("object") /\ Kids(w, p) = {Append(p, TypeKey), Append(p, ValueKey)}
      /\ \A q \in Kids(w, p) : w[q].k = "string"
      /\ \E type \in TagTypes : w[Append(p, TypeKey)] = Text("plain", type)
  BY <1>2 DEF IsTag, HasTagKeys
<1>4. Mapping("object").k = "map"
  BY KindFields, Zenon
<1>5. p \in DOMAIN w
  <2>1. Append(p, TypeKey) \in DOMAIN w /\ Append(p, TypeKey) # <<>> /\ Parent(Append(p, TypeKey)) = p
    BY <1>3 DEF Kids
  <2> QED
    BY <1>1, <2>1 DEF IsTree
<1>6. p \in DOMAIN g
  <2> SUFFICES ASSUME p \in TagPaths(g)
               PROVE  FALSE
    BY <1>1, <1>5
  <2>1. PICK q \in Tagged(g), x \in {TypeKey, ValueKey} : p = Append(q, x)
    BY DEF TagPaths
  <2>2. TypeText(g[q]).k = "string" /\ TagText(g[q]).k = "string"
    <3>1. TagText(g[q]).k = "string"
      BY TagWritten DEF Tagged
    <3>2. TypeText(g[q]).k = "string"
      BY DEF TypeText, Text, Item
    <3> QED
      BY <3>1, <3>2
  <2>3. w[p].k = "string"
    BY <1>1, <2>1, <2>2
  <2> QED
    BY <1>3, <1>4, <2>3
<1>7. ASSUME NEW q \in DOMAIN g, q \notin Tagged(g)
      PROVE  /\ ReadItem(g[q]) /\ ~Taggable(g[q])
             /\ w[q].k = "string" => w[q] = g[q]
             /\ w[q].k = "map" => g[q] = Mapping("object")
  <2>1. ReadItem(g[q]) /\ ~Taggable(g[q])
    BY <1>7 DEF Tagged
  <2> QED
    BY <1>1, <1>7, <2>1, ReadKept
<1>8. g[p] = Mapping("object")
  BY <1>3, <1>4, <1>6, <1>7
<1>9. Kids(w, p) = Kids(g, p) /\ \A q \in Kids(g, p) : g[q] = w[q]
  <2>1. ASSUME NEW q \in Kids(w, p)
        PROVE  q \in Kids(g, p) /\ g[q] = w[q]
    <3>1. q \in DOMAIN w /\ q # <<>> /\ Parent(q) = p
      BY DEF Kids
    <3>2. q \notin TagPaths(g)
      <4> SUFFICES ASSUME NEW r \in Tagged(g), NEW x \in {TypeKey, ValueKey}, q = Append(r, x)
                   PROVE  FALSE
        BY DEF TagPaths
      <4>1. Parent(q) = r
        BY TagPathsAreNew
      <4> QED
        BY <3>1, <4>1
    <3>3. q \in DOMAIN g
      BY <1>1, <3>1, <3>2
    <3>4. w[q].k = "string"
      BY <1>3
    <3>5. q \notin Tagged(g)
      BY <1>1, <1>4, <3>4
    <3> QED
      BY <1>7, <3>1, <3>3, <3>4, <3>5 DEF Kids
  <2>2. ASSUME NEW q \in Kids(g, p)
        PROVE  q \in Kids(w, p)
    BY <1>1 DEF Kids
  <2> QED
    BY <2>1, <2>2
<1>10. w[Append(p, TypeKey)] = g[Append(p, TypeKey)] /\ w[Append(p, ValueKey)] = g[Append(p, ValueKey)]
  BY <1>3, <1>9
<1>11. IsTag(g, p)
  BY <1>3, <1>8, <1>9, <1>10 DEF IsTag, HasTagKeys
<1>12. TryUnpack(g, p) = TryUnpack(w, p)
  BY <1>10 DEF TryUnpack
<1> QED
  BY <1>6, <1>11, <1>12 DEF w

(* What a property list is made of.                                        *)
Listless(v) == { q \in DOMAIN v : q = <<>> \/ ~IsTag(v, Parent(q)) }
TagRead(v, p) ==
  IF TryUnpack(v, p).k = "real" THEN Go("float", TryUnpack(v, p).n) ELSE TryUnpack(v, p)

LEMMA TagConverted ==
  ASSUME NEW v, Known(v), NEW p, IsTag(v, p),
         Shaped(TryUnpack(v, p), TerraformToGoLeaf(TryUnpack(v, p))) # Misfit
  PROVE  LET g == TryUnpack(v, p)
             a == Shaped(g, TerraformToGoLeaf(g))
             b == Shaped(a, PreparePlistLeaf(a))
             y == Shaped(b, PlistTextLeaf(b)) IN
         g # Misfit /\ y = TagRead(v, p) /\ ReadItem(y)
<1> DEFINE g == TryUnpack(v, p)
           a == Shaped(g, TerraformToGoLeaf(g))
           b == Shaped(a, PreparePlistLeaf(a))
           y == Shaped(b, PlistTextLeaf(b))
           text == v[Append(p, ValueKey)]
<1>1. \/ g = Opaque("date", text.s) \/ g = Opaque("data", text.s)
      \/ g = Real(Near(text.n)) \/ g = Misfit
  BY TagStandsFor
<1>2. text.n \in Int
  <2>1. Append(p, ValueKey) \in DOMAIN v
    BY DEF IsTag, HasTagKeys, Kids
  <2>2. KnownItem(text)
    BY <2>1 DEF Known
  <2> QED
    BY <2>2, KnownKinds
<1> HIDE DEF text
<1>3. g.k \in {"date", "data", "real", "misfit"}
  <2>1. /\ Opaque("date", text.s).k = "date" /\ Opaque("data", text.s).k = "data"
        /\ Real(Near(text.n)).k = "real" /\ Misfit.k = "misfit"
    BY DEF Opaque, Real, Misfit, Item
  <2> HIDE DEF g
  <2> QED
    BY <1>1, <2>1
<1>4. a = g
  <2> HIDE DEF g
  <2> QED
    BY <1>3 DEF Shaped, TerraformToGoLeaf
<1>5. g # Misfit
  BY <1>4
<1>6. b = g
  <2> HIDE DEF g
  <2>1. b = Shaped(g, PreparePlistLeaf(g))
    BY <1>4
  <2> HIDE DEF a, b
  <2> QED
    BY <1>3, <2>1 DEF Shaped, PreparePlistLeaf
<1>7. y = TagRead(v, p)
  <2>1. y = Shaped(g, PlistTextLeaf(g))
    <3> HIDE DEF g, a, b
    <3> QED
      BY <1>6
  <2>2. TagRead(v, p) = IF g.k = "real" THEN Go("float", g.n) ELSE g
    BY DEF TagRead
  <2> HIDE DEF g, y
  <2> QED
    BY <1>3, <2>1, <2>2 DEF Shaped, PlistTextLeaf
<1>8. ReadItem(y)
  <2>1. y = IF g.k = "real" THEN Go("float", g.n) ELSE g
    BY <1>7 DEF TagRead
  <2> HIDE DEF g, y
  <2>2. CASE g = Opaque("date", text.s) \/ g = Opaque("data", text.s)
    <3>1. Opaque("date", text.s).k = "date" /\ Opaque("data", text.s).k = "data"
      BY DEF Opaque, Item
    <3>2. y = g
      BY <2>1, <2>2, <3>1
    <3> QED
      BY <2>2, <3>2 DEF ReadItem
  <2>3. CASE g = Real(Near(text.n))
    <3>1. Real(Near(text.n)).k = "real" /\ Real(Near(text.n)).n = Near(text.n)
      BY DEF Real, Item
    <3>2. y = Go("float", Near(text.n)) /\ Near(text.n) \in Int
      BY <1>2, <2>1, <2>3, <3>1, NearFacts
    <3> QED
      BY <3>2 DEF ReadItem
  <2> QED
    BY <1>1, <1>5, <2>2, <2>3 DEF g
<1> QED
  BY <1>5, <1>7, <1>8

LEMMA PlistSight ==
  ASSUME NEW v, Known(v), IsTree(v), edge \in Int,
         \A p \in DOMAIN Each(Untagged(v), TerraformToGoLeaf) :
           Each(Untagged(v), TerraformToGoLeaf)[p] # Misfit
  PROVE  LET s == Each(Each(Each(Untagged(v), TerraformToGoLeaf), PreparePlistLeaf), PlistTextLeaf) IN
         /\ DOMAIN s = Listless(v) /\ IsTree(s) /\ \A p \in DOMAIN s : ReadItem(s[p])
         /\ \A p \in DOMAIN s : ~IsTag(v, p) =>
              /\ s[p].k = v[p].k
              /\ (v[p].k = "num" => Tame(v[p].n)) => Same(v[p], s[p]) /\ ~Taggable(s[p])
         /\ \A p \in DOMAIN s : IsTag(v, p) => TryUnpack(v, p) # Misfit /\ s[p] = TagRead(v, p)
<1> DEFINE u == Untagged(v)
           m1 == Each(u, TerraformToGoLeaf)
           m2 == Each(m1, PreparePlistLeaf)
           s == Each(m2, PlistTextLeaf)
<1>1. DOMAIN u = Listless(v) /\ \A p \in Listless(v) : u[p] = IF IsTag(v, p) THEN TryUnpack(v, p) ELSE v[p]
  BY DEF Untagged, Listless
<1>2. DOMAIN m1 = DOMAIN u /\ \A p \in DOMAIN u : m1[p] = Shaped(u[p], TerraformToGoLeaf(u[p]))
  BY EachOne
<1>3. DOMAIN m2 = DOMAIN m1 /\ \A p \in DOMAIN m1 : m2[p] = Shaped(m1[p], PreparePlistLeaf(m1[p]))
  BY EachOne
<1>4. DOMAIN s = DOMAIN m2 /\ \A p \in DOMAIN m2 : s[p] = Shaped(m2[p], PlistTextLeaf(m2[p]))
  BY EachOne
<1>5. \A p \in DOMAIN m1 : m1[p] # Misfit
  OBVIOUS
<1> HIDE DEF u, m1, m2, s
<1>6. DOMAIN s = Listless(v) /\ Listless(v) \subseteq DOMAIN v
  BY <1>1, <1>2, <1>3, <1>4 DEF Listless
<1>7. ASSUME NEW p \in Listless(v), ~IsTag(v, p)
      PROVE  /\ ReadItem(s[p]) /\ s[p].k = v[p].k
             /\ (v[p].k = "num" => Tame(v[p].n)) => Same(v[p], s[p]) /\ ~Taggable(s[p])
  <2> DEFINE x == v[p]
             a == Shaped(x, TerraformToGoLeaf(x))
             b == Shaped(a, PreparePlistLeaf(a))
             y == Shaped(b, PlistTextLeaf(b))
  <2>1. KnownItem(x)
    BY <1>6 DEF Known
  <2>2. ReadItem(y) /\ y.k = x.k /\ ((x.k = "num" => Tame(x.n)) => Same(x, y) /\ ~Taggable(y))
    <3> HIDE DEF x
    <3> QED
      BY <2>1, PlistItem
  <2>3. m1[p] = a
    BY <1>1, <1>2, <1>7
  <2>4. m2[p] = b
    <3>1. p \in DOMAIN m1
      BY <1>1, <1>2
    <3> HIDE DEF a
    <3> QED
      BY <1>3, <2>3, <3>1
  <2>5. s[p] = y
    <3>1. p \in DOMAIN m2
      BY <1>1, <1>2, <1>3
    <3> HIDE DEF b
    <3> QED
      BY <1>4, <2>4, <3>1
  <2> HIDE DEF y
  <2> QED
    BY <2>2, <2>5
<1>8. ASSUME NEW p \in Listless(v), IsTag(v, p)
      PROVE  TryUnpack(v, p) # Misfit /\ s[p] = TagRead(v, p) /\ ReadItem(s[p])
  <2> DEFINE x == TryUnpack(v, p)
             a == Shaped(x, TerraformToGoLeaf(x))
             b == Shaped(a, PreparePlistLeaf(a))
             y == Shaped(b, PlistTextLeaf(b))
  <2>3. m1[p] = a /\ a # Misfit
    BY <1>1, <1>2, <1>5, <1>8
  <2>1. x # Misfit /\ y = TagRead(v, p) /\ ReadItem(y)
    BY <1>8, <2>3, TagConverted
  <2>4. m2[p] = b
    <3>1. p \in DOMAIN m1
      BY <1>1, <1>2
    <3> HIDE DEF a
    <3> QED
      BY <1>3, <2>3, <3>1
  <2>5. s[p] = y
    <3>1. p \in DOMAIN m2
      BY <1>1, <1>2, <1>3
    <3> HIDE DEF b
    <3> QED
      BY <1>4, <2>4, <3>1
  <2> HIDE DEF y
  <2> QED
    BY <2>1, <2>5
<1>9. IsTree(s)
  <2>1. DOMAIN s \subseteq Seq(KeyNames) /\ <<>> \in DOMAIN s
    BY <1>6 DEF IsTree, Listless
  <2>2. ASSUME NEW p \in DOMAIN s \ {<<>>}
        PROVE  Parent(p) \in DOMAIN s /\ s[Parent(p)].k \in {"seq", "map"}
    <3>1. p \in DOMAIN v /\ ~IsTag(v, Parent(p))
      BY <1>6 DEF Listless
    <3>2. Parent(p) \in DOMAIN v /\ v[Parent(p)].k \in {"seq", "map"}
      BY <3>1 DEF IsTree
    <3>3. Parent(p) \in Listless(v)
      <4> SUFFICES ASSUME Parent(p) # <<>>, IsTag(v, Parent(Parent(p)))
                   PROVE  FALSE
        BY <3>2 DEF Listless
      <4>1. Parent(p) \in Kids(v, Parent(Parent(p)))
        BY <3>2 DEF Kids
      <4>2. v[Parent(p)].k = "string"
        BY <4>1 DEF IsTag, HasTagKeys
      <4> QED
        BY <3>2, <4>2
    <3>4. s[Parent(p)].k = v[Parent(p)].k
      BY <1>7, <3>1, <3>3
    <3> QED
      BY <1>6, <3>2, <3>3, <3>4
  <2> QED
    BY <2>1, <2>2 DEF IsTree
<1>10. \A p \in DOMAIN s : ReadItem(s[p])
  BY <1>6, <1>7, <1>8
<1> QED
  BY <1>6, <1>7, <1>8, <1>9, <1>10 DEF s, m2, m1, u

(* What is read of a tag that was written of one.                          *)
Retold(g, h) == h = g \/ (g.k \in {"date", "data"} /\ h = Respelt(g))

(* A tag inside another value came from a tag there.                       *)
LEMMA TagInside ==
  ASSUME NEW o, Terraform(o), NEW v, Known(v), IsTree(v), NEW n \in Nat, InsideBy(o, v, n),
         NEW p, IsTag(v, p)
  PROVE  \E q \in DOMAIN o : p = Under(n, q) /\ HasTagKeys(o, q) /\ Retold(TryUnpack(o, q), TryUnpack(v, p))
<1>1. /\ v[p] = Mapping("object") /\ Kids(v, p) = {Append(p, TypeKey), Append(p, ValueKey)}
      /\ \A q \in Kids(v, p) : v[q].k = "string"
      /\ \E type \in TagTypes : v[Append(p, TypeKey)] = Text("plain", type)
  BY DEF IsTag, HasTagKeys
<1>2. v[p].k = "map"
  <2>1. Mapping("object").k = "map"
    BY KindFields, Zenon
  <2> QED
    BY <1>1, <2>1
<1>3. p \in DOMAIN v
  <2>1. Append(p, TypeKey) \in DOMAIN v /\ Append(p, TypeKey) # <<>> /\ Parent(Append(p, TypeKey)) = p
    BY <1>1 DEF Kids
  <2> QED
    BY <2>1 DEF IsTree
<1>4. \A q \in DOMAIN o : q \in Seq(KeyNames) /\ IsTerraformItem(o[q]) /\ o[q].n \in Int
  BY DEF Terraform, IsTree, IsTerraformItem, IsItem
<1>5. ASSUME NEW r \in DOMAIN v, v[r].k \in {"string", "map"}
      PROVE  \E q \in DOMAIN o : r = Under(n, q) /\ As(o, q, v[r])
  <2>1. PICK q \in DOMAIN o : r = Under(n, q) /\ (As(o, q, v[r]) \/ ReadFrom(o, q, v[r]))
    BY <1>5 DEF InsideBy
  <2>2. ~ReadFrom(o, q, v[r])
    <3>1. KnownItem(v[r]) /\ q \in Seq(KeyNames)
      BY <1>4 DEF Known
    <3> QED
      BY <1>5, <3>1, NumberRead
  <2> QED
    BY <2>1, <2>2
<1>6. PICK q \in DOMAIN o : p = Under(n, q) /\ As(o, q, v[p])
  BY <1>2, <1>3, <1>5
<1>7. q \in Seq(KeyNames)
  BY <1>4
<1>8. ~ReadFrom(o, q, v[p])
  <2>1. KnownItem(v[p])
    BY <1>3 DEF Known
  <2> QED
    BY <1>2, <1>7, <2>1, NumberRead
<1>9. ASSUME NEW x \in {TypeKey, ValueKey}
      PROVE  /\ Append(p, x) = Under(n, Append(q, x)) /\ Append(q, x) \in DOMAIN o
             /\ Append(q, x) # <<>> /\ Parent(Append(q, x)) = q
             /\ As(o, Append(q, x), v[Append(p, x)]) /\ o[Append(q, x)].k = "string"
  <2>1. x \in KeyNames
    BY TagKeys
  <2>2. Under(n, Append(q, x)) = Append(p, x)
    <3>1. \A y \in KeyNames : Under(n, Append(q, y)) = Append(Under(n, q), y)
      BY <1>7, UnderFacts
    <3> QED
      BY <1>6, <2>1, <3>1
  <2>3. Append(q, x) \in Seq(KeyNames) /\ Append(q, x) # <<>> /\ Parent(Append(q, x)) = q
    BY <1>7, <2>1, PathFacts
  <2>4. Append(p, x) \in DOMAIN v /\ v[Append(p, x)].k = "string"
    BY <1>1 DEF Kids
  <2>5. PICK r \in DOMAIN o : Append(p, x) = Under(n, r) /\ As(o, r, v[Append(p, x)])
    BY <1>5, <2>4
  <2>6. r = Append(q, x)
    <3>1. \A t \in Seq(KeyNames) : Under(n, r) = Under(n, t) => r = t
      BY <1>4, UnderFacts
    <3> QED
      BY <2>2, <2>3, <2>5, <3>1
  <2>7. o[r].k = "string"
    BY <2>4, <2>5, AsIs
  <2> QED
    BY <2>2, <2>3, <2>5, <2>6, <2>7
<1>10. Kids(o, q) = {Append(q, TypeKey), Append(q, ValueKey)}
  <2>1. ASSUME NEW r \in Kids(o, q)
        PROVE  r \in {Append(q, TypeKey), Append(q, ValueKey)}
    <3>1. r \in DOMAIN o /\ r # <<>> /\ Parent(r) = q /\ r \in Seq(KeyNames)
      BY <1>4 DEF Kids
    <3>2. Under(n, r) \in DOMAIN v
      BY <1>6, <1>8, <3>1 DEF InsideBy
    <3>3. Under(n, r) # <<>> /\ Parent(Under(n, r)) = p
      BY <1>6, <3>1, UnderParent
    <3>4. Under(n, r) \in Kids(v, p)
      BY <3>2, <3>3 DEF Kids
    <3>5. PICK x \in {TypeKey, ValueKey} : Under(n, r) = Append(p, x)
      BY <1>1, <3>4
    <3>6. Under(n, r) = Under(n, Append(q, x)) /\ Append(q, x) \in Seq(KeyNames)
      BY <1>4, <1>9, <3>5
    <3>7. r = Append(q, x)
      <4>1. \A t \in Seq(KeyNames) : Under(n, r) = Under(n, t) => r = t
        BY <3>1, UnderFacts
      <4> QED
        BY <3>6, <4>1
    <3> QED
      BY <3>7
  <2>2. \A x \in {TypeKey, ValueKey} : Append(q, x) \in Kids(o, q)
    BY <1>9 DEF Kids
  <2> QED
    BY <2>1, <2>2
<1>11. PICK type \in TagTypes : v[Append(p, TypeKey)] = Text("plain", type)
  BY <1>1
<1>12. o[Append(q, TypeKey)] = Text("plain", type) /\ v[Append(p, TypeKey)].s = o[Append(q, TypeKey)].s
  <2> DEFINE x == o[Append(q, TypeKey)]
  <2>1. x.k = "string" /\ IsTerraformItem(x) /\ As(o, Append(q, TypeKey), Text("plain", type))
    BY <1>4, <1>9, <1>11
  <2>5. /\ Text("plain", type).k = "string" => x.as = Text("plain", type).as
        /\ x.as \notin {"date", "base64"} => Text("plain", type).s = x.s
    BY <2>1, AsIs
  <2> HIDE DEF x
  <2>2. x.as = "plain" /\ x.s = type
    <3>1. /\ Text("plain", type).as = "plain" /\ Text("plain", type).s = type
          /\ Text("plain", type).k = "string"
      BY DEF Text, Item
    <3> QED
      BY <2>5, <3>1
  <2>3. IsText(x)
    <3>1. /\ Null.k # "string" /\ NotKnown.k # "string" /\ \A s : Truth(s).k # "string"
          /\ \A i : Number(i).k # "string"
          /\ \A as : Sequence(as).k # "string" /\ Mapping(as).k # "string"
      BY KindFields
    <3> QED
      BY <2>1, <3>1, Zenon DEF IsTerraformItem
  <2>4. x = Text("plain", type)
    BY <2>2, <2>3 DEF IsText
  <2> QED
    BY <1>11, <2>4 DEF x
<1>13. HasTagKeys(o, q)
  <2>1. \A r \in Kids(o, q) : o[r].k = "string"
    BY <1>9, <1>10
  <2>2. \E other \in TagTypes : o[Append(q, TypeKey)] = Text("plain", other)
    BY <1>12
  <2> QED
    BY <1>10, <2>1, <2>2 DEF HasTagKeys
<1>14. Retold(TryUnpack(o, q), TryUnpack(v, p))
  <2> DEFINE x == o[Append(q, ValueKey)]
             y == v[Append(p, ValueKey)]
             name == v[Append(p, TypeKey)].s
  <2>1. As(o, Append(q, ValueKey), y) /\ x.k = "string" /\ x.n \in Int
    BY <1>4, <1>9
  <2>6. /\ x.k = y.k /\ y.n \in Drift(x.n) /\ (y.k = "string" => x.as = y.as)
        /\ y.s \in {x.s, Canonical(x.s)} /\ (x.as \notin {"date", "base64"} => y.s = x.s)
    BY <2>1, AsIs
  <2>2. TryUnpack(v, p) =
          CASE name = "date" /\ y.as = "date"   -> Opaque("date", y.s)
            [] name = "data" /\ y.as = "base64" -> Opaque("data", y.s)
            [] name = "real" /\ y.as = "digits" -> Real(Near(y.n))
            [] OTHER -> Misfit
    BY DEF TryUnpack
  <2>3. TryUnpack(o, q) =
          CASE name = "date" /\ x.as = "date"   -> Opaque("date", x.s)
            [] name = "data" /\ x.as = "base64" -> Opaque("data", x.s)
            [] name = "real" /\ x.as = "digits" -> Real(Near(x.n))
            [] OTHER -> Misfit
    BY <1>12 DEF TryUnpack
  <2> HIDE DEF x, y, name
  <2>4. x.as = y.as
    BY <2>1, <2>6
  <2>5. Near(x.n) = Near(y.n)
    <3>1. Near(Near(x.n)) = Near(x.n)
      BY <2>1, NearFacts
    <3> QED
      BY <2>1, <2>6, <3>1 DEF Drift
  <2>7. /\ \A k, s : Respelt(Opaque(k, s)) = Opaque(k, Canonical(s))
        /\ \A k, s : Opaque(k, s).k = k
    BY RespeltIs, TagFields
  <2>8. ASSUME NEW k \in {"date", "data"}
        PROVE  Retold(Opaque(k, x.s), Opaque(k, y.s))
    BY <2>6, <2>7 DEF Retold
  <2>9. Retold(Misfit, Misfit) /\ Retold(Real(Near(x.n)), Real(Near(y.n)))
    BY <2>5 DEF Retold
  <2> QED
    BY <2>2, <2>3, <2>4, <2>8, <2>9
<1> QED
  BY <1>6, <1>13, <1>14

(* What a property list makes of a value: an item stays, the text under a  *)
(* tag perhaps respelt, or stands where the value has a tag for it.        *)
Kin(v, p, y) ==
  \/ Same(v[p], y)
  \/ /\ p # <<>> /\ IsTag(v, Parent(p)) /\ v[p].as \in {"date", "base64"}
     /\ Same(Respelt(v[p]), y)

Rewritten(v, w) ==
  /\ \A p \in DOMAIN w : p \in DOMAIN v /\ (Kin(v, p, w[p]) \/ (IsTag(v, p) /\ ReadFrom(v, p, w[p])))
  /\ \A p \in DOMAIN v :
       \/ p \in DOMAIN w
       \/ /\ p # <<>> /\ Parent(p) \in DOMAIN w
          /\ IsTag(v, Parent(p)) /\ ReadFrom(v, Parent(p), w[Parent(p)])

(* Below the same lists.                                                   *)
LEMMA UnderKid ==
  ASSUME NEW n \in Nat, NEW q \in Seq(KeyNames), NEW t \in Seq(KeyNames),
         Under(n, q) # <<>>, Parent(Under(n, q)) = Under(n, t)
  PROVE  q # <<>> /\ t = Parent(q)
<1> DEFINE r == Under(n, q)
<1>1. r \in Seq(KeyNames)
  BY UnderFacts
<1>2. q # <<>>
  <2> SUFFICES ASSUME q = <<>>
               PROVE  FALSE
    OBVIOUS
  <2>1. Len(r) = n + Len(q) /\ Len(q) = 0
    BY UnderFacts
  <2>2. Len(Parent(r)) = n + Len(t) /\ Len(t) \in Nat
    BY UnderFacts
  <2>3. Len(Parent(r)) = Len(r) - 1
    <3> HIDE DEF r
    <3>1. Parent(r) \in Seq(KeyNames) /\ r[Len(r)] \in KeyNames /\ r = Append(Parent(r), r[Len(r)])
      BY <1>1, PathFacts DEF r
    <3>2. Len(Append(Parent(r), r[Len(r)])) = Len(Parent(r)) + 1 /\ Len(Parent(r)) \in Nat
      BY <3>1
    <3>3. Len(r) = Len(Parent(r)) + 1
      BY <3>1, <3>2, Zenon
    <3> QED
      BY <3>2, <3>3
  <2> QED
    BY <2>1, <2>2, <2>3
<1>3. Parent(r) = Under(n, Parent(q)) /\ Parent(q) \in Seq(KeyNames)
  BY <1>2, UnderParent, PathFacts
<1>4. \A y \in Seq(KeyNames) : Under(n, t) = Under(n, y) => t = y
  BY UnderFacts
<1> QED
  BY <1>2, <1>3, <1>4

LEMMA RewrittenInside ==
  ASSUME NEW o, Terraform(o), NEW v, Known(v), IsTree(v), NEW w, Rewritten(v, w),
         NEW n \in Nat, InsideBy(o, v, n)
  PROVE  InsideBy(o, w, n)
<1>1. \A p \in DOMAIN o : p \in Seq(KeyNames) /\ o[p].n \in Int
  BY DEF Terraform, IsTree, IsTerraformItem, IsItem
<1>2. ASSUME NEW q \in Seq(KeyNames), NEW p \in DOMAIN v, ReadFrom(o, q, v[p]), p \in DOMAIN w
      PROVE  ReadFrom(o, q, w[p])
  <2>1. KnownItem(v[p])
    BY <1>2 DEF Known
  <2>2. /\ HasTagKeys(o, q) /\ TryUnpack(o, q).k = "real" /\ v[p].k = "num"
        /\ v[p].n = TryUnpack(o, q).n /\ ~Whole(v[p].n) /\ Near(v[p].n) = v[p].n
    BY <1>2, <2>1, NumberRead
  <2>3. Same(v[p], w[p])
    <3>1. Mapping("object").k = "map"
      BY KindFields, Zenon
    <3>2. ~IsTag(v, p)
      BY <2>2, <3>1 DEF IsTag
    <3>3. ~(p # <<>> /\ IsTag(v, Parent(p)))
      <4> SUFFICES ASSUME p # <<>>, IsTag(v, Parent(p))
                   PROVE  FALSE
        OBVIOUS
      <4>1. p \in Kids(v, Parent(p))
        BY DEF Kids
      <4> QED
        BY <2>2, <4>1 DEF IsTag, HasTagKeys
    <3> QED
      BY <1>2, <3>2, <3>3 DEF Rewritten, Kin
  <2>4. w[p].k = "num" /\ w[p].n = v[p].n
    BY <2>2, <2>3 DEF Same, Drift
  <2> QED
    BY <2>2, <2>4 DEF ReadFrom
<1>3. ASSUME NEW p \in DOMAIN w, IsTag(v, p), ReadFrom(v, p, w[p])
      PROVE  \E q \in DOMAIN o : p = Under(n, q) /\ ReadFrom(o, q, w[p])
  <2>1. PICK q \in DOMAIN o :
          p = Under(n, q) /\ HasTagKeys(o, q) /\ Retold(TryUnpack(o, q), TryUnpack(v, p))
    BY <1>3, TagInside
  <2>2. ReadFrom(o, q, w[p])
    <3> DEFINE g == TryUnpack(o, q)
               h == TryUnpack(v, p)
               y == w[p]
    <3>1. \/ y = h \/ (h.k \in {"date", "data"} /\ y = Respelt(h))
          \/ h.k = "real" /\ y.k = "num" /\ y.n = h.n /\ (y.as = "float" \/ ~Whole(y.n))
      BY <1>3 DEF ReadFrom
    <3>2. h = g \/ (g.k \in {"date", "data"} /\ h = Respelt(g))
      BY <2>1 DEF Retold
    <3>3. Respelt(g).k = g.k /\ Respelt(Respelt(g)) = Respelt(g)
      BY RespeltIs
    <3> HIDE DEF g, h, y
    <3>4. \/ y = g \/ (g.k \in {"date", "data"} /\ y = Respelt(g))
          \/ g.k = "real" /\ y.k = "num" /\ y.n = g.n /\ (y.as = "float" \/ ~Whole(y.n))
      BY <3>1, <3>2, <3>3
    <3> QED
      BY <2>1, <3>4 DEF ReadFrom, g, y
  <2> QED
    BY <2>1, <2>2
<1>6. ASSUME NEW p \in DOMAIN v, NEW y, p # <<>>, IsTag(v, Parent(p)),
             v[p].as \in {"date", "base64"}, Same(Respelt(v[p]), y)
      PROVE  \E q \in DOMAIN o : p = Under(n, q) /\ As(o, q, y)
  <2>1. v[p].k = "string" /\ KnownItem(v[p])
    <3>1. p \in Kids(v, Parent(p))
      BY <1>6 DEF Kids
    <3> QED
      BY <1>6, <3>1 DEF IsTag, HasTagKeys, Known
  <2>2. PICK q \in DOMAIN o : p = Under(n, q) /\ (As(o, q, v[p]) \/ ReadFrom(o, q, v[p]))
    BY <2>1 DEF InsideBy
  <2>3. q \in Seq(KeyNames) /\ o[q].n \in Int
    BY <1>1
  <2>4. As(o, q, v[p])
    BY <2>1, <2>2, <2>3, NumberRead
  <2>5. PICK t \in DOMAIN o : Parent(p) = Under(n, t) /\ HasTagKeys(o, t)
    BY <1>6, TagInside
  <2>6. q # <<>> /\ t = Parent(q)
    BY <1>1, <1>6, <2>2, <2>3, <2>5, UnderKid
  <2>7. InTag(o, q)
    BY <2>5, <2>6 DEF InTag
  <2>8. o[q].k = "string" /\ o[q].as = v[p].as
    BY <2>1, <2>4, AsIs
  <2>9. Same(Respelt(o[q]), Respelt(v[p]))
    BY <2>4, RespeltIs DEF As, Same
  <2>10. Same(Respelt(o[q]), y)
    <3>1. Respelt(o[q]).n \in Int
      BY <2>3, RespeltIs
    <3> QED
      BY <1>6, <2>9, <3>1, SameAgain
  <2>11. As(o, q, y)
    BY <1>6, <2>7, <2>8, <2>10 DEF As
  <2> QED
    BY <2>2, <2>11
<1>4. ASSUME NEW p \in DOMAIN w
      PROVE  \/ Len(p) < n /\ p = Under(Len(p), <<>>) /\ w[p].k = "seq"
             \/ \E q \in DOMAIN o : p = Under(n, q) /\ (As(o, q, w[p]) \/ ReadFrom(o, q, w[p]))
  <2>1. p \in DOMAIN v /\ (Kin(v, p, w[p]) \/ (IsTag(v, p) /\ ReadFrom(v, p, w[p])))
    BY DEF Rewritten
  <2>2. CASE IsTag(v, p) /\ ReadFrom(v, p, w[p])
    BY <1>3, <2>2
  <2>3. CASE Same(v[p], w[p])
    <3>1. CASE Len(p) < n /\ p = Under(Len(p), <<>>) /\ v[p].k = "seq"
      BY <2>3, <3>1 DEF Same
    <3>2. ASSUME NEW q \in DOMAIN o, p = Under(n, q), As(o, q, v[p]) \/ ReadFrom(o, q, v[p])
          PROVE  p = Under(n, q) /\ (As(o, q, w[p]) \/ ReadFrom(o, q, w[p]))
      <4>1. As(o, q, v[p]) => As(o, q, w[p])
        BY <1>1, <2>3, AsAgain
      <4> QED
        BY <1>1, <1>2, <2>1, <3>2, <4>1
    <3> QED
      BY <2>1, <3>1, <3>2 DEF InsideBy
  <2>4. CASE Kin(v, p, w[p]) /\ ~Same(v[p], w[p])
    <3>1. /\ p # <<>> /\ IsTag(v, Parent(p)) /\ v[p].as \in {"date", "base64"}
          /\ Same(Respelt(v[p]), w[p])
      BY <2>4 DEF Kin
    <3> QED
      BY <1>6, <2>1, <3>1
  <2> QED
    BY <2>1, <2>2, <2>3, <2>4
<1>5. ASSUME NEW q \in DOMAIN o
      PROVE  \/ Under(n, q) \in DOMAIN w
             \/ /\ q # <<>> /\ Under(n, Parent(q)) \in DOMAIN w
                /\ ReadFrom(o, Parent(q), w[Under(n, Parent(q))])
  <2> DEFINE r == Under(n, q)
  <2>0. q \in Seq(KeyNames) /\ r \in Seq(KeyNames)
    BY <1>1, UnderFacts
  <2>1. CASE r \in DOMAIN v
    <3>1. CASE r \notin DOMAIN w
      <4>1. /\ r # <<>> /\ Parent(r) \in DOMAIN w
            /\ IsTag(v, Parent(r)) /\ ReadFrom(v, Parent(r), w[Parent(r)])
        BY <2>1, <3>1 DEF Rewritten
      <4>2. PICK t \in DOMAIN o : Parent(r) = Under(n, t) /\ ReadFrom(o, t, w[Parent(r)])
        BY <1>3, <4>1
      <4>3. q # <<>> /\ t = Parent(q)
        BY <1>1, <2>0, <4>1, <4>2, UnderKid
      <4>4. Parent(r) = Under(n, Parent(q))
        BY <4>2, <4>3
      <4> QED
        BY <4>1, <4>2, <4>3, <4>4
    <3> QED
      BY <3>1
  <2>2. CASE /\ q # <<>> /\ Under(n, Parent(q)) \in DOMAIN v
             /\ ReadFrom(o, Parent(q), v[Under(n, Parent(q))])
    <3> DEFINE t == Under(n, Parent(q))
    <3>1. Parent(q) \in Seq(KeyNames)
      BY <2>0, <2>2, PathFacts
    <3>2. v[t].k = "num"
      BY <2>2, <3>1, NumberRead DEF Known
    <3>3. t \in DOMAIN w
      <4> SUFFICES ASSUME t # <<>>, IsTag(v, Parent(t)), t \in DOMAIN v
                   PROVE  FALSE
        BY <2>2 DEF Rewritten
      <4>1. t \in Kids(v, Parent(t))
        BY DEF Kids
      <4> QED
        BY <3>2, <4>1 DEF IsTag, HasTagKeys
    <3>4. ReadFrom(o, Parent(q), w[t])
      BY <1>2, <2>2, <3>1, <3>3
    <3> QED
      BY <2>2, <3>3, <3>4
  <2> QED
    BY <2>1, <2>2 DEF InsideBy
<1> QED
  BY <1>4, <1>5 DEF InsideBy

(* A tag that is written and read again is the same tag.                   *)
LEMMA TagAgain ==
  ASSUME NEW v, Known(v), NEW p, IsTag(v, p), TryUnpack(v, p) # Misfit, Taggable(TagRead(v, p))
  PROVE  /\ v[Append(p, TypeKey)] = TypeText(TagRead(v, p))
         /\ LET text == v[Append(p, ValueKey)] IN
            \/ Same(text, TagText(TagRead(v, p)))
            \/ text.as \in {"date", "base64"} /\ Same(Respelt(text), TagText(TagRead(v, p)))
<1> DEFINE g == TryUnpack(v, p)
           y == TagRead(v, p)
           text == v[Append(p, ValueKey)]
           name == v[Append(p, TypeKey)]
<1>1. PICK type \in TagTypes : name = Text("plain", type)
  BY DEF IsTag, HasTagKeys
<1>2. name.s = type
  <2>1. Text("plain", type).s = type
    BY DEF Text, Item
  <2> QED
    BY <1>1, <2>1
<1>3. KnownItem(text) /\ text.k = "string"
  BY DEF Known, IsTag, HasTagKeys, Kids
<1>4. \/ g = Opaque("date", text.s) /\ name.s = "date" /\ text.as = "date"
      \/ g = Opaque("data", text.s) /\ name.s = "data" /\ text.as = "base64"
      \/ g = Real(Near(text.n)) /\ name.s = "real" /\ text.as = "digits"
  BY TagStandsFor
<1>5. y = IF g.k = "real" THEN Go("float", g.n) ELSE g
  BY DEF TagRead
<1> HIDE DEF g, y, text, name
<1>6. IsText(text) /\ text.n \in Int
  <2>1. /\ Null.k # "string" /\ \A s : Truth(s).k # "string"
    BY KindFields
  <2> QED
    BY <1>3, <2>1, KnownKinds
<1>7. ASSUME NEW k \in {"date", "data"}, g = Opaque(k, text.s), type = k,
             text.as = IF k = "date" THEN "date" ELSE "base64"
      PROVE  /\ name = TypeText(y)
             /\ text.as \in {"date", "base64"} /\ Same(Respelt(text), TagText(y))
  <2>1. Opaque(k, text.s).k = k /\ Opaque(k, text.s).s = text.s
    BY DEF Opaque, Item
  <2>2. y = g /\ y.k = k /\ y.s = text.s
    BY <1>5, <1>7, <2>1
  <2>3. TypeText(y) = Text("plain", k)
    BY <2>2 DEF TypeText
  <2>4. TagText(y) = Text(text.as, Canonical(text.s))
    BY <1>7, <2>2 DEF TagText
  <2>5. text = Text(text.as, text.s)
    BY <1>6, <1>7 DEF IsText
  <2>6. Respelt(text) = Text(text.as, Canonical(text.s))
    BY <2>5, RespeltIs
  <2>7. Same(Respelt(text), Respelt(text))
    BY DEF Same, Drift
  <2> QED
    BY <1>1, <1>7, <2>3, <2>4, <2>6, <2>7
<1>8. ASSUME g = Real(Near(text.n)), type = "real", text.as = "digits"
      PROVE  name = TypeText(y) /\ Same(text, TagText(y))
  <2>1. Real(Near(text.n)).k = "real" /\ Real(Near(text.n)).n = Near(text.n)
    BY DEF Real, Item
  <2>2. y = Go("float", Near(text.n))
    BY <1>5, <1>8, <2>1
  <2>3. Go("float", Near(text.n)).k = "num" /\ Go("float", Near(text.n)).n = Near(text.n)
    BY GoFields, Zenon
  <2>4. y.k = "num" /\ y.n = Near(text.n)
    BY <2>2, <2>3
  <2>5. TypeText(y) = Text("plain", "real")
    BY <2>4 DEF TypeText
  <2>6. TagText(y) = Digits(Near(text.n))
    BY <2>4 DEF TagText
  <2>7. text.s = ""
    <3>1. Digits(text.n).s = ""
      BY DEF Digits, Item
    <3> QED
      BY <1>6, <1>8, <3>1 DEF IsText
  <2>8. /\ Digits(Near(text.n)).k = "string" /\ Digits(Near(text.n)).as = "digits"
        /\ Digits(Near(text.n)).s = "" /\ Digits(Near(text.n)).n = Near(text.n)
    BY DEF Digits, Item
  <2>9. Same(text, Digits(Near(text.n)))
    BY <1>3, <1>8, <2>7, <2>8 DEF Same, Drift
  <2> QED
    BY <1>1, <1>8, <2>5, <2>6, <2>9
<1>9. /\ name = TypeText(y)
      /\ Same(text, TagText(y)) \/ (text.as \in {"date", "base64"} /\ Same(Respelt(text), TagText(y)))
  BY <1>2, <1>4, <1>7, <1>8
<1> QED
  BY <1>9 DEF name, text, y

LEMMA PlistRewritten ==
  ASSUME NEW v, Known(v), IsTree(v), \A p \in DOMAIN v : v[p].k = "num" => Tame(v[p].n),
         NEW s, DOMAIN s = Listless(v), IsTree(s), \A p \in DOMAIN s : ReadItem(s[p]),
         \A p \in DOMAIN s : ~IsTag(v, p) =>
           /\ s[p].k = v[p].k
           /\ (v[p].k = "num" => Tame(v[p].n)) => Same(v[p], s[p]) /\ ~Taggable(s[p]),
         \A p \in DOMAIN s : IsTag(v, p) => TryUnpack(v, p) # Misfit /\ s[p] = TagRead(v, p)
  PROVE  Rewritten(v, s) /\ Rewritten(v, Each(WithTags(s), GoToTerraformLeaf))
<1> DEFINE w == Each(WithTags(s), GoToTerraformLeaf)
<1>1. DOMAIN s \subseteq DOMAIN v
  BY DEF Listless
<1>2. ASSUME NEW p \in DOMAIN s, ~IsTag(v, p)
      PROVE  Same(v[p], s[p]) /\ ~Taggable(s[p])
  BY <1>1, <1>2
<1>3. ASSUME NEW p \in DOMAIN s, IsTag(v, p)
      PROVE  /\ ReadFrom(v, p, s[p])
             /\ ~Taggable(s[p]) => /\ TryUnpack(v, p).k = "real" /\ s[p] = Go("float", TryUnpack(v, p).n)
                                   /\ ~Whole(TryUnpack(v, p).n)
  <2> DEFINE g == TryUnpack(v, p)
  <2>1. s[p] = (IF g.k = "real" THEN Go("float", g.n) ELSE g) /\ g # Misfit /\ HasTagKeys(v, p)
    BY <1>3 DEF TagRead, IsTag
  <2>2. \/ g = Opaque("date", v[Append(p, ValueKey)].s) \/ g = Opaque("data", v[Append(p, ValueKey)].s)
        \/ g.k = "real"
    <3>1. \A n : Real(n).k = "real"
      BY DEF Real, Item
    <3> QED
      BY <2>1, <3>1, TagStandsFor
  <2>3. Go("float", g.n).k = "num" /\ Go("float", g.n).as = "float" /\ Go("float", g.n).n = g.n
    <3>1. \A n : Go("float", n).k = "num" /\ Go("float", n).as = "float" /\ Go("float", n).n = n
      BY GoFields
    <3> HIDE DEF g
    <3> QED
      BY <3>1
  <2>4. ReadFrom(v, p, s[p])
    BY <2>1, <2>3 DEF ReadFrom
  <2>5. ASSUME ~Taggable(s[p])
        PROVE  g.k = "real" /\ s[p] = Go("float", g.n) /\ ~Whole(g.n)
    <3>1. \A t : Opaque("date", t).k = "date" /\ Opaque("data", t).k = "data"
      BY DEF Opaque, Item
    <3> HIDE DEF g
    <3>2. g.k = "real"
      <4> SUFFICES ASSUME g.k # "real"
                   PROVE  FALSE
        OBVIOUS
      <4>1. s[p] = g /\ g.k \in {"date", "data"}
        BY <2>1, <2>2, <3>1
      <4> QED
        BY <2>5, <4>1 DEF Taggable
    <3>3. s[p] = Go("float", g.n)
      BY <2>1, <3>2
    <3>4. ~Whole(g.n)
      BY <2>3, <2>5, <3>3 DEF Taggable
    <3> QED
      BY <3>2, <3>3, <3>4
  <2> QED
    BY <2>4, <2>5
<1>4. ASSUME NEW p \in DOMAIN v, p \notin DOMAIN s
      PROVE  p # <<>> /\ Parent(p) \in DOMAIN s /\ IsTag(v, Parent(p))
  <2>1. p # <<>> /\ IsTag(v, Parent(p))
    BY <1>4 DEF Listless
  <2>2. Parent(p) \in DOMAIN v
    BY <2>1 DEF IsTree
  <2>3. v[Parent(p)].k = "map"
    <3>1. Mapping("object").k = "map"
      BY KindFields, Zenon
    <3> QED
      BY <2>1, <3>1 DEF IsTag
  <2>4. Parent(p) \in Listless(v)
    <3> SUFFICES ASSUME Parent(p) # <<>>, IsTag(v, Parent(Parent(p)))
                 PROVE  FALSE
      BY <2>2 DEF Listless
    <3>1. Parent(p) \in Kids(v, Parent(Parent(p)))
      BY <2>2 DEF Kids
    <3>2. v[Parent(p)].k = "string"
      BY <3>1 DEF IsTag, HasTagKeys
    <3> QED
      BY <2>3, <3>2
  <2> QED
    BY <2>1, <2>4
<1>5. Rewritten(v, s)
  BY <1>1, <1>2, <1>3, <1>4 DEF Rewritten, Kin
<1>6. /\ DOMAIN w = DOMAIN s \cup TagPaths(s)
      /\ \A p \in Tagged(s) : w[p] = Mapping("object")
      /\ \A p \in DOMAIN s \ Tagged(s) : w[p] = Shaped(s[p], GoToTerraformLeaf(s[p]))
      /\ \A q \in Tagged(s) : /\ w[Append(q, TypeKey)] = TypeText(s[q])
                              /\ w[Append(q, ValueKey)] = TagText(s[q])
  BY TagsRead
<1> HIDE DEF w
<1>7. \A p \in Tagged(s) : /\ p \in DOMAIN s /\ Taggable(s[p]) /\ IsTag(v, p)
                           /\ TryUnpack(v, p) # Misfit /\ s[p] = TagRead(v, p)
  BY <1>2 DEF Tagged
<1>8. \A x : Same(x, x)
  BY DEF Same, Drift
<1>9. ASSUME NEW p \in Tagged(s)
      PROVE  /\ v[p] = w[p]
             /\ \A x \in {TypeKey, ValueKey} : /\ Append(p, x) \in DOMAIN v
                                               /\ Kin(v, Append(p, x), w[Append(p, x)])
  <2>1. v[p] = w[p]
    BY <1>6, <1>7 DEF IsTag
  <2>2. \A x \in {TypeKey, ValueKey} : Append(p, x) \in DOMAIN v
    <3>1. Kids(v, p) = {Append(p, TypeKey), Append(p, ValueKey)}
      BY <1>7 DEF IsTag, HasTagKeys
    <3> QED
      BY <3>1 DEF Kids
  <2>3. /\ v[Append(p, TypeKey)] = TypeText(s[p])
        /\ LET text == v[Append(p, ValueKey)] IN
           \/ Same(text, TagText(s[p]))
           \/ text.as \in {"date", "base64"} /\ Same(Respelt(text), TagText(s[p]))
    BY <1>7, TagAgain
  <2>5. Append(p, ValueKey) # <<>> /\ IsTag(v, Parent(Append(p, ValueKey)))
    BY <1>7, TagPathsAreNew
  <2>4. ASSUME NEW x \in {TypeKey, ValueKey}
        PROVE  Kin(v, Append(p, x), w[Append(p, x)])
    <3>1. CASE x = TypeKey
      BY <1>6, <1>8, <2>3, <3>1 DEF Kin
    <3>2. CASE x = ValueKey
      BY <1>6, <2>3, <2>5, <3>2 DEF Kin
    <3> QED
      BY <3>1, <3>2
  <2> QED
    BY <2>1, <2>2, <2>4
<1>10. ASSUME NEW p \in DOMAIN s \ Tagged(s), ~IsTag(v, p)
       PROVE  Same(v[p], w[p])
  <2>1. ReadItem(s[p]) /\ ~Taggable(s[p]) /\ Same(v[p], s[p])
    BY <1>2, <1>10
  <2>2. Same(s[p], w[p])
    BY <1>6, <2>1, ReadKept
  <2>3. v[p].n \in Int
    BY <1>1, KnownKinds DEF Known
  <2> QED
    BY <2>1, <2>2, <2>3, SameAgain
<1>11. ASSUME NEW p \in DOMAIN s \ Tagged(s), IsTag(v, p)
       PROVE  ReadFrom(v, p, w[p])
  <2> DEFINE n == TryUnpack(v, p).n
  <2>1. /\ ~Taggable(s[p]) /\ TryUnpack(v, p).k = "real" /\ s[p] = Go("float", n)
        /\ ~Whole(n)
    <3>1. ~Taggable(s[p])
      BY DEF Tagged
    <3> QED
      BY <1>3, <1>11, <3>1
  <2>2. w[p] = Number(n)
    <3>1. w[p] = Shaped(Go("float", n), GoToTerraformLeaf(Go("float", n)))
      BY <1>6, <2>1
    <3>2. w[p] = GoToTerraformLeaf(Go("float", n))
      BY <3>1, GoShape
    <3>3. GoToTerraformLeaf(Go("float", n)) = Number(n)
      <4>1. \A as, i : as # "json" => GoToTerraformLeaf(Go(as, i)) = Number(i)
        BY GoNumbers
      <4> QED
        BY <4>1
    <3> QED
      BY <3>2, <3>3
  <2>3. Number(n).k = "num" /\ Number(n).n = n
    BY KindFields, Zenon
  <2>4. HasTagKeys(v, p)
    BY <1>11 DEF IsTag
  <2> QED
    BY <2>1, <2>2, <2>3, <2>4 DEF ReadFrom
<1>12. Rewritten(v, w)
  <2>1. ASSUME NEW p \in DOMAIN w
        PROVE  p \in DOMAIN v /\ (Kin(v, p, w[p]) \/ (IsTag(v, p) /\ ReadFrom(v, p, w[p])))
    <3>1. CASE p \in Tagged(s)
      BY <1>1, <1>7, <1>8, <1>9, <3>1 DEF Kin
    <3>2. CASE p \in DOMAIN s \ Tagged(s)
      BY <1>1, <1>10, <1>11, <3>2 DEF Kin
    <3>3. CASE p \in TagPaths(s)
      <4>1. PICK q \in Tagged(s), x \in {TypeKey, ValueKey} : p = Append(q, x)
        BY <3>3 DEF TagPaths
      <4> QED
        BY <1>9, <4>1
    <3> QED
      BY <1>6, <3>1, <3>2, <3>3
  <2>2. ASSUME NEW p \in DOMAIN v, p \notin DOMAIN w
        PROVE  /\ p # <<>> /\ Parent(p) \in DOMAIN w
               /\ IsTag(v, Parent(p)) /\ ReadFrom(v, Parent(p), w[Parent(p)])
    <3>1. p \notin DOMAIN s
      BY <1>6, <2>2
    <3>2. p # <<>> /\ Parent(p) \in DOMAIN s /\ IsTag(v, Parent(p))
      BY <1>4, <3>1
    <3>3. Parent(p) \notin Tagged(s)
      <4> SUFFICES ASSUME Parent(p) \in Tagged(s)
                   PROVE  FALSE
        OBVIOUS
      <4>1. p \in Kids(v, Parent(p))
        BY <3>2 DEF Kids
      <4>2. p \in {Append(Parent(p), TypeKey), Append(Parent(p), ValueKey)}
        BY <3>2, <4>1 DEF IsTag, HasTagKeys
      <4>3. p \in TagPaths(s)
        BY <4>2 DEF TagPaths
      <4> QED
        BY <1>6, <2>2, <4>3
    <3> QED
      BY <1>6, <1>11, <3>2, <3>3
  <2> QED
    BY <2>1, <2>2 DEF Rewritten
<1> QED
  BY <1>5, <1>12 DEF w

(* The numbers of a value inside another: its own, perhaps rounded, or the *)
(* fractions of reals.                                                     *)
LEMMA NumbersInside ==
  ASSUME NEW o, Terraform(o), NEW v, Known(v), NEW n \in Nat, InsideBy(o, v, n),
         NEW p \in DOMAIN v, v[p].k = "num"
  PROVE  /\ v[p].n \in Int
         /\ \/ \E q \in DOMAIN o : o[q].k = "num" /\ o[q].n \in Int /\ v[p].n \in Drift(o[q].n)
            \/ ~Whole(v[p].n) /\ Near(v[p].n) = v[p].n
<1>1. KnownItem(v[p]) /\ v[p].n \in Int
  BY KnownKinds DEF Known
<1>2. PICK q \in DOMAIN o : As(o, q, v[p]) \/ ReadFrom(o, q, v[p])
  BY DEF InsideBy
<1>3. q \in Seq(KeyNames) /\ o[q].n \in Int
  BY DEF Terraform, IsTree, IsTerraformItem, IsItem
<1>4. CASE As(o, q, v[p])
  BY <1>1, <1>3, <1>4, AsIs
<1>5. CASE ReadFrom(o, q, v[p])
  BY <1>1, <1>3, <1>5, NumberRead
<1> QED
  BY <1>2, <1>4, <1>5

LEMMA TameInside ==
  ASSUME NEW o, Terraform(o), ~RoundsPast(o), NEW v, Known(v), NEW n \in Nat, InsideBy(o, v, n),
         NEW p \in DOMAIN v, v[p].k = "num"
  PROVE  Tame(v[p].n)
<1>1. CASE ~Whole(v[p].n) /\ Near(v[p].n) = v[p].n
  BY <1>1 DEF Tame
<1>2. ASSUME NEW q \in DOMAIN o, o[q].k = "num", o[q].n \in Int, v[p].n \in Drift(o[q].n)
      PROVE  Tame(v[p].n)
  <2> DEFINE m == o[q].n
  <2>1. Whole(m) \/ ~Past(m)
    BY <1>2 DEF RoundsPast
  <2> HIDE DEF m
  <2>2. m \in Int /\ v[p].n \in {m, Near(m)}
    BY <1>2 DEF m, Drift
  <2>3. Near(Near(m)) = Near(m) /\ (Whole(m) => Whole(Near(m)))
    BY <2>2, NearFacts
  <2>4. Past(Near(m)) <=> Past(m)
    BY <2>3 DEF Past
  <2> QED
    BY <2>1, <2>2, <2>3, <2>4 DEF Tame
<1> QED
  BY <1>1, <1>2, NumbersInside

(* The evaluators hold what is left.                                       *)
LEMMA ClampedInside ==
  ASSUME NEW o, Terraform(o), ~RoundsPast(o), ~WholePast(o),
         NEW v, Known(v), NEW n \in Nat, InsideBy(o, v, n),
         NEW p \in DOMAIN v, v[p].k = "num", Whole(v[p].n)
  PROVE  Clamped(v[p].n) = v[p].n
<1>1. PICK q \in DOMAIN o : o[q].k = "num" /\ o[q].n \in Int /\ v[p].n \in Drift(o[q].n)
  BY NumbersInside
<1> DEFINE m == o[q].n
           top == 2 ^ (Int64Bits - 1)
<1>2. /\ Whole(m) => Fits64(m) /\ ~Past(m)
      /\ ~Whole(m) => ~Past(m)
  BY <1>1 DEF RoundsPast, WholePast
<1>3. m \in Int /\ v[p].n \in {m, Near(m)}
  BY <1>1 DEF Drift
<1>4. top \in Nat /\ Top63 = 2 * top
  BY TopIs, ValuesAssumption DEF Top63
<1> HIDE DEF m, top
<1>5. Near(m) \in Int
  BY <1>3, NearFacts
<1>6. CASE v[p].n = Near(m)
  BY <1>2, <1>4, <1>5, <1>6 DEF Past, Clamped
<1>7. CASE v[p].n = m
  <2>1. m % 2 = 0 /\ m \div 2 \in -top .. top - 1
    BY <1>2, <1>7 DEF Fits64, Whole, top
  <2>2. m < Top63 /\ m >= -Top63
    BY <1>3, <1>4, <2>1
  <2> QED
    BY <1>3, <1>4, <1>7, <2>2 DEF Clamped
<1> QED
  BY <1>3, <1>6, <1>7

-----------------------------------------------------------------------------
(* What is not known                                                       *)

(* All that an item lies in is there and is walked.                        *)
LEMMA PrefixesThere ==
  ASSUME NEW v, IsTree(v), NEW p \in DOMAIN v, NEW i \in 0 .. Len(p) - 1
  PROVE  SubSeq(p, 1, i) \in DOMAIN v /\ v[SubSeq(p, 1, i)].k \in {"seq", "map"}
<1> DEFINE good(j) == SubSeq(p, 1, j) \in DOMAIN v /\ v[SubSeq(p, 1, j)].k \in {"seq", "map"}
           S == { d \in 1 .. Len(p) : ~good(Len(p) - d) }
<1>0. p \in Seq(KeyNames) /\ Len(p) \in Nat
  BY DEF IsTree
<1>1. S = {}
  <2> SUFFICES ASSUME S # {}
               PROVE  FALSE
    OBVIOUS
  <2>1. S \subseteq Nat /\ S # {}
    BY <1>0
  <2>2. PICK d \in S : \A e \in S : d <= e
    <3> HIDE DEF S
    <3> QED
      BY <2>1, FirstPosition
  <2>3. d \in 1 .. Len(p) /\ ~good(Len(p) - d)
    BY DEF S
  <2> DEFINE j == Len(p) - d
             q == SubSeq(p, 1, j + 1)
  <2>4. j \in 0 .. Len(p) - 1
    BY <1>0, <2>3
  <2>5. q \in DOMAIN v
    <3>1. CASE d = 1
      <4>1. j + 1 = Len(p)
        BY <1>0, <3>1
      <4>2. SubSeq(p, 1, Len(p)) = p
        BY <1>0
      <4> QED
        BY <4>1, <4>2
    <3>2. CASE d # 1
      <4>1. d - 1 \in 1 .. Len(p) /\ Len(p) - (d - 1) = j + 1
        BY <1>0, <2>3, <3>2
      <4>2. good(Len(p) - (d - 1))
        BY <2>2, <4>1, <2>3
      <4> QED
        BY <4>1, <4>2
    <3> QED
      BY <3>1, <3>2
  <2>6. q \in Seq(KeyNames) /\ Len(q) = j + 1 /\ Parent(q) = SubSeq(p, 1, j) /\ q # <<>>
    <3> HIDE DEF j
    <3>1. q \in Seq(KeyNames) /\ Len(q) = j + 1
      BY <1>0, <2>4
    <3>2. Parent(q) = SubSeq(q, 1, j)
      BY <2>4, <3>1 DEF Parent
    <3> HIDE DEF q
    <3>3. SubSeq(q, 1, j) = SubSeq(p, 1, j)
      BY <1>0, <2>4, <3>1 DEF q
    <3> QED
      BY <3>1, <3>2, <3>3, <2>4
  <2>7. good(j)
    BY <2>5, <2>6 DEF IsTree
  <2> QED
    BY <2>3, <2>7
<1>2. Len(p) - i \in 1 .. Len(p) /\ Len(p) - (Len(p) - i) = i
  BY <1>0
<1>3. good(i)
  BY <1>1, <1>2
<1> QED
  BY <1>3

(* The walk finds what is not known.                                       *)
LEMMA OpenIsFound ==
  ASSUME NEW v, Terraform(v)
  PROVE  HasUnknown(v) <=> Open(v)
<1>1. ASSUME NEW p \in DOMAIN v, NEW i \in 0 .. Len(p) - 1
      PROVE  Walked(v[SubSeq(p, 1, i)])
  <2> DEFINE x == v[SubSeq(p, 1, i)]
  <2>1. x.k \in {"seq", "map"} /\ IsTerraformItem(x)
    BY PrefixesThere DEF Terraform
  <2> HIDE DEF x
  <2>2. /\ \A as : Sequence(as).k = "seq" /\ Mapping(as).k = "map"
        /\ Null.k = "null" /\ NotKnown.k = "unknown" /\ \A s : Truth(s).k = "bool"
        /\ \A n : Number(n).k = "num"
    BY KindFields
  <2>3. Walked(x)
    BY <2>1, <2>2 DEF IsTerraformItem
  <2> QED
    BY <2>3 DEF x
<1> QED
  BY <1>1 DEF HasUnknown, Open

LEMMA KnownOrOpen ==
  ASSUME NEW v, Terraform(v), ~HasUnknown(v)
  PROVE  Known(v) /\ IsTree(v)
BY OpenIsFound DEF Open, Known, KnownItem, Terraform

-----------------------------------------------------------------------------
(* The calls                                                               *)

(* The result r of a call on v, whose library saw s.                       *)
Carried(v, s, r) ==
  /\ Known(r) /\ IsTree(r)
  /\ \A o : \A n \in Nat :
       Terraform(o) /\ ~RoundsPast(o) /\ InsideBy(o, v, n) =>
         InsideBy(o, s, n) /\ (InsideBy(o, r, n) \/ InsideBy(o, r, n + 1))

LEMMA NothingStays ==
  /\ DOMAIN Rejected = {} /\ \A v : IsTree(v) => v # Rejected
  /\ \A v : DOMAIN v = {} /\ v = [p \in {} |-> v[p]] => v = Rejected
  /\ Each(Rejected, NormalizeForJMESPathLeaf) = Rejected
  /\ Each(Rejected, NormalizeForGojqLeaf) = Rejected
  /\ Each(Rejected, NormalizeFromGojqLeaf) = Rejected
  /\ Each(Rejected, PrepareJSONLeaf) = Rejected
  /\ Each(Rejected, JSONTextLeaf) = Rejected
  /\ Each(Rejected, PrepareBinaryLeaf) = Rejected
  /\ Each(Rejected, PreparePlistLeaf) = Rejected
  /\ Each(Rejected, PlistTextLeaf) = Rejected
<1>1. DOMAIN Rejected = {} /\ \A v : IsTree(v) => v # Rejected
  BY DEF Rejected, IsTree
<1>2. \A v : DOMAIN v = {} /\ v = [p \in {} |-> v[p]] => v = Rejected
  BY DEF Rejected
<1>3. Each(Rejected, NormalizeForJMESPathLeaf) = Rejected
  BY DEF Each, Rejected
<1>4. Each(Rejected, NormalizeForGojqLeaf) = Rejected
  BY DEF Each, Rejected
<1>5. Each(Rejected, NormalizeFromGojqLeaf) = Rejected
  BY DEF Each, Rejected
<1>6. Each(Rejected, PrepareJSONLeaf) = Rejected
  BY DEF Each, Rejected
<1>7. Each(Rejected, JSONTextLeaf) = Rejected
  BY DEF Each, Rejected
<1>8. Each(Rejected, PrepareBinaryLeaf) = Rejected
  BY DEF Each, Rejected
<1>9. Each(Rejected, PreparePlistLeaf) = Rejected
  BY DEF Each, Rejected
<1>10. Each(Rejected, PlistTextLeaf) = Rejected
  BY DEF Each, Rejected
<1> QED
  BY <1>1, <1>2, <1>3, <1>4, <1>5, <1>6, <1>7, <1>8, <1>9, <1>10

(* A call that keeps every item carries a value.                           *)
LEMMA KeptIsCarried ==
  ASSUME NEW v, Known(v), IsTree(v), NEW s, NEW r, Known(r), IsTree(r),
         (\A p \in DOMAIN v : v[p].k = "num" => Tame(v[p].n)) => Kept(v, s) /\ Kept(v, r)
  PROVE  Carried(v, s, r)
<1> SUFFICES ASSUME NEW o, NEW n \in Nat, Terraform(o), ~RoundsPast(o), InsideBy(o, v, n)
             PROVE  InsideBy(o, s, n) /\ InsideBy(o, r, n)
  BY DEF Carried
<1>1. \A p \in DOMAIN v : v[p].k = "num" => Tame(v[p].n)
  BY TameInside
<1>2. Kept(v, s) /\ Kept(v, r)
  BY <1>1
<1>3. InsideBy(o, s, n)
  BY <1>2, InsideStays
<1>4. InsideBy(o, r, n)
  BY <1>2, InsideStays
<1> QED
  BY <1>3, <1>4

LEMMA ListIsCarried ==
  ASSUME NEW v, Known(v), IsTree(v), NEW s, NEW u, NEW r, Known(u), IsTree(u),
         Kept(v, s), Kept(v, u), ListsOne(r, u)
  PROVE  Carried(v, s, r)
<1>1. /\ IsTree(r) /\ Known(r)
      /\ \A o : \A n \in Nat : Terraform(o) /\ InsideBy(o, u, n) => InsideBy(o, r, n + 1)
  BY ListedInside
<1>2. \A o : \A n \in Nat : Terraform(o) /\ InsideBy(o, v, n) => InsideBy(o, s, n) /\ InsideBy(o, u, n)
  BY InsideStays
<1> QED
  BY <1>1, <1>2 DEF Carried

LEMMA JSONGiven ==
  ASSUME NEW v, TerraformToJSON(v) # Rejected
  PROVE  TerraformToJSON(v) = Each(v, ToJSONLeaf)
BY DEF TerraformToJSON

LEMMA JSONReturned ==
  ASSUME NEW g, JSONToTerraform(g) # Rejected
  PROVE  JSONToTerraform(g) = Each(g, FromJSONLeaf) /\ ~Deeper(JSONToTerraform(g), MaxDepth["transform"])
<1>1. JSONToTerraform(g) = Each(g, FromJSONLeaf) /\ ~Deeper(g, MaxDepth["transform"])
  BY DEF JSONToTerraform
<1>2. DOMAIN Each(g, FromJSONLeaf) = DOMAIN g
  BY EachOne
<1> QED
  BY <1>1, <1>2 DEF Deeper

LEMMA JSONataCarries ==
  ASSUME NEW v, Known(v), IsTree(v), NEW s, s = TerraformToJSON(v), s # Rejected,
         NEW r, r = JSONToTerraform(s), r # Rejected
  PROVE  Carried(v, s, r) /\ ~Deeper(r, MaxDepth["transform"])
<1>1. s = Each(v, ToJSONLeaf)
  BY JSONGiven
<1>2. r = Each(s, FromJSONLeaf) /\ ~Deeper(r, MaxDepth["transform"])
  BY JSONReturned
<1>3. Known(r) /\ IsTree(r) /\ Kept(v, s) /\ Kept(v, r)
  BY <1>1, <1>2, JSONKept
<1> QED
  BY <1>2, <1>3, KeptIsCarried

LEMMA JMESCarries ==
  ASSUME NEW v, Known(v), IsTree(v),
         NEW s, s = Each(TerraformToJSON(v), NormalizeForJMESPathLeaf), s # Rejected,
         NEW r, r = JSONToTerraform(s), r # Rejected
  PROVE  Carried(v, s, r) /\ ~Deeper(r, MaxDepth["transform"])
<1>1. TerraformToJSON(v) # Rejected
  BY NothingStays
<1>2. s = Each(Each(v, ToJSONLeaf), NormalizeForJMESPathLeaf)
  BY <1>1, JSONGiven
<1>3. r = Each(s, FromJSONLeaf) /\ ~Deeper(r, MaxDepth["transform"])
  BY JSONReturned
<1>4. Known(r) /\ IsTree(r) /\ Kept(v, s) /\ Kept(v, r)
  BY <1>2, <1>3, JMESKept
<1> QED
  BY <1>3, <1>4, KeptIsCarried

LEMMA JSONPathCarries ==
  ASSUME NEW v, Known(v), IsTree(v), NEW s, s = TerraformToJSON(v), s # Rejected,
         NEW r, r = JSONToTerraform(InList(s)), r # Rejected
  PROVE  Carried(v, s, r) /\ ~Deeper(r, MaxDepth["transform"])
<1>1. s = Each(v, ToJSONLeaf)
  BY JSONGiven
<1>2. r = Each(InList(s), FromJSONLeaf) /\ ~Deeper(r, MaxDepth["transform"])
  BY JSONReturned
<1> DEFINE u == Each(s, FromJSONLeaf)
<1>3. Known(u) /\ IsTree(u) /\ Kept(v, s) /\ Kept(v, u) /\ DOMAIN s = DOMAIN v
  BY <1>1, JSONKept
<1>4. ListsOne(r, u)
  <2>1. DOMAIN s \subseteq Seq(KeyNames)
    BY <1>3 DEF IsTree
  <2> QED
    BY <1>2, <2>1, ListConverted
<1> HIDE DEF u
<1> QED
  BY <1>2, <1>3, <1>4, ListIsCarried

LEMMA JqCarries ==
  ASSUME NEW v, Known(v), IsTree(v),
         NEW s, s = Each(TerraformToJSON(v), NormalizeForGojqLeaf), s # Rejected,
         NEW r, r = JSONToTerraform(InList(NormalizeFromGojq(s))), r # Rejected
  PROVE  Carried(v, s, r) /\ ~Deeper(r, MaxDepth["transform"])
<1>1. TerraformToJSON(v) # Rejected
  BY NothingStays
<1>2. s = Each(Each(v, ToJSONLeaf), NormalizeForGojqLeaf)
  BY <1>1, JSONGiven
<1> DEFINE g == NormalizeFromGojq(s)
           m == Each(s, NormalizeFromGojqLeaf)
           u == Each(m, FromJSONLeaf)
<1>3. r = Each(InList(g), FromJSONLeaf) /\ ~Deeper(r, MaxDepth["transform"])
  BY JSONReturned
<1>4. g # Rejected
  <2> SUFFICES ASSUME g = Rejected
               PROVE  FALSE
    OBVIOUS
  <2>1. r = JSONToTerraform(Rejected)
    BY DEF InList
  <2>2. JSONToTerraform(Rejected) = Rejected
    BY DEF JSONToTerraform, Each, Rejected
  <2> QED
    BY <2>1, <2>2
<1>5. g = m
  BY <1>4 DEF NormalizeFromGojq
<1>6. Known(u) /\ IsTree(u) /\ Kept(v, s) /\ Kept(v, u) /\ DOMAIN s = DOMAIN v
  BY <1>2, GojqKept
<1>7. ListsOne(r, u)
  <2>1. DOMAIN m = DOMAIN v
    BY <1>6, EachOne
  <2>2. DOMAIN m \subseteq Seq(KeyNames)
    BY <2>1 DEF IsTree
  <2>3. r = Each(InList(m), FromJSONLeaf) /\ m # Rejected
    BY <1>3, <1>4, <1>5
  <2> HIDE DEF m
  <2> QED
    BY <2>2, <2>3, ListConverted
<1> HIDE DEF u
<1> QED
  BY <1>3, <1>6, <1>7, ListIsCarried

LEMMA GoGiven ==
  ASSUME NEW v, TerraformValueToGo(v, FALSE) # Rejected
  PROVE  /\ TerraformValueToGo(v, FALSE) = Each(v, TerraformToGoLeaf)
         /\ ~Deeper(v, MaxDepth["dataformat"])
<1>1. /\ TerraformValueToGo(v, FALSE) = Each(v, TerraformToGoLeaf)
      /\ ~Deeper(Each(v, TerraformToGoLeaf), MaxDepth["dataformat"])
  BY DEF TerraformValueToGo
<1>2. DOMAIN Each(v, TerraformToGoLeaf) = DOMAIN v
  BY EachOne
<1> QED
  BY <1>1, <1>2 DEF Deeper

(* No known item is turned into an error.                                  *)
LEMMA KnownFits ==
  ASSUME NEW x, KnownItem(x)
  PROVE  Shaped(x, TerraformToGoLeaf(x)) # Misfit
<1> DEFINE y == Shaped(x, TerraformToGoLeaf(x))
<1>1. y.k = x.k
  <2>1. CASE x.k # "num"
    <3>1. y = Shaped(x, x) /\ Shaped(x, x).k = x.k
      BY <2>1, CalmItems
    <3> QED
      BY <3>1
  <2>2. CASE x.k = "num"
    <3>1. PICK n \in Int : x = Number(n)
      BY <2>2, KnownKinds
    <3>2. PICK as, m : TerraformToGoLeaf(Number(n)) = Go(as, m)
      BY <3>1, NumberMade
    <3>3. y = Shaped(x, Go(as, m))
      BY <3>1, <3>2
    <3>4. Go(as, m).k = "num"
      BY GoFields, Zenon
    <3>5. y = Go(as, m)
      <4> HIDE DEF y
      <4> QED
        BY <2>2, <3>3 DEF Shaped
    <3> QED
      BY <2>2, <3>4, <3>5
  <2> QED
    BY <2>1, <2>2
<1>2. x.k \in {"num", "null", "bool", "string", "seq", "map"}
  BY KnownKinds
<1>3. Misfit.k = "misfit"
  BY DEF Misfit, Item
<1> HIDE DEF y
<1>4. y # Misfit
  BY <1>1, <1>2, <1>3
<1> QED
  BY <1>4 DEF y

LEMMA KnownIsWritten ==
  ASSUME NEW v, Known(v), IsTree(v), ~Deeper(v, MaxDepth["dataformat"])
  PROVE  TerraformValueToGo(v, FALSE) # Rejected
<1> DEFINE g == Each(v, TerraformToGoLeaf)
<1>1. DOMAIN g = DOMAIN v /\ \A p \in DOMAIN v : g[p] = Shaped(v[p], TerraformToGoLeaf(v[p]))
  BY EachOne
<1>2. TerraformValueToGo(v, FALSE) =
        IF Deeper(g, MaxDepth["dataformat"]) \/ \E p \in DOMAIN g : g[p] = Misfit THEN Rejected ELSE g
  BY DEF TerraformValueToGo
<1> HIDE DEF g
<1>3. ~Deeper(g, MaxDepth["dataformat"])
  BY <1>1 DEF Deeper
<1>4. \A p \in DOMAIN g : g[p] # Misfit
  BY <1>1, KnownFits DEF Known
<1>5. g # Rejected
  <2>1. <<>> \in DOMAIN g
    BY <1>1 DEF IsTree
  <2> QED
    BY <2>1, NothingStays
<1> QED
  BY <1>2, <1>3, <1>4, <1>5

LEMMA GoRead ==
  ASSUME NEW g, GoToTerraformValue(g, FALSE) # Rejected
  PROVE  GoToTerraformValue(g, FALSE) = Each(g, GoToTerraformLeaf)
BY DEF GoToTerraformValue

LEMMA JSONTextCarries ==
  ASSUME NEW v, Known(v), IsTree(v), NEW s, s = JSONWritten(v), s # Rejected,
         NEW r, r = Each(s, GoToTerraformLeaf)
  PROVE  Carried(v, s, r) /\ TerraformValueToGo(r, FALSE) # Rejected
<1>1. TerraformValueToGo(v, FALSE) # Rejected
  <2> SUFFICES ASSUME TerraformValueToGo(v, FALSE) = Rejected
               PROVE  s = Rejected
    OBVIOUS
  <2> QED
    BY NothingStays DEF JSONWritten
<1>2. ~Deeper(v, MaxDepth["dataformat"]) /\ TerraformValueToGo(v, FALSE) = Each(v, TerraformToGoLeaf)
  BY <1>1, GoGiven
<1>3. s = Each(Each(Each(v, TerraformToGoLeaf), PrepareJSONLeaf), JSONTextLeaf)
  BY <1>2 DEF JSONWritten
<1>4. Known(r) /\ IsTree(r) /\ Kept(v, s) /\ Kept(v, r) /\ DOMAIN r = DOMAIN v
  BY <1>3, TextKept
<1>5. ~Deeper(r, MaxDepth["dataformat"])
  BY <1>2, <1>4 DEF Deeper
<1> QED
  BY <1>4, <1>5, KeptIsCarried, KnownIsWritten

LEMMA BinaryCarries ==
  ASSUME NEW v, Known(v), IsTree(v), edge \in Int, NEW s, s = BinaryWritten(v), s # Rejected,
         NEW r, r = Each(s, GoToTerraformLeaf)
  PROVE  Carried(v, s, r) /\ TerraformValueToGo(r, FALSE) # Rejected
<1>1. TerraformValueToGo(v, FALSE) # Rejected
  <2> SUFFICES ASSUME TerraformValueToGo(v, FALSE) = Rejected
               PROVE  s = Rejected
    OBVIOUS
  <2> QED
    BY NothingStays DEF BinaryWritten
<1>2. ~Deeper(v, MaxDepth["dataformat"]) /\ TerraformValueToGo(v, FALSE) = Each(v, TerraformToGoLeaf)
  BY <1>1, GoGiven
<1>3. s = Each(Each(v, TerraformToGoLeaf), PrepareBinaryLeaf)
  BY <1>2 DEF BinaryWritten
<1>4. /\ Known(r) /\ IsTree(r) /\ DOMAIN r = DOMAIN v
      /\ (\A p \in DOMAIN v : v[p].k = "num" => Tame(v[p].n)) => Kept(v, s) /\ Kept(v, r)
  BY <1>3, BinaryKept
<1>5. ~Deeper(r, MaxDepth["dataformat"])
  BY <1>2, <1>4 DEF Deeper
<1> QED
  BY <1>4, <1>5, KeptIsCarried, KnownIsWritten

LEMMA JWTCarries ==
  ASSUME NEW v, Known(v), IsTree(v), NEW s, s = TerraformToGoJSON(v), s # Rejected,
         NEW r, r = GoJSONToTerraform(s), r # Rejected
  PROVE  Carried(v, s, r) /\ TerraformToGoJSON(r) # Rejected
<1>1. s = Each(v, ToJSONLeaf) /\ ~Deeper(v, MaxDepth["jose"])
  BY DEF TerraformToGoJSON
<1>2. r = Each(s, FromJSONLeaf)
  BY DEF GoJSONToTerraform
<1>3. Known(r) /\ IsTree(r) /\ Kept(v, s) /\ Kept(v, r) /\ DOMAIN r = DOMAIN v
  BY <1>1, <1>2, JSONKept
<1>4. ~Deeper(r, MaxDepth["jose"])
  BY <1>1, <1>3 DEF Deeper
<1>5. TerraformToGoJSON(r) = Each(r, ToJSONLeaf) /\ DOMAIN Each(r, ToJSONLeaf) = DOMAIN r
  BY <1>4, EachOne DEF TerraformToGoJSON
<1>6. TerraformToGoJSON(r) # Rejected
  BY <1>3, <1>5, NothingStays DEF IsTree
<1> QED
  BY <1>3, <1>6, KeptIsCarried

LEMMA TypstSees ==
  ASSUME NEW v, Known(v), IsTree(v), NEW s, s = AttrToGo(v), s # Rejected
  PROVE  Carried(v, s, v)
<1>1. s = Each(v, ToJSONLeaf)
  BY DEF AttrToGo
<1>2. Kept(v, s)
  BY <1>1, JSONKept
<1>3. Kept(v, v)
  BY DEF Kept, Same, Drift
<1> QED
  BY <1>2, <1>3, KeptIsCarried

LEMMA PolicySees ==
  ASSUME NEW v, Known(v), IsTree(v), NEW o, Terraform(o), ~RoundsPast(o), ~WholePast(o),
         NEW n \in Nat, InsideBy(o, v, n)
  PROVE  InsideBy(o, ToGoValue(v), n)
<1> DEFINE s == ToGoValue(v)
<1>1. DOMAIN s = DOMAIN v /\ \A p \in DOMAIN v : s[p] = Shaped(v[p], ToGoValueLeaf(v[p]))
  BY EachOne DEF ToGoValue
<1> HIDE DEF s
<1>2. ASSUME NEW p \in DOMAIN v
      PROVE  Same(v[p], s[p])
  <2>1. KnownItem(v[p])
    BY DEF Known
  <2>2. v[p].k = "num" /\ Whole(v[p].n) => Clamped(v[p].n) = v[p].n
    BY ClampedInside
  <2>3. Same(v[p], Shaped(v[p], ToGoValueLeaf(v[p])))
    BY <2>1, <2>2, EvalItem
  <2> QED
    BY <1>1, <2>3
<1>3. Kept(v, s)
  BY <1>1, <1>2 DEF Kept
<1>4. InsideBy(o, s, n)
  BY <1>3, InsideStays
<1> QED
  BY <1>4 DEF s

(* A property list that was read can be written, unless a dictionary was   *)
(* read that looks like a tag and does not fit.                            *)
LEMMA ReadIsWritten ==
  ASSUME NEW g, IsTree(g), \A p \in DOMAIN g : ReadItem(g[p]),
         ~Deeper(g, MaxDepth["dataformat"]),
         \A p \in DOMAIN g : IsTag(g, p) => TryUnpack(g, p) # Misfit
  PROVE  LET w == Each(WithTags(g), GoToTerraformLeaf)
             u == Each(Untagged(w), TerraformToGoLeaf) IN
         /\ Listless(w) \subseteq DOMAIN g /\ DOMAIN u = Listless(w)
         /\ TerraformValueToGo(w, TRUE) = u /\ u # Rejected
         /\ \A p \in DOMAIN u : u[p] # Misfit
<1> DEFINE w == Each(WithTags(g), GoToTerraformLeaf)
           t == Untagged(w)
           u == Each(t, TerraformToGoLeaf)
<1>1. DOMAIN w = DOMAIN g \cup TagPaths(g) /\ Known(w) /\ IsTree(w)
  BY TagsRead
<1>2. DOMAIN t = Listless(w) /\ \A p \in Listless(w) : t[p] = IF IsTag(w, p) THEN TryUnpack(w, p) ELSE w[p]
  BY DEF Untagged, Listless
<1>3. DOMAIN u = DOMAIN t /\ \A p \in DOMAIN t : u[p] = Shaped(t[p], TerraformToGoLeaf(t[p]))
  BY EachOne
<1>4. TerraformValueToGo(w, TRUE) =
        IF Deeper(u, MaxDepth["dataformat"]) \/ \E p \in DOMAIN u : u[p] = Misfit THEN Rejected ELSE u
  BY DEF TerraformValueToGo
<1>5. \A p \in Tagged(g) : /\ IsTag(w, p)
                           /\ TryUnpack(w, p) = IF g[p].k = "num" THEN Real(Near(g[p].n)) ELSE Respelt(g[p])
  BY TagsStandForWhatWasRead
<1>6. \A p : p \notin Tagged(g) /\ IsTag(w, p) =>
               p \in DOMAIN g /\ IsTag(g, p) /\ TryUnpack(g, p) = TryUnpack(w, p)
  BY OtherTagsWereRead
<1> HIDE DEF w, t, u
<1>7. Listless(w) \subseteq DOMAIN g
  <2> SUFFICES ASSUME NEW p \in TagPaths(g), p \in Listless(w)
               PROVE  FALSE
    BY <1>1 DEF Listless
  <2>1. PICK q \in Tagged(g), x \in {TypeKey, ValueKey} : p = Append(q, x)
    BY DEF TagPaths
  <2>2. p # <<>> /\ Parent(p) = q
    BY <2>1, TagPathsAreNew
  <2> QED
    BY <1>5, <2>2 DEF Listless
<1>8. ~Deeper(u, MaxDepth["dataformat"])
  BY <1>2, <1>3, <1>7 DEF Deeper
<1>9. ASSUME NEW p \in Tagged(g)
      PROVE  TryUnpack(w, p).k \in {"date", "data", "real"}
  <2>1. g[p].k \in {"date", "data", "num"}
    BY TagWritten DEF Tagged
  <2>2. \A n : Real(n).k = "real"
    BY DEF Real, Item
  <2>3. Respelt(g[p]).k = g[p].k
    BY RespeltIs
  <2> QED
    BY <1>5, <2>1, <2>2, <2>3
<1>10. ASSUME NEW p \in Listless(w)
       PROVE  u[p] # Misfit
  <2>1. CASE ~IsTag(w, p)
    <3>1. KnownItem(w[p])
      BY <1>1 DEF Known, Listless
    <3> QED
      BY <1>2, <1>3, <2>1, <3>1, KnownFits
  <2>2. CASE IsTag(w, p)
    <3> DEFINE x == TryUnpack(w, p)
    <3>1. u[p] = Shaped(x, TerraformToGoLeaf(x))
      BY <1>2, <1>3, <2>2
    <3>2. x.k \in {"date", "data", "real", "misfit"}
      <4>1. \A n, s : /\ Opaque("date", s).k = "date" /\ Opaque("data", s).k = "data"
                      /\ Real(n).k = "real" /\ Misfit.k = "misfit"
        BY DEF Opaque, Real, Misfit, Item
      <4> QED
        BY <4>1, TagStandsFor
    <3>3. x # Misfit
      <4>1. CASE p \in Tagged(g)
        <5>1. Misfit.k = "misfit"
          BY DEF Misfit, Item
        <5> QED
          BY <1>9, <4>1, <5>1
      <4>2. CASE p \notin Tagged(g)
        BY <1>6, <2>2, <4>2
      <4> QED
        BY <4>1, <4>2
    <3> HIDE DEF x
    <3>4. u[p] = x
      BY <3>1, <3>2 DEF Shaped, TerraformToGoLeaf
    <3> QED
      BY <3>3, <3>4
  <2> QED
    BY <2>1, <2>2
<1>11. u # Rejected
  <2>1. <<>> \in DOMAIN u
    BY <1>1, <1>2, <1>3 DEF IsTree, Listless
  <2> QED
    BY <2>1, NothingStays
<1> QED
  BY <1>2, <1>3, <1>4, <1>7, <1>8, <1>10, <1>11 DEF u, t, w

LEMMA PlistGiven ==
  ASSUME NEW v, PlistWritten(v) # Rejected
  PROVE  LET u == Each(Untagged(v), TerraformToGoLeaf) IN
         /\ ~Deeper(u, MaxDepth["dataformat"]) /\ \A p \in DOMAIN u : u[p] # Misfit
         /\ PlistWritten(v) = Each(Each(u, PreparePlistLeaf), PlistTextLeaf)
<1> DEFINE u == Each(Untagged(v), TerraformToGoLeaf)
           g == TerraformValueToGo(v, TRUE)
<1>1. g = IF Deeper(u, MaxDepth["dataformat"]) \/ \E p \in DOMAIN u : u[p] = Misfit THEN Rejected ELSE u
  BY DEF TerraformValueToGo
<1>2. PlistWritten(v) = Each(Each(g, PreparePlistLeaf), PlistTextLeaf)
  BY DEF PlistWritten
<1> HIDE DEF u, g
<1>3. g # Rejected
  BY <1>2, NothingStays
<1> QED
  BY <1>1, <1>2, <1>3 DEF u

LEMMA PlistCarries ==
  ASSUME NEW v, Known(v), IsTree(v), edge \in Int, NEW s, s = PlistWritten(v), s # Rejected,
         NEW r, r = GoToTerraformValue(s, TRUE), r # Rejected
  PROVE  /\ Carried(v, s, r)
         /\ TerraformValueToGo(r, TRUE) # Rejected
            \/ \E p \in DOMAIN s : IsTag(s, p) /\ TryUnpack(s, p) = Misfit
<1> DEFINE u == Each(Untagged(v), TerraformToGoLeaf)
           m == Each(u, PreparePlistLeaf)
           w == Each(WithTags(s), GoToTerraformLeaf)
<1>1. /\ ~Deeper(u, MaxDepth["dataformat"]) /\ \A p \in DOMAIN u : u[p] # Misfit
      /\ s = Each(m, PlistTextLeaf)
  BY PlistGiven
<1>2. /\ DOMAIN s = Listless(v) /\ IsTree(s) /\ \A p \in DOMAIN s : ReadItem(s[p])
      /\ \A p \in DOMAIN s : ~IsTag(v, p) =>
           /\ s[p].k = v[p].k
           /\ (v[p].k = "num" => Tame(v[p].n)) => Same(v[p], s[p]) /\ ~Taggable(s[p])
      /\ \A p \in DOMAIN s : IsTag(v, p) => TryUnpack(v, p) # Misfit /\ s[p] = TagRead(v, p)
  BY <1>1, PlistSight
<1>3. r = w /\ ~Deeper(s, MaxDepth["dataformat"])
  BY DEF GoToTerraformValue
<1>4. Known(w) /\ IsTree(w)
  BY <1>2, TagsRead
<1>5. Carried(v, s, r)
  <2> SUFFICES ASSUME NEW o, NEW n \in Nat, Terraform(o), ~RoundsPast(o), InsideBy(o, v, n)
               PROVE  InsideBy(o, s, n) /\ InsideBy(o, r, n)
    BY <1>3, <1>4 DEF Carried
  <2>1. \A p \in DOMAIN v : v[p].k = "num" => Tame(v[p].n)
    BY TameInside
  <2>2. Rewritten(v, s) /\ Rewritten(v, w)
    BY <1>2, <2>1, PlistRewritten
  <2>3. InsideBy(o, s, n)
    BY <2>2, RewrittenInside
  <2>4. InsideBy(o, w, n)
    BY <2>2, RewrittenInside
  <2> QED
    BY <1>3, <2>3, <2>4
<1>6. ASSUME \A p \in DOMAIN s : IsTag(s, p) => TryUnpack(s, p) # Misfit
      PROVE  TerraformValueToGo(r, TRUE) # Rejected
  BY <1>2, <1>3, <1>6, ReadIsWritten
<1> QED
  BY <1>5, <1>6

(* What the plist library gives is among what a decoder reads.             *)
LEMMA PlistItemIsRead ==
  ASSUME NEW g, IsPlistItem(g)
  PROVE  ReadItem(g) /\ g.k # "unknown"
<1>1. IsItem(g) /\ g.n \in Int
  BY DEF IsPlistItem, IsItem
<1>2. /\ \A s : Truth(s).k = "bool" /\ Opaque("date", s).k = "date" /\ Opaque("data", s).k = "data"
      /\ Sequence("tuple").k = "seq" /\ Mapping("object").k = "map"
  BY KindFields DEF Opaque, Item
<1>3. \A as, n : Go(as, n).k = "num"
  BY GoFields
<1>4. CASE g = Truth(g.s)
  <2>1. IsTerraformItem(g)
    BY <1>1, <1>4, Zenon DEF IsTerraformItem
  <2>2. g.k = "bool"
    BY <1>2, <1>4
  <2> QED
    BY <2>1, <2>2 DEF ReadItem, KnownItem
<1>5. CASE g.k = "string" /\ IsText(g)
  <2>1. IsTerraformItem(g)
    BY <1>1, <1>5, Zenon DEF IsTerraformItem
  <2> QED
    BY <1>5, <2>1 DEF ReadItem, KnownItem
<1>6. CASE g \in {Opaque("date", g.s), Opaque("data", g.s)}
  <2>1. g.k \in {"date", "data"}
    BY <1>2, <1>6
  <2>2. \E k \in {"date", "data"} : \E s : g = Opaque(k, s)
    BY <1>6
  <2> QED
    BY <2>1, <2>2 DEF ReadItem
<1>7. ASSUME NEW as \in {"int64", "uint64", "float"}, g = Go(as, g.n)
      PROVE  ReadItem(g) /\ g.k # "unknown"
  <2>1. g.k = "num"
    BY <1>3, <1>7
  <2>2. PICK n \in Int : g = Go(as, n)
    BY <1>1, <1>7
  <2> QED
    BY <2>1, <2>2 DEF ReadItem
<1>8. CASE g \in {Sequence("tuple"), Mapping("object")}
  BY <1>2, <1>8 DEF ReadItem
<1> QED
  BY <1>4, <1>5, <1>6, <1>7, <1>8 DEF IsPlistItem

(* An item that is no tag is written as it is read.                        *)
LEMMA PlistItemReturns ==
  ASSUME NEW g, IsPlistItem(g), ~Taggable(g)
  PROVE  LET x == Shaped(g, GoToTerraformLeaf(g))
             a == Shaped(x, TerraformToGoLeaf(x))
             b == Shaped(a, PreparePlistLeaf(a))
             z == Shaped(g, AsReadLeaf(g)) IN
         Shaped(b, PlistTextLeaf(b)) = Shaped(z, PlistTextLeaf(z))
<1> DEFINE x == Shaped(g, GoToTerraformLeaf(g))
           a == Shaped(x, TerraformToGoLeaf(x))
           b == Shaped(a, PreparePlistLeaf(a))
           y == Shaped(b, PlistTextLeaf(b))
           z == Shaped(g, AsReadLeaf(g))
<1>1. g.n \in Int
  BY DEF IsPlistItem, IsItem
<1>2. ASSUME NEW t, t.k \in {"bool", "string"}
      PROVE  /\ Shaped(t, GoToTerraformLeaf(t)) = t /\ Shaped(t, TerraformToGoLeaf(t)) = t
             /\ Shaped(t, PreparePlistLeaf(t)) = t /\ Shaped(t, PlistTextLeaf(t)) = t
             /\ Shaped(t, AsReadLeaf(t)) = t
  BY <1>2 DEF Shaped, GoToTerraformLeaf, TerraformToGoLeaf, PreparePlistLeaf, PlistTextLeaf, AsReadLeaf
<1>3. CASE g = Truth(g.s) \/ (g.k = "string" /\ IsText(g))
  <2>1. g.k \in {"bool", "string"}
    <3>1. \A s : Truth(s).k = "bool"
      BY KindFields
    <3> QED
      BY <1>3, <3>1
  <2>2. x = g
    BY <1>2, <2>1
  <2>3. a = g
    BY <1>2, <2>1, <2>2
  <2>4. b = g
    BY <1>2, <2>1, <2>3
  <2>5. z = g
    BY <1>2, <2>1
  <2>6. Shaped(g, PlistTextLeaf(g)) = g
    BY <1>2, <2>1
  <2> QED
    BY <2>4, <2>5, <2>6
<1>4. CASE g \in {Opaque("date", g.s), Opaque("data", g.s)}
  <2>1. \A s : Opaque("date", s).k = "date" /\ Opaque("data", s).k = "data"
    BY DEF Opaque, Item
  <2>2. g.k \in {"date", "data"}
    BY <1>4, <2>1
  <2> QED
    BY <2>2 DEF Taggable
<1>5. ASSUME NEW as \in {"int64", "uint64", "float"}, NEW how \in {"int64", "big", "float"},
             NEW n \in Int, g = Go(as, n), AsReadLeaf(g) = Go(how, n),
             TerraformToGoLeaf(Number(n)) = Go(how, n), PreparePlistLeaf(Go(how, n)) = Go(how, n)
      PROVE  y = Shaped(z, PlistTextLeaf(z))
  <2>1. GoToTerraformLeaf(Go(as, n)) = Number(n) 
    BY GoNumbers
  <2>2. \A t : Shaped(Go(as, n), t) = t /\ Shaped(Go(how, n), t) = t /\ Shaped(Number(n), t) = t
    <3>1. \A kind, t : Shaped(Go(kind, n), t) = t
      <4> HIDE DEF x, a, b, y, z
      <4> QED
        BY GoShape
    <3>2. Number(n) = Go("number", n)
      BY NumberIsGo
    <3> QED
      BY <3>1, <3>2, Zenon
  <2>3. x = Number(n)
    BY <1>5, <2>1, <2>2
  <2>4. a = Shaped(Number(n), TerraformToGoLeaf(Number(n)))
    BY <2>3
  <2>5. a = Go(how, n)
    BY <1>5, <2>2, <2>4
  <2>6. b = Shaped(Go(how, n), PreparePlistLeaf(Go(how, n)))
    BY <2>5
  <2>7. b = Go(how, n)
    BY <1>5, <2>2, <2>6
  <2>8. z = Go(how, n)
    BY <1>5, <2>2
  <2> QED
    BY <2>7, <2>8
<1>6. CASE g = Go("int64", g.n) /\ Fits64(g.n)
  <2>1. PICK n \in Int : g = Go("int64", n) /\ Fits64(n)
    BY <1>1, <1>6
  <2>2. Number(n).k = "num" /\ Number(n).n = n
    BY KindFields, Zenon
  <2>3. TerraformToGoLeaf(Number(n)) = Go("int64", n)
    BY <2>1, <2>2 DEF TerraformToGoLeaf
  <2>4. PreparePlistLeaf(Go("int64", n)) = Go("int64", n)
    BY NumberMade
  <2>5. AsReadLeaf(Go("int64", n)) = Go("int64", n)
    BY GoFields DEF AsReadLeaf
  <2> QED
    BY <1>5, <2>1, <2>3, <2>4, <2>5
<1>11. CASE g = Go("uint64", g.n) /\ Unsigned(g.n)
  <2>1. PICK n \in Int : g = Go("uint64", n) /\ Unsigned(n)
    BY <1>1, <1>11
  <2> DEFINE how == IF Fits64(n) THEN "int64" ELSE "big"
  <2>2. Number(n).k = "num" /\ Number(n).n = n
    BY KindFields, Zenon
  <2>3. TerraformToGoLeaf(Number(n)) = Go(how, n)
    BY <2>1, <2>2 DEF TerraformToGoLeaf, Unsigned
  <2>4. PreparePlistLeaf(Go(how, n)) = Go(how, n)
    <3>1. Go(how, n).as = how /\ how # "float"
      BY GoFields
    <3> HIDE DEF how
    <3> QED
      BY <3>1 DEF PreparePlistLeaf
  <2>5. AsReadLeaf(Go("uint64", n)) = Go(how, n)
    <3>1. Go("uint64", n).k = "num" /\ Go("uint64", n).as = "uint64" /\ Go("uint64", n).n = n
      BY GoFields, Zenon
    <3> QED
      BY <3>1 DEF AsReadLeaf
  <2>6. how \in {"int64", "big", "float"}
    OBVIOUS
  <2> HIDE DEF how
  <2> QED
    BY <1>5, <2>1, <2>3, <2>4, <2>5, <2>6
<1>7. CASE g = Go("float", g.n) /\ Near(g.n) = g.n
  <2>1. PICK n \in Int : g = Go("float", n) /\ Near(n) = n
    BY <1>1, <1>7
  <2>2. /\ Number(n).k = "num" /\ Number(n).n = n
        /\ Go("float", n).k = "num" /\ Go("float", n).as = "float" /\ Go("float", n).n = n
    <3>1. Number(n).k = "num" /\ Number(n).n = n
      BY KindFields, Zenon
    <3>2. Go("float", n).k = "num" /\ Go("float", n).as = "float" /\ Go("float", n).n = n
      BY GoFields, Zenon
    <3> QED
      BY <3>1, <3>2
  <2>3. ~Whole(n)
    BY <2>1, <2>2 DEF Taggable
  <2>4. TerraformToGoLeaf(Number(n)) = Go("float", n)
    BY <2>1, <2>2, <2>3 DEF TerraformToGoLeaf, Fits64
  <2>5. PreparePlistLeaf(Go("float", n)) = Go("float", n)
    BY <2>3, NumberMade
  <2>6. AsReadLeaf(Go("float", n)) = Go("float", n)
    BY <2>2 DEF AsReadLeaf
  <2> QED
    BY <1>5, <2>1, <2>4, <2>5, <2>6
<1>8. CASE g = Sequence("tuple")
  <2>1. \A t : t.k = "seq" => \A u : Shaped(t, u) = Sequence("tuple")
    BY DEF Shaped
  <2>2. Sequence("tuple").k = "seq"
    BY KindFields, Zenon
  <2>3. x = g
    BY <1>8, <2>1, <2>2
  <2>4. a = g
    BY <1>8, <2>1, <2>2, <2>3
  <2>5. b = g /\ z = g
    BY <1>8, <2>1, <2>2, <2>4
  <2> QED
    BY <2>5
<1>9. CASE g = Mapping("object")
  <2>1. \A t : t.k = "map" => \A u : Shaped(t, u) = Mapping("object")
    BY DEF Shaped
  <2>2. Mapping("object").k = "map"
    BY KindFields, Zenon
  <2>3. x = g
    BY <1>9, <2>1, <2>2
  <2>4. a = g
    BY <1>9, <2>1, <2>2, <2>3
  <2>5. b = g /\ z = g
    BY <1>9, <2>1, <2>2, <2>4
  <2> QED
    BY <2>5
<1>10. \/ g = Truth(g.s) \/ (g.k = "string" /\ IsText(g))
       \/ g \in {Opaque("date", g.s), Opaque("data", g.s)}
       \/ g = Go("int64", g.n) /\ Fits64(g.n)
       \/ g = Go("uint64", g.n) /\ Unsigned(g.n)
       \/ g = Go("float", g.n) /\ Near(g.n) = g.n
       \/ g = Sequence("tuple") \/ g = Mapping("object")
  BY DEF IsPlistItem
<1> QED
  BY <1>3, <1>4, <1>6, <1>7, <1>8, <1>9, <1>10, <1>11

(* A tag is told by the mapping and the two texts in it.                   *)
LEMMA TagIsCopied ==
  ASSUME NEW v, NEW w, NEW p, IsTag(v, p), w[p] = v[p], Kids(w, p) = Kids(v, p),
         \A q \in Kids(v, p) : w[q] = v[q]
  PROVE  IsTag(w, p) /\ TryUnpack(w, p) = TryUnpack(v, p)
<1>1. /\ v[p] = Mapping("object") /\ Kids(v, p) = {Append(p, TypeKey), Append(p, ValueKey)}
      /\ \A q \in Kids(v, p) : v[q].k = "string"
      /\ \E type \in TagTypes : v[Append(p, TypeKey)] = Text("plain", type)
  BY DEF IsTag, HasTagKeys
<1>2. w[Append(p, TypeKey)] = v[Append(p, TypeKey)] /\ w[Append(p, ValueKey)] = v[Append(p, ValueKey)]
  BY <1>1
<1>3. IsTag(w, p)
  BY <1>1, <1>2 DEF IsTag, HasTagKeys
<1>4. TryUnpack(w, p) = TryUnpack(v, p)
  BY <1>2 DEF TryUnpack
<1> QED
  BY <1>3, <1>4

(* What stays of an item of a property list that looks like part of a tag. *)
LEMMA PartsStay ==
  ASSUME NEW g, IsPlistItem(g)
  PROVE  LET z == Shaped(g, AsReadLeaf(g)) IN
         /\ z.k = g.k /\ (g.k \in {"string", "map"} => z = g)
         /\ g.k = "map" => g = Mapping("object")
<1> DEFINE z == Shaped(g, AsReadLeaf(g))
<1>1. /\ \A s : Truth(s).k = "bool" /\ Opaque("date", s).k = "date" /\ Opaque("data", s).k = "data"
      /\ Sequence("tuple").k = "seq" /\ Mapping("object").k = "map"
  BY KindFields DEF Opaque, Item
<1>2. \A as, n : Go(as, n).k = "num"
  BY GoFields
<1>3. /\ g.k = "map" => g = Mapping("object")
      /\ g.k = "seq" => g = Sequence("tuple")
  BY <1>1, <1>2 DEF IsPlistItem
<1>4. CASE g.k = "seq" \/ g.k = "map"
  <2>1. z = g
    BY <1>3, <1>4 DEF Shaped
  <2> QED
    BY <1>3, <2>1
<1>5. CASE g.k # "seq" /\ g.k # "map"
  <2>1. z = AsReadLeaf(g)
    BY <1>5 DEF Shaped
  <2>2. Respelt(g).k = g.k
    BY RespeltIs
  <2>3. AsReadLeaf(g).k = g.k /\ (g.k = "string" => AsReadLeaf(g) = g)
    BY <1>2, <2>2 DEF AsReadLeaf
  <2>4. z.k = g.k /\ (g.k = "string" => z = g)
    BY <2>1, <2>3
  <2> HIDE DEF z
  <2> QED
    BY <1>5, <2>4 DEF z
<1> QED
  BY <1>4, <1>5

(* The tags of a document that is read: those it makes of dates, data and  *)
(* reals, and the dictionaries that look like one.                         *)
LEMMA DocumentTags ==
  ASSUME NEW d, IsTree(d), \A p \in DOMAIN d : IsPlistItem(d[p])
  PROVE  LET w == Each(WithTags(d), GoToTerraformLeaf)
             e == Each(d, AsReadLeaf) IN
         /\ Listless(w) = Listless(d) /\ Listless(e) = Listless(d)
         /\ \A p : IsTag(d, p) => /\ p \in Listless(d) \ Tagged(d)
                                  /\ IsTag(w, p) /\ TryUnpack(w, p) = TryUnpack(d, p)
                                  /\ IsTag(e, p) /\ TryUnpack(e, p) = TryUnpack(d, p)
         /\ \A p : IsTag(w, p) => p \in Tagged(d) \/ IsTag(d, p)
         /\ \A p : IsTag(e, p) => IsTag(d, p)
<1> DEFINE w == Each(WithTags(d), GoToTerraformLeaf)
           e == Each(d, AsReadLeaf)
<1>1. \A p \in DOMAIN d : ReadItem(d[p])
  BY PlistItemIsRead
<1>2. /\ DOMAIN w = DOMAIN d \cup TagPaths(d)
      /\ \A p \in DOMAIN d \ Tagged(d) : w[p] = Shaped(d[p], GoToTerraformLeaf(d[p]))
  BY <1>1, TagsRead
<1>3. DOMAIN e = DOMAIN d /\ \A p \in DOMAIN d : e[p] = Shaped(d[p], AsReadLeaf(d[p]))
  BY EachOne
<1>4. \A p \in Tagged(d) : IsTag(w, p)
  BY <1>1, TagsStandForWhatWasRead
<1>5. \A p : IsTag(w, p) => p \in Tagged(d) \/ IsTag(d, p)
  BY <1>1, OtherTagsWereRead
<1> HIDE DEF w, e
<1>6. Mapping("object").k = "map"
  BY KindFields, Zenon
<1>7. \A p \in Tagged(d) : p \in DOMAIN d /\ d[p].k \in {"date", "data", "num"}
  BY <1>1, TagWritten DEF Tagged
<1>8. \A p \in DOMAIN d : /\ e[p].k = d[p].k /\ (d[p].k \in {"string", "map"} => e[p] = d[p])
                          /\ d[p].k = "map" => d[p] = Mapping("object")
  BY <1>3, PartsStay
<1>9. \A p : Kids(e, p) = Kids(d, p)
  BY <1>3 DEF Kids
<1>10. \A p : Kids(e, p) \subseteq DOMAIN d /\ Kids(d, p) \subseteq DOMAIN d
  BY <1>3 DEF Kids
<1>11. ASSUME NEW p, IsTag(d, p)
       PROVE  /\ p \in Listless(d) \ Tagged(d) /\ d[p].k = "map"
              /\ \A q \in Kids(d, p) : q \in DOMAIN d /\ d[q].k = "string"
  <2>1. /\ d[p] = Mapping("object") /\ Kids(d, p) = {Append(p, TypeKey), Append(p, ValueKey)}
        /\ \A q \in Kids(d, p) : d[q].k = "string"
    BY <1>11 DEF IsTag, HasTagKeys
  <2>2. p \in DOMAIN d
    <3>1. Append(p, TypeKey) \in DOMAIN d /\ Append(p, TypeKey) # <<>> /\ Parent(Append(p, TypeKey)) = p
      BY <2>1 DEF Kids
    <3> QED
      BY <3>1 DEF IsTree
  <2>3. ~(p # <<>> /\ IsTag(d, Parent(p)))
    <3> SUFFICES ASSUME p # <<>>, IsTag(d, Parent(p))
                 PROVE  FALSE
      OBVIOUS
    <3>1. p \in Kids(d, Parent(p))
      BY <2>2 DEF Kids
    <3>2. d[p].k = "string"
      BY <3>1 DEF IsTag, HasTagKeys
    <3> QED
      BY <1>6, <2>1, <3>2
  <2>4. p \notin Tagged(d)
    BY <1>6, <1>7, <2>1
  <2> QED
    BY <1>6, <1>10, <2>1, <2>2, <2>3, <2>4 DEF Listless
<1>12. ASSUME NEW p, IsTag(d, p)
       PROVE  IsTag(e, p) /\ TryUnpack(e, p) = TryUnpack(d, p)
  <2>1. p \in DOMAIN d /\ e[p] = d[p]
    BY <1>8, <1>11, <1>12 DEF Listless
  <2>2. \A q \in Kids(d, p) : e[q] = d[q]
    BY <1>8, <1>11, <1>12
  <2> QED
    BY <1>9, <1>12, <2>1, <2>2, TagIsCopied
<1>13. ASSUME NEW p, IsTag(e, p)
       PROVE  IsTag(d, p)
  <2>1. /\ e[p] = Mapping("object") /\ Kids(e, p) = {Append(p, TypeKey), Append(p, ValueKey)}
        /\ \A q \in Kids(e, p) : e[q].k = "string"
    BY <1>13 DEF IsTag, HasTagKeys
  <2>2. p \in DOMAIN d
    <3>1. Append(p, TypeKey) \in DOMAIN d /\ Append(p, TypeKey) # <<>> /\ Parent(Append(p, TypeKey)) = p
      BY <1>3, <2>1 DEF Kids
    <3> QED
      BY <3>1 DEF IsTree
  <2>3. d[p] = e[p]
    BY <1>6, <1>8, <2>1, <2>2
  <2>4. \A q \in Kids(e, p) : d[q] = e[q]
    BY <1>8, <1>10, <2>1
  <2> QED
    BY <1>9, <1>13, <2>3, <2>4, TagIsCopied
<1>14. ASSUME NEW p, IsTag(d, p)
       PROVE  IsTag(w, p) /\ TryUnpack(w, p) = TryUnpack(d, p)
  <2>1. \A q \in DOMAIN d : d[q].k \in {"string", "map"} => q \in DOMAIN d \ Tagged(d) /\ ~Taggable(d[q])
    BY <1>7 DEF Tagged
  <2>2. \A q \in DOMAIN d : d[q].k = "string" => w[q] = d[q]
    <3> SUFFICES ASSUME NEW q \in DOMAIN d, d[q].k = "string"
                 PROVE  w[q] = d[q]
      OBVIOUS
    <3>1. w[q] = Shaped(d[q], GoToTerraformLeaf(d[q])) /\ ~Taggable(d[q]) /\ ReadItem(d[q])
      BY <1>1, <1>2, <2>1
    <3>2. w[q].k = d[q].k /\ (w[q].k = "string" => w[q] = d[q])
      BY <3>1, ReadKept
    <3> QED
      BY <3>2
  <2>3. w[p] = d[p]
    <3>1. p \in DOMAIN d \ Tagged(d) /\ d[p].k = "map" /\ d[p] = Mapping("object")
      BY <1>11, <1>14 DEF Listless, IsTag
    <3> QED
      BY <1>2, <3>1 DEF Shaped
  <2>4. Kids(w, p) = Kids(d, p)
    <3>1. ASSUME NEW q \in TagPaths(d), Parent(q) = p
          PROVE  FALSE
      <4>1. PICK r \in Tagged(d), x \in {TypeKey, ValueKey} : q = Append(r, x)
        BY DEF TagPaths
      <4>2. Parent(q) = r
        BY <1>1, <4>1, TagPathsAreNew
      <4> QED
        BY <1>11, <1>14, <3>1, <4>2
    <3> QED
      BY <1>2, <3>1 DEF Kids
  <2>5. \A q \in Kids(d, p) : w[q] = d[q]
    BY <1>11, <1>14, <2>2
  <2> QED
    BY <1>14, <2>3, <2>4, <2>5, TagIsCopied
<1>15. Listless(e) = Listless(d)
  BY <1>3, <1>12, <1>13 DEF Listless
<1>16. Listless(w) = Listless(d)
  <2>1. ASSUME NEW p \in Listless(w)
        PROVE  p \in Listless(d)
    <3>1. p \in DOMAIN d
      <4> SUFFICES ASSUME p \in TagPaths(d)
                   PROVE  FALSE
        BY <1>2 DEF Listless
      <4>1. PICK r \in Tagged(d), x \in {TypeKey, ValueKey} : p = Append(r, x)
        BY DEF TagPaths
      <4>2. p # <<>> /\ Parent(p) = r
        BY <1>1, <4>1, TagPathsAreNew
      <4> QED
        BY <1>4, <4>2 DEF Listless
    <3> QED
      BY <1>14, <3>1 DEF Listless
  <2>2. ASSUME NEW p \in Listless(d)
        PROVE  p \in Listless(w)
    <3>1. ASSUME p # <<>>, IsTag(w, Parent(p))
          PROVE  FALSE
      <4>1. p \in DOMAIN d /\ ~IsTag(d, Parent(p))
        BY <3>1 DEF Listless
      <4>2. d[Parent(p)].k \in {"seq", "map"}
        BY <3>1, <4>1 DEF IsTree
      <4>3. Parent(p) \in Tagged(d)
        BY <1>5, <3>1, <4>1
      <4> QED
        BY <1>7, <4>2, <4>3
    <3> QED
      BY <1>2, <3>1 DEF Listless
  <2> QED
    BY <2>1, <2>2
<1> QED
  BY <1>5, <1>11, <1>12, <1>13, <1>14, <1>15, <1>16 DEF w, e

(* A dictionary that looks like a tag and does not fit is not written.     *)
LEMMA MistaggedIsRefused ==
  ASSUME NEW d, IsTree(d), \A p \in DOMAIN d : IsPlistItem(d[p]), LooksMistagged(d)
  PROVE  PlistWritten(Each(WithTags(d), GoToTerraformLeaf)) = Rejected
<1> DEFINE w == Each(WithTags(d), GoToTerraformLeaf)
           t == Untagged(w)
           u == Each(t, TerraformToGoLeaf)
<1>1. PICK p : IsTag(d, p) /\ TryUnpack(d, p) = Misfit
  BY DEF LooksMistagged
<1>2. p \in Listless(w) /\ IsTag(w, p) /\ TryUnpack(w, p) = Misfit
  BY <1>1, DocumentTags
<1>3. DOMAIN t = Listless(w) /\ \A q \in Listless(w) : t[q] = IF IsTag(w, q) THEN TryUnpack(w, q) ELSE w[q]
  BY DEF Untagged, Listless
<1>4. DOMAIN u = DOMAIN t /\ \A q \in DOMAIN t : u[q] = Shaped(t[q], TerraformToGoLeaf(t[q]))
  BY EachOne
<1>5. TerraformValueToGo(w, TRUE) =
        IF Deeper(u, MaxDepth["dataformat"]) \/ \E q \in DOMAIN u : u[q] = Misfit THEN Rejected ELSE u
  BY DEF TerraformValueToGo
<1> HIDE DEF w, t, u
<1>6. Shaped(Misfit, TerraformToGoLeaf(Misfit)) = Misfit
  BY TagFields DEF Shaped, TerraformToGoLeaf
<1>7. p \in DOMAIN u /\ u[p] = Misfit
  BY <1>2, <1>3, <1>4, <1>6
<1>8. TerraformValueToGo(w, TRUE) = Rejected
  BY <1>5, <1>7
<1>9. Each(Rejected, PreparePlistLeaf) = Rejected /\ Each(Rejected, PlistTextLeaf) = Rejected
  BY NothingStays
<1> QED
  BY <1>8, <1>9 DEF PlistWritten, w

(* A property list that is read is written as it was, but for what the     *)
(* conversions are known to change.                                        *)
LEMMA DocumentReturns ==
  ASSUME NEW d, IsTree(d), \A p \in DOMAIN d : IsPlistItem(d[p]),
         GoToTerraformValue(d, TRUE) # Rejected
  PROVE  PlistWritten(GoToTerraformValue(d, TRUE)) =
           IF LooksMistagged(d) THEN Rejected
           ELSE Each(Untagged(Each(d, AsReadLeaf)), PlistTextLeaf)
<1> DEFINE w == Each(WithTags(d), GoToTerraformLeaf)
           t == Untagged(w)
           u == Each(t, TerraformToGoLeaf)
           m == Each(u, PreparePlistLeaf)
           s == Each(m, PlistTextLeaf)
           e == Each(d, AsReadLeaf)
           o == Untagged(e)
           r == Each(o, PlistTextLeaf)
<1>1. GoToTerraformValue(d, TRUE) = w /\ ~Deeper(d, MaxDepth["dataformat"])
  BY DEF GoToTerraformValue
<1>2. CASE LooksMistagged(d)
  BY <1>1, <1>2, MistaggedIsRefused
<1>3. ASSUME ~LooksMistagged(d)
      PROVE  PlistWritten(w) = r
  <2>1. /\ \A p \in DOMAIN d : ReadItem(d[p])
        /\ \A p \in DOMAIN d : IsTag(d, p) => TryUnpack(d, p) # Misfit
    BY <1>3, PlistItemIsRead DEF LooksMistagged
  <2>2. TerraformValueToGo(w, TRUE) = u /\ \A p \in DOMAIN u : u[p] # Misfit
    BY <1>1, <2>1, ReadIsWritten
  <2>3. PlistWritten(w) = s
    BY <2>2 DEF PlistWritten
  <2>4. /\ Listless(w) = Listless(d) /\ Listless(e) = Listless(d)
        /\ \A p : IsTag(d, p) => /\ p \in Listless(d) \ Tagged(d)
                                 /\ IsTag(w, p) /\ TryUnpack(w, p) = TryUnpack(d, p)
                                 /\ IsTag(e, p) /\ TryUnpack(e, p) = TryUnpack(d, p)
        /\ \A p : IsTag(w, p) => p \in Tagged(d) \/ IsTag(d, p)
        /\ \A p : IsTag(e, p) => IsTag(d, p)
    BY DocumentTags
  <2>5. /\ DOMAIN w = DOMAIN d \cup TagPaths(d) /\ Known(w)
        /\ \A p \in DOMAIN d \ Tagged(d) : w[p] = Shaped(d[p], GoToTerraformLeaf(d[p]))
    BY <2>1, TagsRead
  <2>6. \A p \in Tagged(d) :
          /\ IsTag(w, p)
          /\ TryUnpack(w, p) = IF d[p].k = "num" THEN Real(Near(d[p].n)) ELSE Respelt(d[p])
    BY <2>1, TagsStandForWhatWasRead
  <2>7. DOMAIN t = Listless(w) /\ \A p \in Listless(w) : t[p] = IF IsTag(w, p) THEN TryUnpack(w, p) ELSE w[p]
    BY DEF Untagged, Listless
  <2>8. DOMAIN u = DOMAIN t /\ \A p \in DOMAIN t : u[p] = Shaped(t[p], TerraformToGoLeaf(t[p]))
    <3> HIDE DEF w, t, m, s, e, o, r
    <3> QED
      BY EachOne
  <2>9. DOMAIN m = DOMAIN u /\ \A p \in DOMAIN u : m[p] = Shaped(u[p], PreparePlistLeaf(u[p]))
    <3> HIDE DEF w, t, u, s, e, o, r
    <3> QED
      BY EachOne
  <2>10. DOMAIN s = DOMAIN m /\ \A p \in DOMAIN m : s[p] = Shaped(m[p], PlistTextLeaf(m[p]))
    <3> HIDE DEF w, t, u, m, e, o, r
    <3> QED
      BY EachOne
  <2>11. DOMAIN e = DOMAIN d /\ \A p \in DOMAIN d : e[p] = Shaped(d[p], AsReadLeaf(d[p]))
    <3> HIDE DEF w, t, u, m, s, o, r
    <3> QED
      BY EachOne
  <2>12. DOMAIN o = Listless(e) /\ \A p \in Listless(e) : o[p] = IF IsTag(e, p) THEN TryUnpack(e, p) ELSE e[p]
    <3> HIDE DEF w, t, u, m, s, e, r
    <3> QED
      BY DEF Untagged, Listless
  <2>13. DOMAIN r = DOMAIN o /\ \A p \in DOMAIN o : r[p] = Shaped(o[p], PlistTextLeaf(o[p]))
    <3> HIDE DEF w, t, u, m, s, e, o
    <3> QED
      BY EachOne
  <2>14. s = [p \in DOMAIN s |-> s[p]] /\ r = [p \in DOMAIN r |-> r[p]]
    <3> HIDE DEF m, o
    <3>1. \A f : LET x == Each(f, PlistTextLeaf) IN x = [p \in DOMAIN x |-> x[p]]
      BY DEF Each
    <3> QED
      BY <3>1
  <2> HIDE DEF w, t, u, m, s, e, o, r
  <2>15. Listless(d) \subseteq DOMAIN d
    BY DEF Listless
  <2>16. DOMAIN s = Listless(d) /\ DOMAIN r = Listless(d)
    BY <2>4, <2>7, <2>8, <2>9, <2>10, <2>12, <2>13
  <2>17. ASSUME NEW p \in Listless(d), ~IsTag(w, p)
         PROVE  s[p] = r[p]
    <3> DEFINE x == Shaped(d[p], GoToTerraformLeaf(d[p]))
               a == Shaped(x, TerraformToGoLeaf(x))
               b == Shaped(a, PreparePlistLeaf(a))
               y == Shaped(b, PlistTextLeaf(b))
               z == Shaped(d[p], AsReadLeaf(d[p]))
    <3>1. p \in DOMAIN d \ Tagged(d) /\ IsPlistItem(d[p]) /\ ~Taggable(d[p])
      BY <2>6, <2>15, <2>17 DEF Tagged
    <3>2. y = Shaped(z, PlistTextLeaf(z))
      BY <3>1, PlistItemReturns
    <3>3. t[p] = x
      BY <2>4, <2>5, <2>7, <2>17, <3>1
    <3> HIDE DEF x
    <3>4. u[p] = a
      BY <2>4, <2>7, <2>8, <3>3
    <3> HIDE DEF a
    <3>5. m[p] = b
      BY <2>4, <2>7, <2>8, <2>9, <3>4
    <3> HIDE DEF b
    <3>6. s[p] = y
      BY <2>4, <2>7, <2>8, <2>9, <2>10, <3>5
    <3> HIDE DEF y
    <3>7. ~IsTag(e, p)
      BY <2>4, <2>17
    <3>8. o[p] = z
      BY <2>4, <2>11, <2>12, <3>1, <3>7
    <3> HIDE DEF z
    <3>9. r[p] = Shaped(z, PlistTextLeaf(z))
      BY <2>4, <2>12, <2>13, <3>8
    <3> QED
      BY <3>2, <3>6, <3>9
  <2>18. ASSUME NEW p \in Listless(d), IsTag(w, p)
         PROVE  s[p] = TagRead(w, p) /\ TryUnpack(w, p) # Misfit
    <3> DEFINE x == TryUnpack(w, p)
               a == Shaped(x, TerraformToGoLeaf(x))
               b == Shaped(a, PreparePlistLeaf(a))
               y == Shaped(b, PlistTextLeaf(b))
    <3>1. t[p] = x
      BY <2>4, <2>7, <2>18
    <3>2. u[p] = a /\ a # Misfit
      BY <2>2, <2>4, <2>7, <2>8, <3>1
    <3>3. y = TagRead(w, p) /\ x # Misfit
      BY <2>5, <2>18, <3>2, TagConverted
    <3>4. m[p] = b
      <4> HIDE DEF a
      <4> QED
        BY <2>4, <2>7, <2>8, <2>9, <3>2
    <3>5. s[p] = y
      <4> HIDE DEF b
      <4> QED
        BY <2>4, <2>7, <2>8, <2>9, <2>10, <3>4
    <3> HIDE DEF y
    <3> QED
      BY <3>3, <3>5
  <2>19. \A x : x.k \in {"date", "data"} => Shaped(x, PlistTextLeaf(x)) = x
    BY DEF Shaped, PlistTextLeaf
  <2>20. ASSUME NEW p, IsTag(d, p)
         PROVE  s[p] = r[p]
    <3> DEFINE g == TryUnpack(d, p)
    <3>1. /\ p \in Listless(d) /\ IsTag(w, p) /\ TryUnpack(w, p) = g
          /\ IsTag(e, p) /\ TryUnpack(e, p) = g
      BY <2>4, <2>20
    <3>2. s[p] = TagRead(w, p) /\ g # Misfit
      BY <2>18, <3>1
    <3>3. s[p] = IF g.k = "real" THEN Go("float", g.n) ELSE g
      BY <3>1, <3>2 DEF TagRead
    <3>4. r[p] = Shaped(g, PlistTextLeaf(g))
      BY <2>4, <2>12, <2>13, <3>1
    <3>5. g.k \in {"date", "data", "real"}
      <4> DEFINE text == d[Append(p, ValueKey)]
      <4>1. \/ g = Opaque("date", text.s) \/ g = Opaque("data", text.s)
            \/ g = Real(Near(text.n)) \/ g = Misfit
        BY TagStandsFor
      <4>2. /\ \A k, z : Opaque(k, z).k = k
            /\ \A n : Real(n).k = "real"
        BY TagFields
      <4>3. g # Misfit
        BY <3>2
      <4> HIDE DEF g, text
      <4> QED
        BY <4>1, <4>2, <4>3
    <3> HIDE DEF g
    <3> QED
      BY <3>3, <3>4, <3>5 DEF Shaped, PlistTextLeaf
  <2>21. ASSUME NEW p \in Tagged(d), p \in Listless(d)
         PROVE  s[p] = r[p]
    <3> DEFINE g == d[p]
               x == TryUnpack(w, p)
    <3>1. /\ p \in DOMAIN d /\ Taggable(g) /\ IsPlistItem(g) /\ IsTag(w, p)
          /\ x = IF g.k = "num" THEN Real(Near(g.n)) ELSE Respelt(g)
      BY <2>6 DEF Tagged
    <3>2. s[p] = TagRead(w, p)
      BY <2>18, <2>21, <3>1
    <3>3. s[p] = IF x.k = "real" THEN Go("float", x.n) ELSE x
      BY <3>2 DEF TagRead
    <3>4. r[p] = Shaped(e[p], PlistTextLeaf(e[p])) /\ e[p] = Shaped(g, AsReadLeaf(g))
      <4>1. ~IsTag(e, p)
        BY <2>4
      <4> QED
        BY <2>4, <2>11, <2>12, <2>13, <2>21, <3>1, <4>1
    <3> HIDE DEF g, x
    <3>5. CASE g.k \in {"date", "data"}
      <4>1. Respelt(g).k = g.k
        BY RespeltIs
      <4>2. s[p] = Respelt(g)
        BY <3>1, <3>3, <3>5, <4>1
      <4>3. e[p] = Respelt(g)
        BY <3>4, <3>5 DEF Shaped, AsReadLeaf
      <4> QED
        BY <2>19, <3>4, <3>5, <4>1, <4>2, <4>3
    <3>6. CASE g.k = "num" /\ g.as = "float"
      <4>1. Near(g.n) = g.n /\ g = Go("float", g.n)
        <5>1. /\ \A z : Truth(z).k # "num" /\ Opaque("date", z).k # "num" /\ Opaque("data", z).k # "num"
              /\ Sequence("tuple").k # "num" /\ Mapping("object").k # "num"
          BY KindFields DEF Opaque, Item
        <5>2. \A n : Go("int64", n).as # "float" /\ Go("uint64", n).as # "float"
          BY GoFields
        <5> QED
          BY <3>1, <3>6, <5>1, <5>2 DEF IsPlistItem
      <4>2. Real(g.n).k = "real" /\ Real(g.n).n = g.n
        BY DEF Real, Item
      <4>3. s[p] = Go("float", g.n)
        BY <3>1, <3>3, <3>6, <4>1, <4>2
      <4>4. e[p] = g /\ Shaped(g, PlistTextLeaf(g)) = g
        BY <3>4, <3>6 DEF Shaped, AsReadLeaf, PlistTextLeaf
      <4> QED
        BY <3>4, <4>1, <4>3, <4>4, Zenon
    <3> QED
      BY <3>1, <3>5, <3>6 DEF Taggable
  <2>22. \A p \in Listless(d) : s[p] = r[p]
    BY <2>4, <2>17, <2>20, <2>21
  <2>23. s = r
    BY <2>14, <2>16, <2>22
  <2> QED
    BY <2>3, <2>23
<1> QED
  BY <1>1, <1>2, <1>3


-----------------------------------------------------------------------------
(* The chain of calls                                                      *)

(* Readable, of what the library was handed.                               *)
ReadableFrom(f, v, s) ==
  CASE f \in {"jmespath_query", "jsonpath_query", "jsonata_query", "jq", "json_patch"} ->
         ~Deeper(v, MaxDepth["transform"])
    [] f \in {"hujsondecode", "ndjsondecode", "cbordecode", "msgpackdecode"} ->
         TerraformValueToGo(v, FALSE) # Rejected
    [] f = "plistdecode" ->
         \/ TerraformValueToGo(v, TRUE) # Rejected
         \/ \E p \in DOMAIN s : IsTag(s, p) /\ TryUnpack(s, p) = Misfit
    [] f = "jwt_decode" -> TerraformToGoJSON(v) # Rejected
    [] f = "typst" -> AttrToGo(v) # Rejected
    [] OTHER -> TRUE

(* What a call that answers has done.                                      *)
HasAnswered(f, s, r) ==
  /\ Known(r) /\ IsTree(r) /\ ReadableFrom(f, r, s)
  /\ \A o : \A n \in Nat :
       Terraform(o) /\ ~RoundsPast(o) /\ InsideBy(o, value, n) =>
         /\ InsideBy(o, s, n) \/ (f = "oelevaluate" /\ WholePast(o))
         /\ InsideBy(o, r, n) \/ InsideBy(o, r, n + 1)

(* The value is known after the first call, and the first value is inside  *)
(* it under as many lists as there were calls, or fewer.                   *)
ValuesInv ==
  /\ edge \in Int /\ calls \in 0 .. MaxCalls
  /\ (read = "none" /\ origin \in Given) \/ (read = "plist" /\ origin \in Documents)
  /\ reply = "done" => Terraform(value)
  /\ calls = 0 =>
       /\ sight = Nothing /\ last = "none"
       /\ read = "none" => value = origin
       /\ read = "plist" => value = GoToTerraformValue(origin, TRUE)
  /\ read = "none" /\ reply = "done" /\ ~RoundsPast(origin) =>
       /\ \E n \in 0 .. calls : InsideBy(origin, value, n)
       /\ sight = Nothing \/ Inside(origin, sight)
          \/ (last = "oelevaluate" /\ WholePast(origin))
  /\ Open(origin) /\ calls > 0 => reply = "unknown" /\ sight = Nothing
  /\ reply = "done" => ReadableFrom(last, value, sight)

LEMMA GivenIsTerraform ==
  /\ \A v \in Given : Terraform(v)
  /\ \A d \in Documents : /\ IsTree(d) /\ ~Open(d)
                          /\ \A p \in DOMAIN d : IsPlistItem(d[p]) /\ ReadItem(d[p])
BY ValuesAssumption, PlistItemIsRead DEF Terraform, Open

LEMMA ValuesBegin == ValuesInit => ValuesInv
<1> SUFFICES ASSUME ValuesInit
             PROVE  ValuesInv
  OBVIOUS
<1>1. sight = Nothing /\ last = "none" /\ calls = 0 /\ calls \in 0 .. MaxCalls
  BY ValuesAssumption DEF ValuesInit
<1>2. edge \in Int
  BY TopIs DEF ValuesInit
<1>3. ReadableFrom(last, value, sight)
  BY <1>1 DEF ReadableFrom
<1>4. CASE origin \in Given /\ read = "none" /\ value = origin /\ reply = "done"
  <2>1. Terraform(origin)
    BY <1>4, GivenIsTerraform
  <2>2. InsideBy(origin, value, 0) /\ 0 \in 0 .. calls
    BY <1>1, <1>4, <2>1, InsideItself
  <2> QED
    BY <1>1, <1>2, <1>3, <1>4, <2>1, <2>2 DEF ValuesInv
<1>5. CASE /\ origin \in Documents /\ read = "plist"
           /\ value = GoToTerraformValue(origin, TRUE)
           /\ reply = IF value = Rejected THEN "refused" ELSE "done"
  <2>1. reply = "done" => Terraform(value)
    <3> SUFFICES ASSUME value # Rejected
                 PROVE  Terraform(value)
      BY <1>5
    <3>1. value = Each(WithTags(origin), GoToTerraformLeaf)
      BY <1>5 DEF GoToTerraformValue
    <3>2. IsTree(origin) /\ \A p \in DOMAIN origin : ReadItem(origin[p])
      BY <1>5, GivenIsTerraform
    <3>3. IsTree(value) /\ Known(value)
      BY <3>1, <3>2, TagsRead
    <3> QED
      BY <3>3 DEF Terraform, Known, KnownItem
  <2>2. read = "plist" /\ read # "none" /\ ~(calls > 0)
    BY <1>1, <1>5
  <2>3. value = GoToTerraformValue(origin, TRUE) /\ origin \in Documents
    BY <1>5
  <2> QED
    BY <1>1, <1>2, <1>3, <2>1, <2>2, <2>3, Zenon DEF ValuesInv
<1> QED
  BY <1>4, <1>5 DEF ValuesInit

(* A call of any function.                                                 *)
LEMMA CallKeepsInv ==
  ASSUME ValuesInv, NEW f, NEW s, NEW r, Deliver(f, s, r),
         ~HasUnknown(value) /\ s # Rejected /\ r # Rejected => HasAnswered(f, s, r)
  PROVE  ValuesInv'
<1>1. /\ reply = "done" /\ calls < MaxCalls /\ calls \in Nat /\ edge \in Int
      /\ calls' = calls + 1 /\ last' = f
      /\ origin' = origin /\ read' = read /\ edge' = edge /\ Terraform(value)
  BY DEF Deliver, ValuesInv
<1>2. calls' \in 0 .. MaxCalls /\ calls' # 0 /\ calls' > 0
  BY <1>1, ValuesAssumption
<1>3. (read' = "none" /\ origin' \in Given) \/ (read' = "plist" /\ origin' \in Documents)
  BY <1>1 DEF ValuesInv
<1>4. Open(origin) => HasUnknown(value)
  <2> SUFFICES ASSUME Open(origin)
               PROVE  HasUnknown(value)
    OBVIOUS
  <2>1. calls = 0
    BY <1>1 DEF ValuesInv
  <2>2. read = "none" /\ origin \in Given
    BY GivenIsTerraform DEF ValuesInv
  <2>3. value = origin
    BY <2>1, <2>2 DEF ValuesInv
  <2> QED
    BY <1>1, <2>3, OpenIsFound
<1>5. CASE HasUnknown(value)
  <2>1. reply' = "unknown" /\ sight' = Nothing
    BY <1>5 DEF Deliver
  <2> QED
    BY <1>1, <1>2, <1>3, <2>1 DEF ValuesInv
<1>6. CASE ~HasUnknown(value) /\ Rejected \in {s, r}
  <2>1. reply' = "refused"
    BY <1>6 DEF Deliver
  <2> QED
    BY <1>1, <1>2, <1>3, <1>4, <1>6, <2>1 DEF ValuesInv
<1>7. CASE ~HasUnknown(value) /\ Rejected \notin {s, r}
  <2>1. value' = r /\ reply' = "done" /\ sight' = s
    BY <1>7 DEF Deliver
  <2>2. HasAnswered(f, s, r)
    BY <1>7
  <2>3. Terraform(value')
    BY <2>1, <2>2 DEF HasAnswered, Terraform, Known, KnownItem
  <2>4. ReadableFrom(last', value', sight')
    BY <1>1, <2>1, <2>2 DEF HasAnswered
  <2>5. ASSUME read = "none", ~RoundsPast(origin)
        PROVE  /\ \E n \in 0 .. calls' : InsideBy(origin, r, n)
               /\ Inside(origin, s) \/ (f = "oelevaluate" /\ WholePast(origin))
    <3>1. Terraform(origin)
      BY <2>5, GivenIsTerraform DEF ValuesInv
    <3>2. PICK n \in 0 .. calls : InsideBy(origin, value, n)
      BY <1>1, <2>5 DEF ValuesInv
    <3>3. n \in Nat /\ n \in 0 .. calls' /\ n + 1 \in 0 .. calls' /\ n \in 0 .. MaxCalls
      <4>1. MaxCalls \in Nat
        BY ValuesAssumption
      <4> QED
        BY <1>1, <1>2, <4>1
    <3>4. /\ InsideBy(origin, s, n) \/ (f = "oelevaluate" /\ WholePast(origin))
          /\ InsideBy(origin, r, n) \/ InsideBy(origin, r, n + 1)
      BY <2>2, <2>5, <3>1, <3>2, <3>3 DEF HasAnswered
    <3>5. InsideBy(origin, s, n) => Inside(origin, s)
      BY <3>3 DEF Inside
    <3> QED
      BY <3>3, <3>4, <3>5
  <2>6. ~Open(origin)
    BY <1>4, <1>7
  <2> QED
    BY <1>1, <1>2, <1>3, <2>1, <2>3, <2>4, <2>5, <2>6 DEF ValuesInv
<1> QED
  BY <1>5, <1>6, <1>7

(* A call that carries a value which can be read has answered.             *)
LEMMA CarriedIsAnswered ==
  /\ \A f, s, r : Carried(value, s, r) /\ ReadableFrom(f, r, s) => HasAnswered(f, s, r)
  /\ \A f, s, r : /\ f \in {"jmespath_query", "jsonpath_query", "jsonata_query", "jq", "json_patch"}
                  /\ ~Deeper(r, MaxDepth["transform"])
                  => ReadableFrom(f, r, s)
  /\ \A f, s, r : /\ f \in {"hujsondecode", "ndjsondecode", "cbordecode", "msgpackdecode"}
                  /\ TerraformValueToGo(r, FALSE) # Rejected
                  => ReadableFrom(f, r, s)
<1>1. \A f, s, r : Carried(value, s, r) /\ ReadableFrom(f, r, s) => HasAnswered(f, s, r)
  BY DEF Carried, HasAnswered
<1>2. \A f, s, r : /\ f \in {"jmespath_query", "jsonpath_query", "jsonata_query", "jq", "json_patch"}
                  /\ ~Deeper(r, MaxDepth["transform"])
                  => ReadableFrom(f, r, s)
  BY DEF ReadableFrom
<1>3. \A f, s, r : /\ f \in {"hujsondecode", "ndjsondecode", "cbordecode", "msgpackdecode"}
                  /\ TerraformValueToGo(r, FALSE) # Rejected
                  => ReadableFrom(f, r, s)
  BY DEF ReadableFrom
<1> QED
  BY <1>1, <1>2, <1>3

LEMMA CallsKeepInv == ValuesInv /\ ValuesNext => ValuesInv'
<1> SUFFICES ASSUME ValuesInv, ValuesNext
             PROVE  ValuesInv'
  OBVIOUS
<1>1. edge \in Int
  BY DEF ValuesInv
<1>2. ASSUME NEW f, NEW s, NEW r, Deliver(f, s, r), ~HasUnknown(value)
      PROVE  Known(value) /\ IsTree(value)
  <2>1. Terraform(value)
    BY <1>2 DEF Deliver, ValuesInv
  <2> QED
    BY <1>2, <2>1, KnownOrOpen
<1>3. CASE JMESPathQuery
  <2> DEFINE s == Each(TerraformToJSON(value), NormalizeForJMESPathLeaf)
             r == JSONToTerraform(s)
  <2>1. Deliver("jmespath_query", s, r)
    BY <1>3 DEF JMESPathQuery
  <2>2. ASSUME ~HasUnknown(value), s # Rejected, r # Rejected
        PROVE  HasAnswered("jmespath_query", s, r)
    <3>1. Known(value) /\ IsTree(value)
      BY <1>2, <2>1, <2>2
    <3>2. Carried(value, s, r) /\ ~Deeper(r, MaxDepth["transform"])
      BY <1>1, <2>2, <3>1, JMESCarries
    <3> HIDE DEF s, r
    <3> QED
      BY <3>2, CarriedIsAnswered
  <2> HIDE DEF s, r
  <2> QED
    BY <2>1, <2>2, CallKeepsInv
<1>4. CASE JSONPathQuery
  <2> DEFINE s == TerraformToJSON(value)
             r == JSONToTerraform(InList(s))
  <2>1. Deliver("jsonpath_query", s, r)
    BY <1>4 DEF JSONPathQuery
  <2>2. ASSUME ~HasUnknown(value), s # Rejected, r # Rejected
        PROVE  HasAnswered("jsonpath_query", s, r)
    <3>1. Known(value) /\ IsTree(value)
      BY <1>2, <2>1, <2>2
    <3>2. Carried(value, s, r) /\ ~Deeper(r, MaxDepth["transform"])
      BY <1>1, <2>2, <3>1, JSONPathCarries
    <3> HIDE DEF s, r
    <3> QED
      BY <3>2, CarriedIsAnswered
  <2> HIDE DEF s, r
  <2> QED
    BY <2>1, <2>2, CallKeepsInv
<1>5. CASE JSONataQuery
  <2> DEFINE s == TerraformToJSON(value)
             r == JSONToTerraform(s)
  <2>1. Deliver("jsonata_query", s, r)
    BY <1>5 DEF JSONataQuery
  <2>2. ASSUME ~HasUnknown(value), s # Rejected, r # Rejected
        PROVE  HasAnswered("jsonata_query", s, r)
    <3>1. Known(value) /\ IsTree(value)
      BY <1>2, <2>1, <2>2
    <3>2. Carried(value, s, r) /\ ~Deeper(r, MaxDepth["transform"])
      BY <1>1, <2>2, <3>1, JSONataCarries
    <3> HIDE DEF s, r
    <3> QED
      BY <3>2, CarriedIsAnswered
  <2> HIDE DEF s, r
  <2> QED
    BY <2>1, <2>2, CallKeepsInv
<1>6. CASE JqQuery
  <2> DEFINE s == Each(TerraformToJSON(value), NormalizeForGojqLeaf)
             r == JSONToTerraform(InList(NormalizeFromGojq(s)))
  <2>1. Deliver("jq", s, r)
    BY <1>6 DEF JqQuery
  <2>2. ASSUME ~HasUnknown(value), s # Rejected, r # Rejected
        PROVE  HasAnswered("jq", s, r)
    <3>1. Known(value) /\ IsTree(value)
      BY <1>2, <2>1, <2>2
    <3>2. Carried(value, s, r) /\ ~Deeper(r, MaxDepth["transform"])
      BY <1>1, <2>2, <3>1, JqCarries
    <3> HIDE DEF s, r
    <3> QED
      BY <3>2, CarriedIsAnswered
  <2> HIDE DEF s, r
  <2> QED
    BY <2>1, <2>2, CallKeepsInv
<1>7. CASE JSONPatch
  <2> DEFINE s == TerraformToJSON(value)
             r == JSONToTerraform(s)
  <2>1. Deliver("json_patch", s, r)
    BY <1>7 DEF JSONPatch
  <2>2. ASSUME ~HasUnknown(value), s # Rejected, r # Rejected
        PROVE  HasAnswered("json_patch", s, r)
    <3>1. Known(value) /\ IsTree(value)
      BY <1>2, <2>1, <2>2
    <3>2. Carried(value, s, r) /\ ~Deeper(r, MaxDepth["transform"])
      BY <1>1, <2>2, <3>1, JSONataCarries
    <3> HIDE DEF s, r
    <3> QED
      BY <3>2, CarriedIsAnswered
  <2> HIDE DEF s, r
  <2> QED
    BY <2>1, <2>2, CallKeepsInv
<1>8. CASE JSONEncodeDecode
  <2> DEFINE s == JSONWritten(value)
             r == GoToTerraformValue(s, FALSE)
  <2>1. Deliver("hujsondecode", s, r)
    BY <1>8 DEF JSONEncodeDecode
  <2>2. ASSUME ~HasUnknown(value), s # Rejected, r # Rejected
        PROVE  HasAnswered("hujsondecode", s, r)
    <3>1. Known(value) /\ IsTree(value)
      BY <1>2, <2>1, <2>2
    <3>2. r = Each(s, GoToTerraformLeaf)
      BY <2>2, GoRead
    <3>3. Carried(value, s, r) /\ TerraformValueToGo(r, FALSE) # Rejected
      BY <1>1, <2>2, <3>1, <3>2, JSONTextCarries
    <3> HIDE DEF s, r
    <3> QED
      BY <3>3, CarriedIsAnswered
  <2> HIDE DEF s, r
  <2> QED
    BY <2>1, <2>2, CallKeepsInv
<1>9. CASE NDJSONEncodeDecode
  <2> DEFINE s == NDJSONWritten(value)
             r == GoSliceToTuple(s)
  <2>1. Deliver("ndjsondecode", s, r)
    BY <1>9 DEF NDJSONEncodeDecode
  <2>2. ASSUME ~HasUnknown(value), s # Rejected, r # Rejected
        PROVE  HasAnswered("ndjsondecode", s, r)
    <3>1. Known(value) /\ IsTree(value)
      BY <1>2, <2>1, <2>2
    <3>2. r = Each(s, GoToTerraformLeaf) /\ s = JSONWritten(value)
      BY <2>2 DEF GoSliceToTuple, NDJSONWritten
    <3>3. Carried(value, s, r) /\ TerraformValueToGo(r, FALSE) # Rejected
      BY <1>1, <2>2, <3>1, <3>2, JSONTextCarries
    <3> HIDE DEF s, r
    <3> QED
      BY <3>3, CarriedIsAnswered
  <2> HIDE DEF s, r
  <2> QED
    BY <2>1, <2>2, CallKeepsInv
<1>10. CASE CBOREncodeDecode
  <2> DEFINE s == BinaryWritten(value)
             r == CBORDecode(s)
  <2>1. Deliver("cbordecode", s, r)
    BY <1>10 DEF CBOREncodeDecode
  <2>2. ASSUME ~HasUnknown(value), s # Rejected, r # Rejected
        PROVE  HasAnswered("cbordecode", s, r)
    <3>1. Known(value) /\ IsTree(value)
      BY <1>2, <2>1, <2>2
    <3>2. r = Each(s, GoToTerraformLeaf)
      <4>1. r = GoToTerraformValue(s, FALSE)
        BY <2>2 DEF CBORDecode
      <4> QED
        BY <2>2, <4>1, GoRead
    <3>3. Carried(value, s, r) /\ TerraformValueToGo(r, FALSE) # Rejected
      BY <1>1, <2>2, <3>1, <3>2, BinaryCarries
    <3> HIDE DEF s, r
    <3> QED
      BY <3>3, CarriedIsAnswered
  <2> HIDE DEF s, r
  <2> QED
    BY <2>1, <2>2, CallKeepsInv
<1>11. CASE MsgpackEncodeDecode
  <2> DEFINE s == MsgpackWritten(value)
             r == GoToTerraformValue(s, FALSE)
  <2>1. Deliver("msgpackdecode", s, r)
    BY <1>11 DEF MsgpackEncodeDecode
  <2>2. ASSUME ~HasUnknown(value), s # Rejected, r # Rejected
        PROVE  HasAnswered("msgpackdecode", s, r)
    <3>1. Known(value) /\ IsTree(value)
      BY <1>2, <2>1, <2>2
    <3>2. r = Each(s, GoToTerraformLeaf) /\ s = BinaryWritten(value)
      BY <2>2, GoRead DEF MsgpackWritten
    <3>3. Carried(value, s, r) /\ TerraformValueToGo(r, FALSE) # Rejected
      BY <1>1, <2>2, <3>1, <3>2, BinaryCarries
    <3> HIDE DEF s, r
    <3> QED
      BY <3>3, CarriedIsAnswered
  <2> HIDE DEF s, r
  <2> QED
    BY <2>1, <2>2, CallKeepsInv
<1>12. CASE PlistEncodeDecode
  <2> DEFINE s == PlistWritten(value)
             r == GoToTerraformValue(s, TRUE)
  <2>1. Deliver("plistdecode", s, r)
    BY <1>12 DEF PlistEncodeDecode
  <2>2. ASSUME ~HasUnknown(value), s # Rejected, r # Rejected
        PROVE  HasAnswered("plistdecode", s, r)
    <3>1. Known(value) /\ IsTree(value)
      BY <1>2, <2>1, <2>2
    <3>2. /\ Carried(value, s, r)
          /\ TerraformValueToGo(r, TRUE) # Rejected
             \/ \E p \in DOMAIN s : IsTag(s, p) /\ TryUnpack(s, p) = Misfit
      BY <1>1, <2>2, <3>1, PlistCarries
    <3> HIDE DEF s, r
    <3>3. ReadableFrom("plistdecode", r, s)
      BY <3>2 DEF ReadableFrom
    <3> QED
      BY <3>2, <3>3, CarriedIsAnswered
  <2> HIDE DEF s, r
  <2> QED
    BY <2>1, <2>2, CallKeepsInv
<1>13. CASE JWTSignDecode
  <2> DEFINE s == IF value[<<>>].k = "map" THEN TerraformToGoJSON(value) ELSE Rejected
             r == GoJSONToTerraform(s)
  <2>1. Deliver("jwt_decode", s, r)
    BY <1>13 DEF JWTSignDecode
  <2>2. ASSUME ~HasUnknown(value), s # Rejected, r # Rejected
        PROVE  HasAnswered("jwt_decode", s, r)
    <3>1. Known(value) /\ IsTree(value)
      BY <1>2, <2>1, <2>2
    <3>2. s = TerraformToGoJSON(value)
      BY <2>2
    <3>3. Carried(value, s, r) /\ TerraformToGoJSON(r) # Rejected
      BY <2>2, <3>1, <3>2, JWTCarries
    <3> HIDE DEF s, r
    <3>4. ReadableFrom("jwt_decode", r, s)
      BY <3>3 DEF ReadableFrom
    <3> QED
      BY <3>3, <3>4, CarriedIsAnswered
  <2> HIDE DEF s, r
  <2> QED
    BY <2>1, <2>2, CallKeepsInv
<1>14. CASE TypstInputs
  <2> DEFINE s == AttrToGo(value)
             r == value
  <2>1. Deliver("typst", s, r)
    BY <1>14 DEF TypstInputs
  <2>2. ASSUME ~HasUnknown(value), s # Rejected, r # Rejected
        PROVE  HasAnswered("typst", s, r)
    <3>1. Known(value) /\ IsTree(value)
      BY <1>2, <2>1, <2>2
    <3>2. Carried(value, s, value)
      BY <2>2, <3>1, TypstSees
    <3>3. ReadableFrom("typst", value, s)
      BY <2>2 DEF ReadableFrom
    <3> HIDE DEF s
    <3> QED
      BY <3>2, <3>3, CarriedIsAnswered
  <2> HIDE DEF s, r
  <2> QED
    BY <2>1, <2>2, CallKeepsInv
<1>15. CASE PolicyContext
  <2> DEFINE s == ToGoValue(value)
             r == value
  <2>1. Deliver("oelevaluate", s, r)
    BY <1>15 DEF PolicyContext
  <2>2. ASSUME ~HasUnknown(value), s # Rejected, r # Rejected
        PROVE  HasAnswered("oelevaluate", s, r)
    <3>1. Known(value) /\ IsTree(value)
      BY <1>2, <2>1, <2>2
    <3>2. \A o : \A i \in Nat :
            Terraform(o) /\ ~RoundsPast(o) /\ InsideBy(o, value, i) =>
              InsideBy(o, s, i) \/ WholePast(o)
      BY <3>1, PolicySees
    <3>3. ReadableFrom("oelevaluate", value, s)
      BY DEF ReadableFrom
    <3> HIDE DEF s
    <3> QED
      BY <3>1, <3>2, <3>3 DEF HasAnswered
  <2> HIDE DEF s, r
  <2> QED
    BY <2>1, <2>2, CallKeepsInv
<1> QED
  BY <1>3, <1>4, <1>5, <1>6, <1>7, <1>8, <1>9, <1>10, <1>11, <1>12, <1>13, <1>14, <1>15 DEF ValuesNext

LEMMA ValuesInductive == ValuesSpec => []ValuesInv
<1>1. ValuesInit => ValuesInv
  BY ValuesBegin
<1>2. ValuesInv /\ [ValuesNext]_valuesVars => ValuesInv'
  <2> SUFFICES ASSUME ValuesInv, UNCHANGED valuesVars
               PROVE  ValuesInv'
    BY CallsKeepInv
  <2> QED
    BY DEF ValuesInv, Inside, valuesVars
<1> QED
  BY <1>1, <1>2, PTL DEF ValuesSpec

(* Whatever values are given and however many calls follow, a value and    *)
(* what each library saw of it keep their shape and their scalars, and no  *)
(* number was rounded twice.                                               *)
THEOREM ValuesRoundOnce == ValuesSpec => []RoundedAtMostOnce
<1>1. ValuesInv => RoundedAtMostOnce
  <2> SUFFICES ASSUME ValuesInv, read = "none", reply = "done", ~RoundsPast(origin)
               PROVE  /\ Inside(origin, value)
                      /\ sight = Nothing \/ Inside(origin, sight)
                         \/ (last = "oelevaluate" /\ WholePast(origin))
    BY DEF RoundedAtMostOnce
  <2>1. PICK n \in 0 .. calls : InsideBy(origin, value, n)
    BY DEF ValuesInv
  <2>2. n \in 0 .. MaxCalls
    BY ValuesAssumption DEF ValuesInv
  <2>3. Inside(origin, value)
    BY <2>1, <2>2 DEF Inside
  <2> QED
    BY <2>3 DEF ValuesInv
<1> QED
  BY <1>1, ValuesInductive, PTL

(* A value with something unknown inside it, at any depth, reaches no      *)
(* library.                                                                *)
THEOREM UnknownsStayUnknown == ValuesSpec => []UnknownNeverConcrete
<1>1. ValuesInv => UnknownNeverConcrete
  BY DEF ValuesInv, UnknownNeverConcrete
<1> QED
  BY <1>1, ValuesInductive, PTL

(* What a family returns it reads: no limit of one direction is another in *)
(* the other direction.                                                    *)
THEOREM ReturnedIsRead == ValuesSpec => []ReturnedIsReadable
<1>1. ValuesInv => ReturnedIsReadable
  BY DEF ValuesInv, ReturnedIsReadable, Readable, ReadableFrom
<1> QED
  BY <1>1, ValuesInductive, PTL

(* Every property list comes back, its dates to the second and what looks  *)
(* like a tag as what that stands for, and it is refused exactly when such *)
(* a dictionary does not fit.                                              *)
THEOREM PlistsReturn == ValuesSpec => []PlistDocumentReturns
<1>1. ValuesInv => PlistDocumentReturns
  <2> SUFFICES ASSUME ValuesInv, read = "plist", reply = "done", calls = 0
               PROVE  PlistWritten(value) =
                        IF LooksMistagged(origin) THEN Rejected
                        ELSE Each(Untagged(Each(origin, AsReadLeaf)), PlistTextLeaf)
    BY DEF PlistDocumentReturns
  <2>1. origin \in Documents /\ value = GoToTerraformValue(origin, TRUE)
    BY DEF ValuesInv
  <2>2. IsTree(origin) /\ \A p \in DOMAIN origin : IsPlistItem(origin[p])
    BY <2>1, GivenIsTerraform
  <2>3. value # Rejected
    BY NothingStays DEF ValuesInv, Terraform
  <2> QED
    BY <2>1, <2>2, <2>3, DocumentReturns
<1> QED
  BY <1>1, ValuesInductive, PTL
-----------------------------------------------------------------------------
(* The families side by side                                               *)

(* At the start one family is about to run and the others are idle.        *)
LEMMA OneStarts ==
  ASSUME PureInit
  PROVE  /\ (chain = "values" /\ ValuesInit) \/ (chain # "values" /\ ValuesIdle)
         /\ (chain = "languages" /\ LanguagesInit) \/ (chain # "languages" /\ LanguagesIdle)
         /\ (chain = "tokens" /\ JoseInit) \/ (chain # "tokens" /\ JoseIdle)
         /\ (chain = "words" /\ Rfc1751Init) \/ (chain # "words" /\ Rfc1751Idle)
         /\ (chain = "der" /\ Asn1Init) \/ (chain # "der" /\ Asn1Idle)
         /\ (chain = "indices" /\ NumericsInit) \/ (chain # "indices" /\ NumericsIdle)
         /\ (chain = "options" /\ Init) \/ (chain # "options" /\ OptionsIdle)
<1>1. ASSUME chain = "values", ValuesInitial
      PROVE  /\ ValuesInit
             /\ LanguagesIdle /\ JoseIdle /\ Rfc1751Idle /\ Asn1Idle /\ NumericsIdle /\ OptionsIdle
  BY <1>1 DEF ValuesInitial
<1>2. ASSUME chain = "languages", LanguagesInitial
      PROVE  /\ LanguagesInit
             /\ ValuesIdle /\ JoseIdle /\ Rfc1751Idle /\ Asn1Idle /\ NumericsIdle /\ OptionsIdle
  BY <1>2 DEF LanguagesInitial
<1>3. ASSUME chain = "tokens", JoseInitial
      PROVE  /\ JoseInit
             /\ ValuesIdle /\ LanguagesIdle /\ Rfc1751Idle /\ Asn1Idle /\ NumericsIdle /\ OptionsIdle
  BY <1>3 DEF JoseInitial
<1>4. ASSUME chain = "words", Rfc1751Initial
      PROVE  /\ Rfc1751Init
             /\ ValuesIdle /\ LanguagesIdle /\ JoseIdle /\ Asn1Idle /\ NumericsIdle /\ OptionsIdle
  BY <1>4 DEF Rfc1751Initial
<1>5. ASSUME chain = "der", Asn1Initial
      PROVE  /\ Asn1Init
             /\ ValuesIdle /\ LanguagesIdle /\ JoseIdle /\ Rfc1751Idle /\ NumericsIdle /\ OptionsIdle
  BY <1>5 DEF Asn1Initial
<1>6. ASSUME chain = "indices", NumericsInitial
      PROVE  /\ NumericsInit
             /\ ValuesIdle /\ LanguagesIdle /\ JoseIdle /\ Rfc1751Idle /\ Asn1Idle /\ OptionsIdle
  BY <1>6 DEF NumericsInitial
<1>7. ASSUME chain = "options", OptionsInitial
      PROVE  /\ Init
             /\ ValuesIdle /\ LanguagesIdle /\ JoseIdle /\ Rfc1751Idle /\ Asn1Idle /\ NumericsIdle
  BY <1>7 DEF OptionsInitial
<1> QED
  BY <1>1, <1>2, <1>3, <1>4, <1>5, <1>6, <1>7, Zenon DEF PureInit

(* A step is one of the family that runs, and the others keep still.       *)
LEMMA OneRuns ==
  ASSUME [PureNext]_pureVars
  PROVE  /\ chain' = chain
         /\ IF chain = "values" THEN [ValuesNext]_valuesVars ELSE UNCHANGED valuesVars
         /\ IF chain = "languages" THEN [LanguagesNext]_languagesVars ELSE UNCHANGED languagesVars
         /\ IF chain = "tokens" THEN [JoseNext]_joseVars ELSE UNCHANGED joseVars
         /\ IF chain = "words" THEN [Rfc1751Next]_rfc1751Vars ELSE UNCHANGED rfc1751Vars
         /\ IF chain = "der" THEN [Asn1Next]_asn1Vars ELSE UNCHANGED asn1Vars
         /\ IF chain = "indices" THEN [NumericsNext]_numericsVars ELSE UNCHANGED numericsVars
         /\ IF chain = "options" THEN [Next]_vars ELSE UNCHANGED vars
<1>1. ASSUME Converts
      PROVE  /\ chain = "values" /\ chain' = chain /\ ValuesNext
             /\ UNCHANGED languagesVars /\ UNCHANGED joseVars /\ UNCHANGED rfc1751Vars /\ UNCHANGED asn1Vars /\ UNCHANGED numericsVars /\ UNCHANGED vars
  BY <1>1 DEF Converts
<1>2. ASSUME Edits
      PROVE  /\ chain = "languages" /\ chain' = chain /\ LanguagesNext
             /\ UNCHANGED valuesVars /\ UNCHANGED joseVars /\ UNCHANGED rfc1751Vars /\ UNCHANGED asn1Vars /\ UNCHANGED numericsVars /\ UNCHANGED vars
  BY <1>2 DEF Edits
<1>3. ASSUME Signs
      PROVE  /\ chain = "tokens" /\ chain' = chain /\ JoseNext
             /\ UNCHANGED valuesVars /\ UNCHANGED languagesVars /\ UNCHANGED rfc1751Vars /\ UNCHANGED asn1Vars /\ UNCHANGED numericsVars /\ UNCHANGED vars
  BY <1>3 DEF Signs
<1>4. ASSUME WritesDown
      PROVE  /\ chain = "words" /\ chain' = chain /\ Rfc1751Next
             /\ UNCHANGED valuesVars /\ UNCHANGED languagesVars /\ UNCHANGED joseVars /\ UNCHANGED asn1Vars /\ UNCHANGED numericsVars /\ UNCHANGED vars
  BY <1>4 DEF WritesDown
<1>5. ASSUME Walks
      PROVE  /\ chain = "der" /\ chain' = chain /\ Asn1Next
             /\ UNCHANGED valuesVars /\ UNCHANGED languagesVars /\ UNCHANGED joseVars /\ UNCHANGED rfc1751Vars /\ UNCHANGED numericsVars /\ UNCHANGED vars
  BY <1>5 DEF Walks
<1>6. ASSUME WrapsAround
      PROVE  /\ chain = "indices" /\ chain' = chain /\ NumericsNext
             /\ UNCHANGED valuesVars /\ UNCHANGED languagesVars /\ UNCHANGED joseVars /\ UNCHANGED rfc1751Vars /\ UNCHANGED asn1Vars /\ UNCHANGED vars
  BY <1>6 DEF WrapsAround
<1>7. ASSUME Evaluates
      PROVE  /\ chain = "options" /\ chain' = chain /\ Next
             /\ UNCHANGED valuesVars /\ UNCHANGED languagesVars /\ UNCHANGED joseVars /\ UNCHANGED rfc1751Vars /\ UNCHANGED asn1Vars /\ UNCHANGED numericsVars
  BY <1>7 DEF Evaluates
<1>8. ASSUME UNCHANGED pureVars
      PROVE  /\ chain' = chain
             /\ UNCHANGED valuesVars /\ UNCHANGED languagesVars /\ UNCHANGED joseVars /\ UNCHANGED rfc1751Vars /\ UNCHANGED asn1Vars /\ UNCHANGED numericsVars /\ UNCHANGED vars
  BY <1>8 DEF pureVars
<1> QED
  BY <1>1, <1>2, <1>3, <1>4, <1>5, <1>6, <1>7, <1>8 DEF PureNext

(* So each family either runs as its own specification says or stays idle. *)
LEMMA ValuesApart == PureSpec => ValuesSpec \/ []ValuesIdle
<1>1. PureInit => (chain = "values" /\ ValuesInit) \/ (chain # "values" /\ ValuesIdle)
  BY OneStarts
<1>2. chain = "values" /\ [PureNext]_pureVars => (chain = "values")' /\ [ValuesNext]_valuesVars
  BY OneRuns
<1>3. chain # "values" /\ ValuesIdle /\ [PureNext]_pureVars => (chain # "values")' /\ ValuesIdle'
  <2>1. chain # "values" /\ [PureNext]_pureVars => chain' = chain /\ UNCHANGED valuesVars
    BY OneRuns
  <2> QED
    BY <2>1 DEF ValuesIdle, valuesVars
<1> QED
  BY <1>1, <1>2, <1>3, PTL DEF PureSpec, ValuesSpec

LEMMA LanguagesApart == PureSpec => LanguagesSpec \/ []LanguagesIdle
<1>1. PureInit => (chain = "languages" /\ LanguagesInit) \/ (chain # "languages" /\ LanguagesIdle)
  BY OneStarts
<1>2. chain = "languages" /\ [PureNext]_pureVars => (chain = "languages")' /\ [LanguagesNext]_languagesVars
  BY OneRuns
<1>3. chain # "languages" /\ LanguagesIdle /\ [PureNext]_pureVars => (chain # "languages")' /\ LanguagesIdle'
  <2>1. chain # "languages" /\ [PureNext]_pureVars => chain' = chain /\ UNCHANGED languagesVars
    BY OneRuns
  <2> QED
    BY <2>1 DEF LanguagesIdle, languagesVars
<1> QED
  BY <1>1, <1>2, <1>3, PTL DEF PureSpec, LanguagesSpec

LEMMA JoseApart == PureSpec => JoseSpec \/ []JoseIdle
<1>1. PureInit => (chain = "tokens" /\ JoseInit) \/ (chain # "tokens" /\ JoseIdle)
  BY OneStarts
<1>2. chain = "tokens" /\ [PureNext]_pureVars => (chain = "tokens")' /\ [JoseNext]_joseVars
  BY OneRuns
<1>3. chain # "tokens" /\ JoseIdle /\ [PureNext]_pureVars => (chain # "tokens")' /\ JoseIdle'
  <2>1. chain # "tokens" /\ [PureNext]_pureVars => chain' = chain /\ UNCHANGED joseVars
    BY OneRuns
  <2> QED
    BY <2>1 DEF JoseIdle, joseVars
<1> QED
  BY <1>1, <1>2, <1>3, PTL DEF PureSpec, JoseSpec

LEMMA Rfc1751Apart == PureSpec => Rfc1751Spec \/ []Rfc1751Idle
<1>1. PureInit => (chain = "words" /\ Rfc1751Init) \/ (chain # "words" /\ Rfc1751Idle)
  BY OneStarts
<1>2. chain = "words" /\ [PureNext]_pureVars => (chain = "words")' /\ [Rfc1751Next]_rfc1751Vars
  BY OneRuns
<1>3. chain # "words" /\ Rfc1751Idle /\ [PureNext]_pureVars => (chain # "words")' /\ Rfc1751Idle'
  <2>1. chain # "words" /\ [PureNext]_pureVars => chain' = chain /\ UNCHANGED rfc1751Vars
    BY OneRuns
  <2> QED
    BY <2>1 DEF Rfc1751Idle, rfc1751Vars
<1> QED
  BY <1>1, <1>2, <1>3, PTL DEF PureSpec, Rfc1751Spec

LEMMA Asn1Apart == PureSpec => Asn1Spec \/ []Asn1Idle
<1>1. PureInit => (chain = "der" /\ Asn1Init) \/ (chain # "der" /\ Asn1Idle)
  BY OneStarts
<1>2. chain = "der" /\ [PureNext]_pureVars => (chain = "der")' /\ [Asn1Next]_asn1Vars
  BY OneRuns
<1>3. chain # "der" /\ Asn1Idle /\ [PureNext]_pureVars => (chain # "der")' /\ Asn1Idle'
  <2>1. chain # "der" /\ [PureNext]_pureVars => chain' = chain /\ UNCHANGED asn1Vars
    BY OneRuns
  <2> QED
    BY <2>1 DEF Asn1Idle, asn1Vars
<1> QED
  BY <1>1, <1>2, <1>3, PTL DEF PureSpec, Asn1Spec

LEMMA NumericsApart == PureSpec => NumericsSpec \/ []NumericsIdle
<1>1. PureInit => (chain = "indices" /\ NumericsInit) \/ (chain # "indices" /\ NumericsIdle)
  BY OneStarts
<1>2. chain = "indices" /\ [PureNext]_pureVars => (chain = "indices")' /\ [NumericsNext]_numericsVars
  BY OneRuns
<1>3. chain # "indices" /\ NumericsIdle /\ [PureNext]_pureVars => (chain # "indices")' /\ NumericsIdle'
  <2>1. chain # "indices" /\ [PureNext]_pureVars => chain' = chain /\ UNCHANGED numericsVars
    BY OneRuns
  <2> QED
    BY <2>1 DEF NumericsIdle, numericsVars
<1> QED
  BY <1>1, <1>2, <1>3, PTL DEF PureSpec, NumericsSpec

LEMMA OptionsApart == PureSpec => Spec \/ []OptionsIdle
<1>1. PureInit => (chain = "options" /\ Init) \/ (chain # "options" /\ OptionsIdle)
  BY OneStarts
<1>2. chain = "options" /\ [PureNext]_pureVars => (chain = "options")' /\ [Next]_vars
  BY OneRuns
<1>3. chain # "options" /\ OptionsIdle /\ [PureNext]_pureVars => (chain # "options")' /\ OptionsIdle'
  <2>1. chain # "options" /\ [PureNext]_pureVars => chain' = chain /\ UNCHANGED vars
    BY OneRuns
  <2> QED
    BY <2>1 DEF OptionsIdle, vars
<1> QED
  BY <1>1, <1>2, <1>3, PTL DEF PureSpec, Spec

(* The families of PureSpec do not meddle with each other: what holds of a *)
(* family by itself, the properties of the languages included, holds of    *)
(* the provider's pure functions together.                                 *)
THEOREM FamiliesRunApart ==
  PureSpec => /\ ValuesSpec \/ []ValuesIdle
              /\ LanguagesSpec \/ []LanguagesIdle
              /\ JoseSpec \/ []JoseIdle
              /\ Rfc1751Spec \/ []Rfc1751Idle
              /\ Asn1Spec \/ []Asn1Idle
              /\ NumericsSpec \/ []NumericsIdle
              /\ Spec \/ []OptionsIdle
  BY ValuesApart, LanguagesApart, JoseApart, Rfc1751Apart, Asn1Apart, NumericsApart, OptionsApart, PTL

(* An idle family has nothing to answer for.                               *)
LEMMA IdleIsSafe ==
  /\ ValuesIdle => RoundedAtMostOnce /\ UnknownNeverConcrete /\ ReturnedIsReadable /\ PlistDocumentReturns
  /\ JoseIdle => ValidExactlyWhenSigned /\ JWKVerifiesTheSame
  /\ Rfc1751Idle => KeyRestoredOrNoticed
  /\ Asn1Idle => WholeTreeWithinLimits
  /\ NumericsIdle => WrapsAddUp
  /\ OptionsIdle => KnownPlanIsFinal /\ RefusalIsFinal
<1>1. ASSUME ValuesIdle
      PROVE  RoundedAtMostOnce /\ UnknownNeverConcrete /\ ReturnedIsReadable /\ PlistDocumentReturns
  <2>1. /\ origin = Just(Null) /\ value = origin /\ sight = Nothing /\ calls = 0
        /\ read = "none" /\ last = "none"
    BY <1>1 DEF ValuesIdle
  <2>2. Terraform(origin)
    <3>1. DOMAIN origin = {<<>>} /\ origin[<<>>] = Null
      BY <2>1 DEF Just
    <3>2. <<>> \in Seq(KeyNames)
      OBVIOUS
    <3>3. IsTerraformItem(Null)
      BY DEF IsTerraformItem, IsItem, Null, Item
    <3> QED
      BY <3>1, <3>2, <3>3 DEF Terraform, IsTree
  <2>3. InsideBy(origin, value, 0) /\ 0 \in 0 .. MaxCalls
    BY <2>1, <2>2, InsideItself, ValuesAssumption
  <2>4. RoundedAtMostOnce
    BY <2>1, <2>3 DEF RoundedAtMostOnce, Inside
  <2>5. UnknownNeverConcrete
    BY <2>1 DEF UnknownNeverConcrete
  <2>6. ReturnedIsReadable
    BY <2>1 DEF ReturnedIsReadable, Readable
  <2>7. PlistDocumentReturns
    BY <2>1 DEF PlistDocumentReturns
  <2> QED
    BY <2>4, <2>5, <2>6, <2>7
<1>2. JoseIdle => ValidExactlyWhenSigned /\ JWKVerifiesTheSame
  BY DEF JoseIdle, ValidExactlyWhenSigned, JWKVerifiesTheSame
<1>3. Rfc1751Idle => KeyRestoredOrNoticed
  BY DEF Rfc1751Idle, KeyRestoredOrNoticed, NoBytes
<1>4. Asn1Idle => WholeTreeWithinLimits
  BY DEF Asn1Idle, WholeTreeWithinLimits
<1>5. NumericsIdle => WrapsAddUp
  BY DEF NumericsIdle, WrapsAddUp
<1>6. OptionsIdle => KnownPlanIsFinal /\ RefusalIsFinal
  <2>1. OptionsIdle => answer["plan"].kind = "none" /\ answer["apply"].kind = "none"
    BY DEF OptionsIdle, NoAnswer
  <2> QED
    BY <2>1 DEF KnownPlanIsFinal, RefusalIsFinal
<1> QED
  BY <1>1, <1>2, <1>3, <1>4, <1>5, <1>6

(* The invariants of the run `functions` hold of the families together, as *)
(* that run has them: for any constants, and an honest table of options.   *)
THEOREM PureFunctionsAreSafe ==
  HonestTable /\ PureSpec =>
    [](/\ RoundedAtMostOnce /\ UnknownNeverConcrete /\ ReturnedIsReadable /\ PlistDocumentReturns
       /\ ValidExactlyWhenSigned /\ JWKVerifiesTheSame /\ KeyRestoredOrNoticed
       /\ WholeTreeWithinLimits /\ WrapsAddUp /\ KnownPlanIsFinal /\ RefusalIsFinal)
<1>1. ValuesSpec => [](RoundedAtMostOnce /\ UnknownNeverConcrete /\ ReturnedIsReadable /\ PlistDocumentReturns)
  BY ValuesRoundOnce, UnknownsStayUnknown, ReturnedIsRead, PlistsReturn, PTL
<1>2. JoseSpec => [](ValidExactlyWhenSigned /\ JWKVerifiesTheSame)
  BY TokensAreValidAsSigned, JWKsVerifyTheSame, PTL
<1>3. HonestTable /\ Spec => [](KnownPlanIsFinal /\ RefusalIsFinal)
  BY PlansAreFinal, RefusalsAreFinal, PTL
<1>4. /\ ValuesIdle => RoundedAtMostOnce /\ UnknownNeverConcrete /\ ReturnedIsReadable /\ PlistDocumentReturns
      /\ JoseIdle => ValidExactlyWhenSigned /\ JWKVerifiesTheSame
      /\ Rfc1751Idle => KeyRestoredOrNoticed
      /\ Asn1Idle => WholeTreeWithinLimits
      /\ NumericsIdle => WrapsAddUp
      /\ OptionsIdle => KnownPlanIsFinal /\ RefusalIsFinal
  BY IdleIsSafe
<1> QED
  BY <1>1, <1>2, <1>3, <1>4, FamiliesRunApart, KeysComeBackOrSlipsShow, WholeTreesWithinLimits,
     WrappedAsAdded, PTL
=============================================================================
