-------------------------------- MODULE Jose --------------------------------
(***************************************************************************)
(* jwt_sign, jwt_decode, jwt_verify and the jwk_ functions                 *)
(* (cryptography/jwt.go, jose_crypto.go, jwk.go, util.go).  A signature is *)
(* symbolic: it says what signed what, and the libraries accept it for     *)
(* exactly that.  A key argument is the blocks of a PEM text, in order, or *)
(* a secret; the HMAC algorithms take either as bytes.                     *)
(***************************************************************************)
EXTENDS Integers, Sequences

CONSTANTS
  Materials,   \* the key arguments: PEM texts and secrets
  Algorithms,  \* the algorithms asked for
  Extras,      \* the header fields given as options: functions from names
  Claims,      \* the claims of a token
  Times,       \* what now may be
  MaxChecks    \* bound: verifications of one token

VARIABLES
  material,    \* the key argument of jwt_sign, then of jwt_verify
  algorithm, extra, claims,
  token,       \* the token, or NoToken
  signer,      \* what signed it
  altered,     \* whether it changed on its way
  asked,       \* the options of the latest verification
  verdict,     \* its result: "none", "valid", "invalid" or "error"
  checks       \* bound: verifications made

joseVars == <<material, algorithm, extra, claims, token, signer, altered, asked, verdict, checks>>

NoToken == [header |-> "none"]
NoKey == [kty |-> "none"]
NoJWK == [key |-> NoKey]
Absent == <<"absent">>
Plain(s) == <<"string", s>>
At(n) == <<"number", n>>

(* What an option, a header field or a time claim may be.                  *)
IsField(x) == x = Absent \/ x = Plain(x[2]) \/ (x = At(x[2]) /\ x[2] \in Int)

-----------------------------------------------------------------------------
(* PEM.  A block has a label, the form of its bytes, and a key.            *)

Pem(blocks) == [k |-> "pem", blocks |-> blocks]
Secret(s) == [k |-> "secret", s |-> s]

IsMaterial(m) ==
  IF m.k = "pem"
  THEN m = Pem(m.blocks) /\ m.blocks \in Seq({ m.blocks[i] : i \in DOMAIN m.blocks })
  ELSE m = Secret(m.s)

ASSUME JoseAssumption ==
  /\ \A m \in Materials : IsMaterial(m)
  /\ \A e \in Extras : "alg" \in DOMAIN e => IsField(e["alg"])
  /\ \A c \in Claims : IsField(c.exp) /\ IsField(c.nbf)
  /\ \A t \in Times : IsField(t)

Published == {"PUBLIC KEY", "CERTIFICATE"}
AnyLabel == Published \cup {"PRIVATE KEY", "EC PRIVATE KEY", "RSA PRIVATE KEY"}

FormOf == [label \in AnyLabel |->
            CASE label = "PUBLIC KEY" -> "pkix"
              [] label = "CERTIFICATE" -> "cert"
              [] label = "PRIVATE KEY" -> "pkcs8"
              [] label = "EC PRIVATE KEY" -> "sec1"
              [] label = "RSA PRIVATE KEY" -> "pkcs1"]

(* firstPEMBlockBytes: the first block with a label that is accepted.      *)
FirstBlock(m, accept) ==
  IF m.k = "secret" \/ ~\E i \in DOMAIN m.blocks : m.blocks[i].label \in accept
  THEN [label |-> "none", form |-> "none", key |-> NoKey]
  ELSE m.blocks[CHOOSE i \in DOMAIN m.blocks :
                  /\ m.blocks[i].label \in accept
                  /\ \A j \in 1 .. i - 1 : m.blocks[j].label \notin accept]

(* parseECPrivateKeyPEM, parseEd25519PrivateKeyPEM, parseRSAPrivateKeyPEM. *)
PrivateKeyOf(m, accept, forms, ktys) ==
  LET b == FirstBlock(m, accept)
  IN IF b.form \in forms /\ b.key.kty \in ktys THEN b.key ELSE NoKey

ECPrivateKey(m) ==
  PrivateKeyOf(m, {"PRIVATE KEY", "EC PRIVATE KEY"}, {"pkcs8", "sec1"}, {"P-256", "P-384"})
Ed25519PrivateKey(m) == PrivateKeyOf(m, {"PRIVATE KEY"}, {"pkcs8"}, {"Ed25519"})
RSAPrivateKey(m) ==
  PrivateKeyOf(m, {"PRIVATE KEY", "RSA PRIVATE KEY"}, {"pkcs8", "pkcs1"}, {"RSA"})

(* publicKeyFromPEM: every form is tried, whatever the label.              *)
PublicKey(m, ktys) ==
  LET b == FirstBlock(m, AnyLabel) IN IF b.key.kty \in ktys THEN b.key ELSE NoKey

(* A mutant: a private key goes before what is published.                  *)
PrivateFirst(m) ==
  LET priv == FirstBlock(m, AnyLabel \ Published)
      b == IF priv.form = "none" THEN FirstBlock(m, AnyLabel) ELSE priv
  IN IF b.label \in AnyLabel /\ b.form = FormOf[b.label]
     THEN [key |-> b.key, private |-> b.label \notin Published] ELSE NoJWK

(* parseAnyKeyPEM: the form must be the one of the label.                  *)
AnyKey(m) ==
  LET b == FirstBlock(m, AnyLabel)
  IN IF b.label \in AnyLabel /\ b.form = FormOf[b.label]
     THEN [key |-> b.key, private |-> b.label \notin Published] ELSE NoJWK

(* joseKeyToPEM                                                            *)
KeyToPEM(jwk) ==
  LET label == IF jwk.private THEN "PRIVATE KEY" ELSE "PUBLIC KEY"
  IN Pem(<<[label |-> label, form |-> FormOf[label], key |-> jwk.key]>>)

(* jwk_encode and jwk_decode: the key as an object, and back.              *)
HasJWK(m) == m.k = "pem" /\ AnyKey(m) # NoJWK
JWKEncodeDecode(m) == KeyToPEM(AnyKey(m))

-----------------------------------------------------------------------------
(* jose_crypto.go                                                          *)

HMACs == {"HS256", "HS384", "HS512"}
RSAs == {"RS256", "RS384", "RS512"}

(* jwsAlgHash knows these.                                                 *)
Supported == HMACs \cup RSAs \cup {"ES256", "EdDSA"}

Empty(m) == m = Secret("")

(* signJWS: who signs, or NoKey when the material does not fit.            *)
SignerOf(alg, m) ==
  CASE alg \in HMACs -> IF Empty(m) THEN NoKey ELSE [kty |-> "secret", material |-> m]
    [] alg = "ES256" -> LET key == ECPrivateKey(m) IN IF key.kty = "P-256" THEN key ELSE NoKey
    [] alg = "EdDSA" -> Ed25519PrivateKey(m)
    [] alg \in RSAs -> RSAPrivateKey(m)

Signature(alg, key, input) == [alg |-> alg, key |-> key, input |-> input]

(* verifyJWS.  A P-384 key makes the signature one of the wrong length.    *)
VerifierOf(alg, m) ==
  CASE alg \in HMACs -> SignerOf(alg, m)
    [] alg = "ES256" -> PublicKey(m, {"P-256", "P-384"})
    [] alg = "EdDSA" -> PublicKey(m, {"Ed25519"})
    [] alg \in RSAs -> PublicKey(m, {"RSA"})

VerifyJWS(alg, m, input, sig) ==
  LET key == VerifierOf(alg, m) IN
  CASE key = NoKey -> "error"
    [] key # NoKey /\ sig = Signature(alg, key, input) -> "valid"
    [] OTHER -> "invalid"

-----------------------------------------------------------------------------
(* jwt.go                                                                  *)

(* A mutant: an expired claim is read as one that is not yet valid.        *)
ExpOnly(c, now) ==
  IF c.exp[1] = "string" THEN "error"
  ELSE IF c.exp[1] = "number" /\ now > c.exp[2] THEN "invalid"
  ELSE IF c.nbf[1] = "string" THEN "error"
  ELSE IF c.nbf[1] = "number" /\ now < c.nbf[2] THEN "invalid" ELSE "valid"

(* timeClaimsValid: exp, then nbf; a claim that is no number is an error.  *)
TimeClaimsValid(c, now) ==
  IF c.exp[1] = "string" THEN "error"
  ELSE IF c.exp[1] = "number" /\ now >= c.exp[2] THEN "invalid"
  ELSE IF c.nbf[1] = "string" THEN "error"
  ELSE IF c.nbf[1] = "number" /\ now < c.nbf[2] THEN "invalid" ELSE "valid"

(* The header of a token: the fields given go over the alg.                *)
Header(alg, fields) == [x \in {"alg"} \cup DOMAIN fields |->
                          IF x \in DOMAIN fields THEN fields[x] ELSE Plain(alg)]

Verify(t, m, o) ==
  LET alg == t.header["alg"] IN
  CASE alg[1] # "string" \/ alg[2] \notin Supported -> "error"
    [] alg[1] = "string" /\ alg[2] \in Supported /\ o.algorithm \notin {Absent, alg} ->
         IF o.algorithm[1] = "string" THEN "invalid" ELSE "error"
    [] OTHER ->
         LET sig == VerifyJWS(alg[2], m, <<t.header, t.payload>>, t.sig) IN
         IF o.now[1] = "string" THEN "error"
         ELSE IF sig # "valid" \/ o.now = Absent THEN sig
         ELSE TimeClaimsValid(t.payload, o.now[2])

-----------------------------------------------------------------------------
JoseInit ==
  /\ material \in Materials /\ algorithm \in Algorithms
  /\ extra \in Extras /\ claims \in Claims
  /\ token = NoToken /\ signer = NoKey /\ altered = FALSE
  /\ asked = [algorithm |-> Absent, now |-> Absent] /\ verdict = "none" /\ checks = 0

(* jwt_sign: an algorithm that is not known and a key that does not fit    *)
(* are errors.                                                             *)
JWTSign ==
  /\ token = NoToken /\ algorithm \in Supported
  /\ SignerOf(algorithm, material) # NoKey
  /\ LET key == SignerOf(algorithm, material)  header == Header(algorithm, extra)
     IN /\ token' = [header |-> header, payload |-> claims,
                     sig |-> Signature(algorithm, key, <<header, claims>>)]
        /\ signer' = key
  /\ UNCHANGED <<material, algorithm, extra, claims, altered, asked, verdict, checks>>

(* A token that did not arrive as it was sent.                             *)
Garble ==
  /\ token # NoToken /\ ~altered /\ checks = 0
  /\ \/ \E c \in Claims \ {token.payload} : token' = [token EXCEPT !.payload = c]
     \/ \E e \in Extras : /\ Header(algorithm, e) # token.header
                          /\ token' = [token EXCEPT !.header = Header(algorithm, e)]
  /\ altered' = TRUE
  /\ UNCHANGED <<material, algorithm, extra, claims, signer, asked, verdict, checks>>

(* jwt_verify, with any key and any options.                               *)
JWTVerify ==
  /\ token # NoToken /\ checks < MaxChecks
  /\ material' \in Materials
  /\ asked' \in [algorithm : {Absent, Plain("ES256"), Plain("HS256"), At(0)}, now : Times]
  /\ verdict' = Verify(token, material', asked')
  /\ checks' = checks + 1
  /\ UNCHANGED <<algorithm, extra, claims, token, signer, altered>>

(* jwt_decode reads the claims and leaves the signature alone.             *)
JWTDecode ==
  /\ token # NoToken
  /\ claims' = token.payload
  /\ UNCHANGED <<material, algorithm, extra, token, signer, altered, asked, verdict, checks>>

JoseNext == JWTSign \/ Garble \/ JWTVerify \/ JWTDecode

JoseSpec == JoseInit /\ [][JoseNext]_joseVars

-----------------------------------------------------------------------------
(* Properties.                                                             *)

(* The first key of an argument is key.                                    *)
KeyOf(m, key) ==
  IF key.kty = "secret" THEN m = key.material
  ELSE m.k = "pem" /\ \E i \in DOMAIN m.blocks :
         /\ m.blocks[i].key = key /\ m.blocks[i].label \in AnyLabel
         /\ \A j \in 1 .. i - 1 : m.blocks[j].label \notin AnyLabel

InWindow(c, n) == (c.exp = Absent \/ n < c.exp[2]) /\ (c.nbf = Absent \/ n >= c.nbf[2])

(* A token is valid exactly when it arrived as it was signed, its header   *)
(* names the algorithm it was signed with, and that is the one asked for,  *)
(* the first key of the argument is the signer's, and, when a time is      *)
(* given, the time is within its claims.                                   *)
ValidExactlyWhenSigned ==
  verdict \in {"valid", "invalid"} =>
    (verdict = "valid" <=>
       /\ ~altered /\ KeyOf(material, signer)
       /\ token.header["alg"] = Plain(algorithm)
       /\ asked.algorithm \in {Absent, Plain(algorithm)}
       /\ asked.now = Absent \/ InWindow(token.payload, asked.now[2]))

(* A key that went through a JWK verifies what the PEM text it came from   *)
(* verifies, however many blocks the text has.                             *)
JWKVerifiesTheSame ==
  verdict # "none" /\ HasJWK(material) /\ algorithm \notin HMACs
    /\ token.header["alg"] = Plain(algorithm)
  => Verify(token, JWKEncodeDecode(material), asked) = verdict

(* The invariant behind both: whatever has arrived, its signature still    *)
(* says who signed what, and the latest verdict is about the token and the *)
(* key at hand.                                                            *)
TokenInv ==
  /\ algorithm \in Supported /\ signer # NoKey
  /\ \E m \in Materials : signer = SignerOf(algorithm, m)
  /\ token = [header |-> token.header, payload |-> token.payload, sig |-> token.sig]
  /\ \E e \in Extras : token.header = Header(algorithm, e)
  /\ token.payload \in Claims
  /\ token.sig = Signature(algorithm, signer, token.sig.input)
  /\ altered <=> token.sig.input # <<token.header, token.payload>>

JoseInv ==
  /\ material \in Materials /\ extra \in Extras /\ claims \in Claims
  /\ altered \in BOOLEAN /\ checks \in Nat
  /\ IF token = NoToken THEN ~altered /\ verdict = "none" ELSE TokenInv
  /\ verdict # "none" =>
       /\ checks > 0 /\ IsField(asked.algorithm) /\ asked.now \in Times
       /\ verdict = Verify(token, material, asked)

(* The alg of a header is always the algorithm that signs.                 *)
AlgIsAlgorithm == token # NoToken => token.header["alg"] = Plain(algorithm) \/ altered
=============================================================================
