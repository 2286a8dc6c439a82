-------------------------------- MODULE Srp6 --------------------------------
(***************************************************************************)
(* The SRP6 arithmetic of crates/wow-srp/src/lib.rs, scaled down: a number *)
(* is stored in Width digits of base Base (32 bytes in the code), N has    *)
(* exactly Width digits. SHA1 of some parts is the tuple of the parts (no  *)
(* collisions) where it is only compared, and a constant operator where it *)
(* is used as a number. One account, one username.                         *)
(***************************************************************************)
EXTENDS Integers, Sequences, SequencesExt

CONSTANTS Base, Width, N, g,
          Passwords, Salts,
          Secrets,          \* the private numbers a and b
          HashX(_, _),      \* SHA1(salt, SHA1(username : password)), as a number
          HashU(_, _)       \* SHA1(A, B), as a number

\* What a one in digit i (from zero) stands for: Base to the power of i.
Place[i \in Nat] == IF i = 0 THEN 1 ELSE Base * Place[i - 1]

ASSUME SrpAssumption ==
    /\ Base \in Nat /\ Base > 1
    /\ Width \in Nat /\ Width > 0 /\ Width % 2 = 0
    /\ N \in Nat /\ Place[Width - 1] <= N /\ N < Place[Width]
    /\ g \in 1..(N - 1)
    /\ \E h \in 1..(N - 1) : (g * h) % N = 1   \* as N is prime
    /\ Secrets \subseteq Nat
    /\ \A s \in Salts, p \in Passwords : HashX(s, p) \in Nat
    /\ \A A, B \in 0..(N - 1) : HashU(A, B) \in Nat

VARIABLES
    pc,        \* where the account and its login are
    account,   \* the row: salt and verifier, or <<>>
    password,  \* the password it was created with (history)
    server,    \* WowSRPServer: b and b_pub, or <<>>
    client,    \* what the client sent and holds, or <<>>
    answer     \* ConnectToken::accept's result: server proof and key, or <<>>

vars == <<pc, account, password, server, client, answer>>

-----------------------------------------------------------------------------
(* Numbers.                                                                *)

\* BigUint::modpow.
ModPow(x, e) ==
    LET f[i \in Nat] == IF i = 0 THEN 1
                        ELSE LET h == f[i \div 2]
                             IN  (h * h * (IF i % 2 = 1 THEN x % N ELSE 1)) % N
    IN f[e]

\* to_bytes_le() drops the leading zeros: only a number with a top digit has
\* Width of them, and try_into().expect("correct size") passes.
CorrectSize(n) == n >= Place[Width - 1]

Digits(n) == [i \in 1..Width |-> (n \div Place[i - 1]) % Base]

Half(s, odd) == [i \in 1..(Width \div 2) |-> s[2 * i - (IF odd THEN 0 ELSE 1)]]

\* The interleaved key of two hashed halves, of what they are from `start` on.
KeyFrom(s, start) ==
    [left |-> SubSeq(Half(s, FALSE), start + 1, Width \div 2),
     right |-> SubSeq(Half(s, TRUE), start + 1, Width \div 2)]

\* The position of the first digit that is not zero, counted from one (i + 1 in
\* the code), or Width.
FirstSet(s) == IF \A i \in 1..Width : s[i] = 0 THEN Width
               ELSE CHOOSE i \in 1..Width : s[i] # 0 /\ \A j \in 1..(i - 1) : s[j] = 0

\* Mutant: the position is counted from zero.
DeriveSessionKeyM(n) == KeyFrom(Digits(n), (FirstSet(Digits(n)) - 1) \div 2)

DeriveSessionKey(n) == KeyFrom(Digits(n), FirstSet(Digits(n)) \div 2)

\* The interleave as the client has it (external): skip the leading zero digits,
\* and one more if their number is odd.
ReferenceKey(n) ==
    LET zeros == CHOOSE z \in 0..Width :
                    /\ \A i \in 1..z : Digits(n)[i] = 0
                    /\ z < Width => Digits(n)[z + 1] # 0
    IN KeyFrom(Digits(n), (IF zeros % 2 = 1 THEN zeros + 1 ELSE zeros) \div 2)

-----------------------------------------------------------------------------
Number == 0..(N - 1)
Keys == [left : Seq(0..(Base - 1)), right : Seq(0..(Base - 1))]

TypeOK ==
    /\ pc \in {"new", "registered", "challenged", "answered",
               "accepted", "refused", "noVerifier", "noChallenge", "noKey"}
    /\ account = <<>> \/ account \in [salt : Salts, verifier : Number]
    /\ password \in Passwords
    /\ server = <<>> \/ server \in [b : Secrets, b_pub : Number]
    /\ client = <<>> \/ /\ DOMAIN client = {"typed", "a_pub", "key", "proof"}
                        /\ client.typed \in Passwords
                        /\ client.a_pub \in Number
                        /\ client.key \in Keys
    /\ answer = <<>> \/ (DOMAIN answer = {"proof", "key"} /\ answer.key \in Keys)
    /\ pc \in {"challenged", "answered"} => CorrectSize(server.b_pub)

Init ==
    /\ pc = "new"
    /\ account = <<>> /\ password \in Passwords
    /\ server = <<>> /\ client = <<>> /\ answer = <<>>

\* Verifier::from_credentials. A panic leaves no account; another try draws
\* another salt.
Register(s) ==
    /\ pc \in {"new", "noVerifier"}
    /\ LET v == ModPow(g, HashX(s, password)) IN
          IF CorrectSize(v)
          THEN account' = [salt |-> s, verifier |-> v] /\ pc' = "registered"
          ELSE pc' = "noVerifier" /\ UNCHANGED account
    /\ UNCHANGED <<password, server, client, answer>>

\* Mutant: the sum is not reduced.
CalculateBPubM(b, v) == ModPow(g, b) + v * 3
CalculateBPub(b, v) == (ModPow(g, b) + v * 3) % N

\* initiate_login: a new WowSRPServer; whatever became of the last one is gone.
NewServer(b) ==
    /\ pc \notin {"new", "noVerifier", "challenged", "answered"}
    /\ LET B == CalculateBPub(b, account.verifier) IN
          IF CorrectSize(B)
          THEN server' = [b |-> b, b_pub |-> B] /\ pc' = "challenged"
          ELSE server' = <<>> /\ pc' = "noChallenge"
    /\ client' = <<>> /\ answer' = <<>>
    /\ UNCHANGED <<account, password>>

\* SHA1 of N xor g, the identity, the salt, A, B and the key.
ProofOf(salt, A, B, key) == <<"M1", salt, A, B, key>>

\* get_server_proof. Mutant: the challenge's public number instead of the client's.
GetServerProofM(a_pub, client_proof, key) == <<"M2", server.b_pub, client_proof, key>>
GetServerProof(a_pub, client_proof, key) == <<"M2", a_pub, client_proof, key>>

\* The client (external) computes its side of SRP6 from what the user typed.
ClientSecret(a, A, typed) ==
    LET x == HashX(account.salt, typed)
        u == HashU(A, server.b_pub)
    IN  ModPow(server.b_pub + 3 * (N - ModPow(g, x)), a + u * x)

ClientAnswers(a, typed) ==
    /\ pc = "challenged"
    /\ LET A == ModPow(g, a)
           key == ReferenceKey(ClientSecret(a, A, typed))
       IN client' = [typed |-> typed, a_pub |-> A, key |-> key,
                     proof |-> ProofOf(account.salt, A, server.b_pub, key)]
    /\ pc' = "answered"
    /\ UNCHANGED <<account, password, server, answer>>

\* The premaster secret of verify_challenge_response.
PremasterSecret(A) ==
    ModPow(A * ModPow(account.verifier, HashU(A, server.b_pub)), server.b)

\* ConnectToken::accept with the public number that arrives.
Accept(A) ==
    /\ pc = "answered"
    /\ LET S == PremasterSecret(A)
           key == DeriveSessionKey(S)
       IN \/ A % N = 0 /\ pc' = "refused" /\ UNCHANGED answer
          \/ A % N # 0 /\ ~CorrectSize(S) /\ pc' = "noKey" /\ UNCHANGED answer
          \/ /\ A % N # 0 /\ CorrectSize(S)
             /\ IF client.proof = ProofOf(account.salt, A, server.b_pub, key)
                THEN /\ answer' = [proof |-> GetServerProof(A, client.proof, key),
                                   key |-> key]
                     /\ pc' = "accepted"
                ELSE pc' = "refused" /\ UNCHANGED answer
    /\ UNCHANGED <<account, password, server, client>>

Next ==
    \/ \E s \in Salts : Register(s)
    \/ \E b \in Secrets : NewServer(b)
    \/ \E a \in Secrets, p \in Passwords : ClientAnswers(a, p)
    \/ pc = "answered" /\ Accept(client.a_pub)
    \/ Accept(0)   \* a public number that is a multiple of N

Spec == Init /\ [][Next]_vars

-----------------------------------------------------------------------------
(* Properties.                                                             *)

\* Whoever types the account's password is not told it is incorrect: the two
\* ways to the premaster secret meet, and the code's interleave (its `start`)
\* is the one the client uses, for secrets with any number of leading zeros.
RightPasswordAccepted ==
    [][pc = "answered" /\ Accept(client.a_pub) /\ client.typed = password
          => pc' \in {"accepted", "noKey"}]_vars

\* An accepted client holds the key that will be stored for it, and the proof it
\* is sent is the one it expects.
BothSidesAgree ==
    pc = "accepted" => /\ answer.key = client.key
                       /\ answer.proof = <<"M2", client.a_pub, client.proof, client.key>>

\* The inductive invariant behind both: what the row, the challenge and the
\* client's message were made from.
RowIsVerifier ==
    pc \notin {"new", "noVerifier"} =>
        /\ account \in [salt : Salts, verifier : Number]
        /\ account.verifier = ModPow(g, HashX(account.salt, password))

ChallengeIsOfRow ==
    pc \in {"challenged", "answered"} =>
        /\ server \in [b : Secrets, b_pub : Number]
        /\ server.b_pub = CalculateBPub(server.b, account.verifier)

AnswerIsToChallenge ==
    pc = "answered" =>
        /\ DOMAIN client = {"typed", "a_pub", "key", "proof"} /\ client.typed \in Passwords
        /\ client.proof = ProofOf(account.salt, client.a_pub, server.b_pub, client.key)
        /\ \E a \in Secrets :
              /\ client.a_pub = ModPow(g, a)
              /\ client.key = ReferenceKey(ClientSecret(a, client.a_pub, client.typed))

SrpInv ==
    TypeOK /\ RowIsVerifier /\ ChallengeIsOfRow /\ AnswerIsToChallenge /\ BothSidesAgree

\* register and new return: the number is of the "correct size".
SizesCorrect == pc \notin {"noVerifier", "noChallenge"}
=============================================================================
