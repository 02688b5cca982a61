------------------------------ MODULE Identities ------------------------------
(***************************************************************************)
(* Accounts and the ways into them (auth/auth.ts, auth/privyIdentity.ts,   *)
(* api/routes/auth.ts): passwords, wallets proved by a signed nonce, and   *)
(* identities verified by Privy, linked to one account and merged when two *)
(* accounts turn out to be one person's.                                   *)
(*                                                                         *)
(* An action is the code between two awaits: hashing or verifying a        *)
(* password, recovering a signer and asking Privy all give other requests  *)
(* a turn, so what was read before may have changed.  One browser has one  *)
(* request under way.  Expiry of sessions is a logout; what an account     *)
(* owns is its signup credit.                                              *)
(***************************************************************************)
EXTENDS Naturals, FiniteSets

CONSTANTS User, Email, Wallet, Browser, Nobody,
          PrivyEmail, PrivyWallets   \* the one Privy identity's accounts

ASSUME IdentityAssumption ==
  /\ Nobody \notin User \cup Email \cup Wallet
  /\ PrivyEmail \in Email \cup {Nobody} /\ PrivyWallets \subseteq Wallet
  /\ PrivyEmail # Nobody \/ PrivyWallets # {}

VARIABLES user,     \* users
          seed,     \* seed entries in the ledger that an account holds
          privy,    \* privy_identities: whose the identity is
          link,     \* user_wallet_links that are not revoked, by wallet
          nonce,    \* wallet_nonces
          session,  \* sessions: what a browser's cookie says
          request   \* where the browser's request stands

identityVars == <<user, seed, privy, link, nonce, session, request>>

UserRow == [live : BOOLEAN, email : Email \cup {Nobody}, password : BOOLEAN,
            wallet : Wallet \cup {Nobody}]
NoUser == [live |-> FALSE, email |-> Nobody, password |-> FALSE, wallet |-> Nobody]
NoRequest == [pc |-> "idle", user |-> Nobody, email |-> Nobody, wallet |-> Nobody]
RequestRow == [pc : {"idle", "register", "login", "wallet", "linkWallet",
                     "linkEmail", "joinEmail", "privy"},
               user : User \cup {Nobody}, email : Email \cup {Nobody},
               wallet : Wallet \cup {Nobody}]

IdentityTypeOK ==
  /\ user \in [User -> UserRow]
  /\ seed \in [User -> Nat]
  /\ privy \in User \cup {Nobody}
  /\ link \in [Wallet -> User \cup {Nobody}]
  /\ nonce \subseteq Wallet
  /\ session \in [Browser -> User \cup {Nobody}]
  /\ request \in [Browser -> RequestRow]

IdentityInit ==
  /\ user = [u \in User |-> NoUser]
  /\ seed = [u \in User |-> 0]
  /\ privy = Nobody
  /\ link = [w \in Wallet |-> Nobody]
  /\ nonce = {}
  /\ session = [b \in Browser |-> Nobody]
  /\ request = [b \in Browser |-> NoRequest]
-----------------------------------------------------------------------------
(* What the tables say.                                                     *)

Live == {u \in User : user[u].live}
HasEmail(e) == {u \in Live : user[u].email = e}
HasWallet(w) == {u \in Live : user[u].wallet = w}

\* recordWalletLink refuses a wallet that is another account's.
MayRecord(u, w) == link[w] \in {u, Nobody}

\* Ids are never used again.
Unused(u) == ~user[u].live /\ seed[u] = 0

Answer(b) == request' = [request EXCEPT ![b] = NoRequest]

\* The previous cookie's session goes, the new one is the account's.
SignIn(b, u) == session' = [session EXCEPT ![b] = u] /\ Answer(b)

Wait(b, pc, u, e, w) ==
  request' = [request EXCEPT ![b] =
    [pc |-> pc, user |-> u, email |-> e, wallet |-> w]]

\* Any request may be refused, or its client gone, or the process die.
GiveUp(b) ==
  /\ request[b].pc # "idle"
  /\ Answer(b)
  /\ UNCHANGED <<user, seed, privy, link, nonce, session>>

Logout(b) ==
  /\ session[b] # Nobody /\ request[b].pc = "idle"
  /\ session' = [session EXCEPT ![b] = Nobody]
  /\ UNCHANGED <<user, seed, privy, link, nonce, request>>
-----------------------------------------------------------------------------
(* Passwords.                                                               *)

Register(b, e) ==
  /\ request[b].pc = "idle" /\ HasEmail(e) = {}
  /\ Wait(b, "register", Nobody, e, Nobody)
  /\ UNCHANGED <<user, seed, privy, link, nonce, session>>

\* The hash is made: the row's unique email is the second look.
Registered(b, u) ==
  LET e == request[b].email IN
  /\ request[b].pc = "register" /\ HasEmail(e) = {} /\ Unused(u)
  /\ user' = [user EXCEPT ![u] =
       [NoUser EXCEPT !.live = TRUE, !.email = e, !.password = TRUE]]
  /\ seed' = [seed EXCEPT ![u] = 1]
  /\ SignIn(b, u)
  /\ UNCHANGED <<privy, link, nonce>>

Login(b, u) ==
  /\ request[b].pc = "idle"
  /\ u \in Live /\ user[u].email # Nobody /\ user[u].password
  /\ Wait(b, "login", u, Nobody, Nobody)
  /\ UNCHANGED <<user, seed, privy, link, nonce, session>>

\* A session's user must exist when it is written.
LoggedIn(b) ==
  /\ request[b].pc = "login" /\ request[b].user \in Live
  /\ SignIn(b, request[b].user)
  /\ UNCHANGED <<user, seed, privy, link, nonce>>
-----------------------------------------------------------------------------
(* Wallets.                                                                 *)

IssueNonce(w) ==
  /\ w \notin nonce /\ nonce' = nonce \cup {w}
  /\ UNCHANGED <<user, seed, privy, link, session, request>>

\* proveWallet burns the nonce, then recovers the signer.
ProveWallet(b, w, pc) ==
  /\ request[b].pc = "idle" /\ w \in nonce
  /\ pc = "linkWallet" => session[b] # Nobody
  /\ nonce' = nonce \ {w}
  /\ Wait(b, pc, IF pc = "linkWallet" THEN session[b] ELSE Nobody, Nobody, w)
  /\ UNCHANGED <<user, seed, privy, link, session>>

WalletKnown(b) ==
  LET w == request[b].wallet IN
  /\ request[b].pc = "wallet"
  /\ \E u \in HasWallet(w) :
       /\ MayRecord(u, w)
       /\ link' = [link EXCEPT ![w] = u]
       /\ SignIn(b, u)
  /\ UNCHANGED <<user, seed, privy, nonce>>

WalletNew(b, u) ==
  LET w == request[b].wallet IN
  /\ request[b].pc = "wallet" /\ HasWallet(w) = {} /\ Unused(u) /\ MayRecord(u, w)
  /\ user' = [user EXCEPT ![u] = [NoUser EXCEPT !.live = TRUE, !.wallet = w]]
  /\ seed' = [seed EXCEPT ![u] = 1]
  /\ link' = [link EXCEPT ![w] = u]
  /\ SignIn(b, u)
  /\ UNCHANGED <<privy, nonce>>

\* Only an account with a password may let its wallet go.
UnlinkWallet(b) ==
  LET u == session[b] IN
  /\ request[b].pc = "idle" /\ u \in Live
  /\ user[u].email # Nobody /\ user[u].password
  /\ user' = [user EXCEPT ![u].wallet = Nobody]
  /\ link' = [w \in Wallet |->
       IF w = user[u].wallet /\ link[w] = u THEN Nobody ELSE link[w]]
  /\ UNCHANGED <<seed, privy, nonce, session, request>>
-----------------------------------------------------------------------------
(* Merging.                                                                 *)

\* mergeUserInto's refusals: two emails, two wallets, two Privy identities.
MayMerge(from, to) ==
  /\ {from, to} \subseteq Live
  /\ Nobody \in {user[from].email, user[to].email}
  /\ \/ Nobody \in {user[from].wallet, user[to].wallet}
     \/ user[from].wallet = user[to].wallet

\* Mutant of SeedsOf: both credits move.
SeedsOfBoth(from, to) == seed[from] + seed[to]

\* A person has one signup credit; a second one stays with the retired ledger.
SeedsOf(from, to) == IF seed[to] > 0 THEN seed[to] ELSE seed[from]

\* The source's rows move to the target, the source is deleted.
Merge(from, to, wallet) ==
  /\ user' = [user EXCEPT ![to].wallet = wallet, ![from] = NoUser]
  /\ seed' = [seed EXCEPT ![to] = SeedsOf(from, to)]
  /\ privy' = IF privy = from THEN to ELSE privy

Moved(from, to, owner) == [x \in DOMAIN owner |-> IF owner[x] = from THEN to ELSE owner[x]]

\* linkWallet, the wallet free or the account's own: users is written before
\* recordWalletLink, which may refuse, and then the answer is an error.
LinkWallet(b) ==
  LET u == request[b].user
      w == request[b].wallet
  IN
  /\ request[b].pc = "linkWallet"
  /\ u \in Live /\ user[u].wallet \in {Nobody, w} /\ HasWallet(w) \subseteq {u}
  /\ user' = [user EXCEPT ![u].wallet = w]
  /\ IF MayRecord(u, w) THEN link' = [link EXCEPT ![w] = u] /\ SignIn(b, u)
     ELSE Answer(b) /\ UNCHANGED <<link, session>>
  /\ UNCHANGED <<seed, privy, nonce>>

\* The wallet has an account of its own, without an email: it is merged in.
JoinWallet(b) ==
  LET u == request[b].user
      w == request[b].wallet
  IN
  /\ request[b].pc = "linkWallet"
  /\ u \in Live /\ user[u].wallet \in {Nobody, w}
  /\ user[u].email # Nobody /\ user[u].password
  /\ \E v \in HasWallet(w) \ {u} :
       /\ user[v].email = Nobody /\ MayMerge(v, u)
       /\ Merge(v, u, w)
       /\ IF link[w] \in {u, v, Nobody}
          THEN /\ link' = [Moved(v, u, link) EXCEPT ![w] = u]
               /\ session' = [Moved(v, u, session) EXCEPT ![b] = u]
          ELSE link' = Moved(v, u, link) /\ session' = Moved(v, u, session)
       /\ Answer(b)
  /\ UNCHANGED nonce

\* linkEmail looks at the account and at who has the email, then waits.
LinkEmail(b, e) ==
  LET u == session[b] IN
  /\ request[b].pc = "idle" /\ u \in Live /\ user[u].email \in {Nobody, e}
  /\ \/ /\ HasEmail(e) \subseteq {u}
        /\ Wait(b, "linkEmail", u, e, Nobody)
     \/ \E v \in HasEmail(e) \ {u} :
          /\ user[u].wallet # Nobody /\ user[v].password
          /\ user[v].wallet \in {Nobody, user[u].wallet}
          /\ Wait(b, "joinEmail", u, e, user[u].wallet)
  /\ UNCHANGED <<user, seed, privy, link, nonce, session>>

\* The account may be gone: nothing is updated and the answer says it was.
EmailLinked(b) ==
  LET u == request[b].user
      e == request[b].email
  IN
  /\ request[b].pc = "linkEmail"
  /\ IF u \in Live
     THEN HasEmail(e) \subseteq {u}
          /\ user' = [user EXCEPT ![u].email = e, ![u].password = TRUE]
     ELSE UNCHANGED user
  /\ Answer(b)
  /\ UNCHANGED <<seed, privy, link, nonce, session>>

\* The wallet's account goes into the email's; the cookie's session moves too.
EmailJoined(b) ==
  LET u == request[b].user IN
  /\ request[b].pc = "joinEmail"
  /\ \E v \in HasEmail(request[b].email) \ {u} :
       /\ MayMerge(u, v)
       /\ Merge(u, v, IF user[v].wallet = Nobody THEN user[u].wallet ELSE user[v].wallet)
       /\ link' = Moved(u, v, link)
       /\ session' = Moved(u, v, session)
       /\ Answer(b)
  /\ UNCHANGED nonce
-----------------------------------------------------------------------------
(* Privy.                                                                   *)

\* Privy is asked before anything is read.
AskPrivy(b) ==
  /\ request[b].pc = "idle"
  /\ Wait(b, "privy", Nobody, Nobody, Nobody)
  /\ UNCHANGED <<user, seed, privy, link, nonce, session>>

\* The accounts that the identity's email and wallets already belong to.
Matched ==
  {u \in Live : \/ PrivyEmail # Nobody /\ user[u].email = PrivyEmail
                \/ user[u].wallet \in PrivyWallets
                \/ \E w \in PrivyWallets : link[w] = u}

\* bindPrivyIdentity never merges: it wants one account, or makes one.
PrivyAccount(b, u) ==
  /\ session[b] # Nobody => u = session[b]
  /\ privy # Nobody => u = privy
  /\ Matched \subseteq {u}
  /\ session[b] = Nobody /\ privy = Nobody /\ Matched = {} => Unused(u)

\* The row's empty places are filled in from the identity.
PrivyFilled(u) ==
  [live |-> TRUE, password |-> user[u].password,
   email |-> IF user[u].email = Nobody THEN PrivyEmail ELSE user[u].email,
   wallet |-> IF user[u].wallet = Nobody /\ PrivyWallets # {}
              THEN CHOOSE w \in PrivyWallets : TRUE ELSE user[u].wallet]

\* A new row, its credit and the links are three commits: a crash may part them.
PrivyBound(b, u) ==
  /\ request[b].pc = "privy" /\ PrivyAccount(b, u)
  /\ u \in Live \/ Unused(u)
  /\ user' = [user EXCEPT ![u] = PrivyFilled(u)]
  /\ \/ /\ seed' = IF u \in Live THEN seed ELSE [seed EXCEPT ![u] = 1]
        /\ privy' = u
        /\ link' = [w \in Wallet |-> IF w \in PrivyWallets THEN u ELSE link[w]]
        /\ SignIn(b, u)
     \/ /\ u \notin Live
        /\ seed' \in {seed, [seed EXCEPT ![u] = 1]}
        /\ Answer(b) /\ UNCHANGED <<privy, link, session>>
  /\ UNCHANGED nonce

IdentityNext ==
  \/ \E w \in Wallet : IssueNonce(w)
  \/ \E b \in Browser :
       \/ GiveUp(b) \/ Logout(b) \/ LoggedIn(b) \/ WalletKnown(b) \/ UnlinkWallet(b)
       \/ LinkWallet(b) \/ JoinWallet(b) \/ EmailLinked(b) \/ EmailJoined(b) \/ AskPrivy(b)
       \/ \E e \in Email : Register(b, e) \/ LinkEmail(b, e)
       \/ \E u \in User : \/ Registered(b, u) \/ Login(b, u) \/ WalletNew(b, u)
                          \/ PrivyBound(b, u)
       \/ \E w \in Wallet, pc \in {"wallet", "linkWallet"} : ProveWallet(b, w, pc)

IdentitySpec == IdentityInit /\ [][IdentityNext]_identityVars
-----------------------------------------------------------------------------
(* Properties.                                                              *)

\* A password, a wallet that recordWalletLink lets in, or Privy.
WayIn(u) ==
  \/ user[u].email # Nobody /\ user[u].password
  \/ user[u].wallet # Nobody /\ MayRecord(u, user[u].wallet)
  \/ privy \in {u, Nobody} /\ Matched = {u}

\* Whatever requests overlap, no account is left without a way in, none has two
\* signup credits, and an email, a wallet or a cookie leads to one account that
\* is there.
AccountsSound ==
  /\ \A u \in Live : seed[u] <= 1
  /\ \A u, v \in Live : u # v =>
       /\ user[u].email = Nobody \/ user[u].email # user[v].email
       /\ user[u].wallet = Nobody \/ user[u].wallet # user[v].wallet
  /\ \A b \in Browser : session[b] # Nobody => session[b] \in Live
  /\ \A u \in Live : WayIn(u)
=============================================================================
