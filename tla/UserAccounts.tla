----------------------------- MODULE UserAccounts -----------------------------
(***************************************************************************)
(* The users and link_tokens tables: users who come by Telegram, the       *)
(* wallets the bot generates for them and keeps the key of, and the link   *)
(* to a Privy account, which may bring a wallet of its own.  A private key *)
(* is named by the address of its account.  Every operation is one         *)
(* synchronous stretch of the program.                                     *)
(***************************************************************************)
EXTENDS Naturals, FiniteSets

CONSTANTS
    User,      \* by Telegram id
    PrivyId,
    Wallet,    \* addresses, in lower case
    Token,     \* bound: the link tokens that are ever created
    None

ASSUME AccountsAssumption == None \notin User \cup PrivyId \cup Wallet

VARIABLES
    registered,  \* the users with a row
    privyId, address, key,   \* of each row
    token,       \* link_tokens: whose a token is, and whether it is still good
    madeFor      \* history: for whom the bot generated a wallet

accountVars == <<registered, privyId, address, key, token, madeFor>>

NoToken == [user |-> None, state |-> "none"]
LinkToken == [user : User, state : {"open", "used", "expired"}]

AccountsTypeOK ==
    /\ registered \subseteq User
    /\ privyId \in [User -> PrivyId \cup {None}]
    /\ address \in [User -> Wallet \cup {None}]
    /\ key \in [User -> Wallet \cup {None}]
    /\ token \in [Token -> LinkToken \cup {NoToken}]
    /\ madeFor \in [Wallet -> User \cup {None}]

AccountsInit ==
    /\ registered = {}
    /\ privyId = [u \in User |-> None]
    /\ address = [u \in User |-> None]
    /\ key = [u \in User |-> None]
    /\ token = [t \in Token |-> NoToken]
    /\ madeFor = [w \in Wallet |-> None]

(* getUserWallet: nothing unless the row has both.                         *)
HasWallet(u) == address[u] # None /\ key[u] # None

(* generatePrivateKey yields an account nobody has met before.             *)
NewWallet(w) ==
    /\ madeFor[w] = None
    /\ \A u \in User : w \notin {address[u], key[u]}

(* getOrCreateUserByTelegram, which every command of the bot begins with.  *)
Register(u) == registered' = registered \cup {u}

(* A mutant: a wallet for every /start.                                    *)
AlwaysLacksWallet(u) == TRUE

LacksWallet(u) == ~HasWallet(u)

(* /start, with createWalletForUser, which overwrites whatever was there.  *)
StartWithNewWallet(u, w) ==
    /\ LacksWallet(u)
    /\ NewWallet(w)
    /\ Register(u)
    /\ address' = [address EXCEPT ![u] = w]
    /\ key' = [key EXCEPT ![u] = w]
    /\ madeFor' = [madeFor EXCEPT ![w] = u]
    /\ UNCHANGED <<privyId, token>>

(* /wallet, which like /faucet, /kyc and /portfolio leaves a row of whoever *)
(* sends it, and nothing else.                                             *)
ShowWallet(u) ==
    /\ u \notin registered
    /\ Register(u)
    /\ UNCHANGED <<privyId, address, key, token, madeFor>>

(* Earlier tokens of the user stay good.                                   *)
CreateLinkToken(u, t) ==
    /\ token[t] = NoToken
    /\ token' = [token EXCEPT ![t] = [user |-> u, state |-> "open"]]

(* /link.                                                                  *)
AskForLink(u, t) ==
    /\ Register(u)
    /\ CreateLinkToken(u, t)
    /\ UNCHANGED <<privyId, address, key, madeFor>>

ExpireToken(t) ==
    /\ token[t].state = "open"
    /\ token' = [token EXCEPT ![t].state = "expired"]
    /\ UNCHANGED <<registered, privyId, address, key, madeFor>>

(* The UNIQUE constraints of the users table.                              *)
RowAccepted(u, x, w) ==
    \A v \in User \ {u} : privyId[v] # x /\ (w # None => address[v] # w)

(* A mutant: used is not looked at.                                        *)
ConsumableTwice(t) == token[t].state \in {"open", "used"}

Consumable(t) == token[t].state = "open"

Consume(t) ==
    /\ Consumable(t)
    /\ token' = [token EXCEPT ![t].state = "used"]

(* The address becomes NULL where the body has none; the key stays.        *)
LinkPrivyToUser(u, x, w) ==
    /\ RowAccepted(u, x, w)
    /\ privyId' = [privyId EXCEPT ![u] = x]
    /\ address' = [address EXCEPT ![u] = w]

(* POST /link spends the token also where the row violates a constraint.   *)
Link(t, x, w) ==
    LET u == token[t].user
    IN  /\ Consume(t)
        /\ \/ LinkPrivyToUser(u, x, w)
           \/ ~RowAccepted(u, x, w) /\ UNCHANGED <<privyId, address>>
        /\ UNCHANGED <<registered, key, madeFor>>

AccountsNext ==
    \/ \E u \in User :
          \/ ShowWallet(u)
          \/ \E w \in Wallet : StartWithNewWallet(u, w)
          \/ \E t \in Token : AskForLink(u, t)
    \/ \E t \in Token :
          \/ ExpireToken(t)
          \/ \E x \in PrivyId, w \in Wallet \cup {None} : Link(t, x, w)

------------------------------------------------------------------------------
(* Properties.                                                             *)

Linked(u) == privyId[u] # None

(* Until a user links, the bot can sign for every wallet it ever generated *)
(* for that user, and the address it shows and checks is the one it signs  *)
(* for.  Linking ends this: the key stays while the address changes, and   *)
(* where the link names no address the next /start overwrites the key.     *)
KeyKeptUnlessLinked ==
    \A u \in User : ~Linked(u) =>
        /\ address[u] = key[u]
        /\ \A w \in Wallet : madeFor[w] = u => key[u] = w

RowChanges(u) == privyId'[u] # privyId[u] \/ (Linked(u) /\ address'[u] # address[u])

OwnCodeSpent(u) ==
    \E t \in Token : token[t] = [user |-> u, state |-> "open"] /\ token'[t].state = "used"

NewKeyMade(u) ==
    /\ LacksWallet(u) /\ address'[u] # None
    /\ madeFor[address'[u]] = None /\ madeFor'[address'[u]] = u

(* A Privy account gets hold of a user's row only with a code that this    *)
(* user asked for, that nobody has used and that is used up by it; and the *)
(* wallet it brought is replaced only by such a code, or by a /start of a  *)
(* user the bot has no key for, who gets a new wallet instead.             *)
LinkSpendsOwnCode ==
    [][\A u \in User : RowChanges(u) => OwnCodeSpent(u) \/ NewKeyMade(u)]_accountVars
==============================================================================
