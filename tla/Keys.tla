--------------------------------- MODULE Keys ---------------------------------
(***************************************************************************)
(* Storage keys.  A key is a sequence of segments, written with ':' between *)
(* them; a segment is a sequence of words, with the escape %3A between      *)
(* them.  So the id "b:c" is <<<<"b">>, <<"c">>>> and, escaped, the one      *)
(* segment <<"b", "c">>.  A name says what is stored; KeyOf says where.      *)
(***************************************************************************)
EXTENDS Naturals, SequencesExt

CONSTANTS
  Layouts,       \* "three": ThreeSegment; "four": JavaFourSegment
  AccountTypes,  \* login types, as sequences of segments; <<>> is ""
  AccountIds,    \* login ids, as sequences of segments
  Opaque         \* generated ids (tokens, nonces, ...) and services: words

VARIABLES
  layout,
  looked   \* the name whose key a call has built

keyState == <<layout, looked>>

Path(words) == [i \in DOMAIN words |-> <<words[i]>>]

IsDefaultLoginType(type) == type \in {<<>>, Path(<<"default">>), Path(<<"login">>)}

\* Mutant: ids are not escaped.
PushUnescaped(id) == id

PushEscaped(id) == <<FlattenSeq(id)>>

AccountNs(type, id) ==
  IF IsDefaultLoginType(type) THEN id ELSE type \o PushEscaped(id)

Root == Path(<<"sa">>)
LayoutType(type) == IF type = <<>> THEN Path(<<"login">>) ELSE type

BuildGlobal(category, id) ==
  IF layout = "three" THEN Root \o Path(category) \o id
  ELSE Root \o Path(<<"login">>) \o Path(category) \o id

BuildAccount(category, type, id) ==
  IF layout = "three" THEN Root \o Path(category) \o AccountNs(type, id)
  ELSE Root \o LayoutType(type) \o Path(category) \o id

-----------------------------------------------------------------------------
(***************************************************************************)
(* What is stored                                                          *)
(***************************************************************************)
TokenCategories ==
  {<<"token">>, <<"token-id">>, <<"token-session">>, <<"last-active">>}
AccountCategories ==
  {<<"login", "token">>, <<"login", "tokens">>, <<"session">>, <<"permission">>,
   <<"role">>, <<"refresh", "user">>}
OneTimeCategories ==
  {<<"nonce">>, <<"refresh">>, <<"oauth2", "client">>, <<"oauth2", "code">>,
   <<"oauth2", "token">>, <<"oauth2", "refresh">>, <<"sso", "ticket">>}
DistributedCategories == {<<"dsession">>, <<"dservice">>}
SpecialCategories == {<<"sign-nonce">>, <<"temp-token", "ns">>, <<"temp-index", "ns">>}

NoWord == ""
Nothing == [kind |-> "nothing"]
Accounts == [type : AccountTypes, id : AccountIds]
Name(kind, category, account, item, service) ==
  [kind |-> kind, category |-> category, account |-> account,
   item |-> item, service |-> service]
NoAccount == [type |-> <<>>, id |-> <<>>]

GlobalNames ==
  {Name("global", c, NoAccount, i, NoWord) :
     c \in TokenCategories \cup OneTimeCategories \cup DistributedCategories
             \cup SpecialCategories,
     i \in Opaque}
  \cup {Name("global", <<"var">>, NoAccount, i, NoWord) :
          i \in {"same-token", "same-token-past"}}
  \cup {Name("global", <<"online">>, NoAccount, "users", NoWord)}
AccountNames ==
  {Name("account", c, a, NoWord, NoWord) :
     c \in AccountCategories \cup {<<"online", "index">>}, a \in Accounts}
\* Indexes by login id alone.
LoginIdNames ==
  {Name("loginId", c, [type |-> <<>>, id |-> i], NoWord, NoWord) :
     c \in {<<"sso", "session">>, <<"dsession", "index">>}, i \in AccountIds}
DisableNames == {Name("disable", <<"disable">>, a, NoWord, s) : a \in Accounts, s \in Opaque}
SafeNames == {Name("safe", <<"safe">>, NoAccount, i, s) : i \in Opaque, s \in Opaque}
OnlineNames == {Name("online", <<"online">>, a, i, NoWord) : a \in Accounts, i \in Opaque}

Names == GlobalNames \cup AccountNames \cup LoginIdNames \cup DisableNames
           \cup SafeNames \cup OnlineNames

DisableKey(n) ==
  IF layout = "three"
  THEN BuildAccount(n.category, n.account.type, n.account.id) \o Path(<<n.service>>)
  ELSE Root \o LayoutType(n.account.type) \o Path(<<"disable", n.service>>)
         \o n.account.id

SafeKey(n) ==
  IF layout = "three" THEN BuildGlobal(n.category, Path(<<n.item, n.service>>))
  ELSE BuildGlobal(n.category, Path(<<n.service, n.item>>))

\* The online store files every default login type with the global keys.
OnlineCategories == {<<"online">>, <<"online", "index">>}
FiledType(n) ==
  IF n.category \in OnlineCategories /\ IsDefaultLoginType(n.account.type) THEN <<>>
  ELSE n.account.type

OnlineKey(n) ==
  BuildAccount(n.category, FiledType(n), n.account.id) \o Path(<<n.item>>)

KeyOf(n) ==
  CASE n.kind = "global"  -> BuildGlobal(n.category, Path(<<n.item>>))
    [] n.kind = "account" -> BuildAccount(n.category, FiledType(n), n.account.id)
    [] n.kind = "loginId" -> BuildGlobal(n.category, n.account.id)
    [] n.kind = "disable" -> DisableKey(n)
    [] n.kind = "safe"    -> SafeKey(n)
    [] n.kind = "online"  -> OnlineKey(n)

\* scan_pattern(category)*, and what parse_id_from_key leaves of a key.
CategoryPrefix(category) == BuildGlobal(category, <<>>)
ParseId(category, key) ==
  SubSeq(key, Len(CategoryPrefix(category)) + 1, Len(key))

-----------------------------------------------------------------------------
KeysInit == layout \in Layouts /\ looked = Nothing
Look(n) == looked = Nothing /\ looked' = n /\ UNCHANGED layout
KeysNext == \E n \in Names : Look(n)
KeysSpec == KeysInit /\ [][KeysNext]_keyState

-----------------------------------------------------------------------------
\* In ThreeSegment, and for what is online in both layouts, the default login types
\* are one account system; in ThreeSegment the default type's ids, which are not
\* escaped, must be free of ':'.
Normal(n) ==
  IF layout = "three" /\ IsDefaultLoginType(n.account.type)
  THEN [n EXCEPT !.account.type = <<>>]
  ELSE [n EXCEPT !.account.type = IF n.account = NoAccount THEN <<>>
                                 ELSE LayoutType(FiledType(n))]

Supported(n) ==
  layout = "three" /\ IsDefaultLoginType(n.account.type) => Len(n.account.id) <= 1

(***************************************************************************)
(* What is stored for one thing is never found under the key of another:    *)
(* different names have different keys, whichever login types and ids,      *)
(* and a scan for tokens or nonces finds those and nothing else.            *)
(***************************************************************************)
KeysApart ==
  looked # Nothing =>
    LET key == KeyOf(looked)
    IN /\ Supported(looked) =>
            \A n \in Names : Supported(n) /\ KeyOf(n) = key => Normal(n) = Normal(looked)
       /\ \A c \in {<<"token">>, <<"nonce">>} :
            IsPrefix(CategoryPrefix(c), key) =>
              looked.category = c /\ ParseId(c, key) = Path(<<looked.item>>)

=============================================================================
