--------------------------- MODULE AdapterAccounts ---------------------------
(***************************************************************************)
(* The keys of one exchange and the verdict on its account: keys are       *)
(* saved, replaced and deleted while a check of the account is on its way, *)
(* the process restarts, and what the check learns depends on how much     *)
(* this exchange tells about a key.  An order is sent with the keys the    *)
(* adapter holds, on the word of the last check.                           *)
(***************************************************************************)
EXTENDS Integers, FiniteSetsExt

CONSTANTS
    None,
    Exchanges,
    Demo,           \* Binance runs in its demo mode
    Keys,           \* key pairs the user may enter
    Accounts,       \* what each key may open: key -> [reading, futures, withdrawals, oneWay, ipBound,
                    \* funded]
    MaxChanges,     \* bound: key changes between two restarts
    MaxGaps         \* bound: steps that fail and fields that are missing in one check

VARIABLES
    exchange,
    power,          \* what each key can really do
    keystore,       \* the stored pair <<key, secret>>
    adapter,        \* the pair the adapter signs with
    generation,     \* bumps on every key change
    keyMasked,      \* the key shown to the user, None without one
    checking,       \* the check under way: [generation, pair], None without one
    check,          \* the stored verdict: [of, accepted, warned] and, for the properties,
                    \* [unknown, untold]; None without one
    replacing       \* key changes waiting for the old client to close

vars == <<exchange, power, keystore, adapter, generation, keyMasked, checking, check, replacing>>

NoPair == <<None, None>>

Fields == {"reading", "futures", "withdrawals", "mode", "ip", "fees", "balance"}

Steps == {"clock", "permissions", "position_mode", "balance", "account", "api_wallet", "fees",
          "key_detail"}

--------------------------------------------------------------------------------
(* check_account: the facts an exchange tells.  answer.broken are the      *)
(* steps that failed or were malformed, answer.silent the fields missing,  *)
(* answer.late that its clock is more than the tolerance away from ours.   *)

Told(answer, step, field, value) ==
    IF step \in answer.broken \/ field \in answer.silent THEN None ELSE value

KeyPermissions(reading, futures, withdrawals, ip) ==
    [reading |-> reading, futures |-> futures, withdrawals |-> withdrawals, ip |-> ip]

UnknownPermissions == KeyPermissions(None, None, None, None)

(* Bitget and Gate tell the balance with the account. *)
BalanceStep == IF exchange \in {"bitget", "gate"} THEN "account" ELSE "balance"

AccountFacts(p, answer, required, permissions, oneWay) ==
    [permissions |-> permissions, oneWay |-> oneWay,
     available |-> Told(answer, BalanceStep, "balance", p.funded),
     fees |-> Told(answer, "fees", "fees", TRUE),
     clock |-> Told(answer, "clock", "clock", ~answer.late),
     errors |-> answer.broken \cap required,
     silent |-> answer.silent]

(* Each flag of apiRestrictions is read by itself. *)
BinanceParsePermissions(p, answer) ==
    LET flag(field, value) == Told(answer, "permissions", field, value)
    IN  KeyPermissions(flag("reading", p.reading), flag("futures", p.futures),
                       flag("withdrawals", p.withdrawals), flag("ip", p.ipBound))

BinanceCheckAccount(p, answer) ==
    AccountFacts(p, answer,
        {"clock", "position_mode", "balance"} \cup IF Demo THEN {} ELSE {"permissions"},
        IF Demo THEN KeyPermissions(TRUE, TRUE, FALSE, None) ELSE BinanceParsePermissions(p, answer),
        Told(answer, "position_mode", "mode", p.oneWay))

(* Only the main wallet's own key is known to withdraw. *)
AsterCheckAccount(p, answer) ==
    AccountFacts(p, answer, {"clock", "position_mode", "balance"},
        KeyPermissions(None, None, IF p.withdrawals THEN TRUE ELSE None, None),
        Told(answer, "position_mode", "mode", p.oneWay))

(* A list of granted codes: one that is absent is not granted, no list tells nothing. *)
BingxParsePermissions(p, answer) ==
    IF Told(answer, "permissions", "reading", TRUE) = None THEN UnknownPermissions
    ELSE KeyPermissions(p.reading, p.futures, p.withdrawals, Told(answer, "permissions", "ip", p.ipBound))

BingxCheckAccount(p, answer) ==
    AccountFacts(p, answer, {"clock", "permissions", "position_mode", "balance"},
        BingxParsePermissions(p, answer), Told(answer, "position_mode", "mode", p.oneWay))

(* Lists of granted powers by kind: a list that is missing is read as empty. *)
BybitParsePermissions(p, answer) ==
    LET listed(field, value) == value /\ field \notin answer.silent IN
    IF "permissions" \in answer.broken THEN UnknownPermissions
    ELSE KeyPermissions(TRUE, listed("futures", p.futures), listed("withdrawals", p.withdrawals),
                        Told(answer, "permissions", "ip", p.ipBound))

(* The mode shows on an open position only: without one the field is missing. *)
BybitCheckAccount(p, answer) ==
    AccountFacts(p, answer, {"clock", "permissions", "balance"},
        BybitParsePermissions(p, answer), Told(answer, "position_mode", "mode", p.oneWay))

(* An authority listed is granted, one that is not listed is unknown. *)
BitgetParsePermissions(p, answer) ==
    LET listed(field, value) == IF Told(answer, "permissions", field, value) = TRUE THEN TRUE ELSE None
    IN  KeyPermissions(listed("reading", p.reading), listed("futures", p.futures),
                       listed("withdrawals", p.withdrawals), Told(answer, "permissions", "ip", p.ipBound))

BitgetCheckAccount(p, answer) ==
    AccountFacts(p, answer, {"clock", "permissions", "account"},
        BitgetParsePermissions(p, answer), Told(answer, "account", "mode", p.oneWay))

GateCheckAccount(p, answer) ==
    AccountFacts(p, answer, {"clock", "account"},
        KeyPermissions(None, None, None, Told(answer, "key_detail", "ip", p.ipBound)),
        Told(answer, "account", "mode", p.oneWay))

(* As on BingX, and a key without any permission tells nothing. *)
KucoinParsePermissions(p, answer) ==
    IF Told(answer, "permissions", "reading", TRUE) = None \/ ~(p.reading \/ p.futures \/ p.withdrawals)
    THEN UnknownPermissions
    ELSE KeyPermissions(p.reading, p.futures, p.withdrawals, Told(answer, "permissions", "ip", p.ipBound))

KucoinCheckAccount(p, answer) ==
    AccountFacts(p, answer, {"clock", "permissions", "position_mode", "balance"},
        KucoinParsePermissions(p, answer), Told(answer, "position_mode", "mode", p.oneWay))

MexcCheckAccount(p, answer) ==
    AccountFacts(p, answer, {"clock", "position_mode", "balance"}, UnknownPermissions,
        Told(answer, "position_mode", "mode", p.oneWay))

(* An approved API wallet trades and cannot withdraw, the main wallet's own key can. *)
HyperliquidCheckAccount(p, answer) ==
    LET approved == Told(answer, "api_wallet", "futures", p.futures)
        stranger == IF approved = FALSE /\ ~p.withdrawals THEN {"api_wallet"} ELSE {}
        facts == AccountFacts(p, answer, {"clock", "balance", "api_wallet"},
                     KeyPermissions(TRUE, approved,
                         IF p.withdrawals THEN TRUE ELSE IF approved = TRUE THEN FALSE ELSE None, None),
                     TRUE)
    IN  [facts EXCEPT !.errors = @ \cup stranger]

CheckAccount(p, answer) ==
    CASE exchange = "binance" -> BinanceCheckAccount(p, answer)
      [] exchange = "aster" -> AsterCheckAccount(p, answer)
      [] exchange = "bingx" -> BingxCheckAccount(p, answer)
      [] exchange = "bybit" -> BybitCheckAccount(p, answer)
      [] exchange = "bitget" -> BitgetCheckAccount(p, answer)
      [] exchange = "gate" -> GateCheckAccount(p, answer)
      [] exchange = "kucoin" -> KucoinCheckAccount(p, answer)
      [] exchange = "mexc" -> MexcCheckAccount(p, answer)
      [] exchange = "hyperliquid" -> HyperliquidCheckAccount(p, answer)

--------------------------------------------------------------------------------
(* judge *)

Blocking(facts) ==
    {problem \in {"check_incomplete", "withdrawals_enabled", "futures_disabled", "reading_disabled", "hedge_mode"} :
        \/ problem = "check_incomplete" /\ facts.errors # {}
        \/ problem = "withdrawals_enabled" /\ facts.permissions.withdrawals = TRUE
        \/ problem = "futures_disabled" /\ facts.permissions.futures = FALSE
        \/ problem = "reading_disabled" /\ facts.permissions.reading = FALSE
        \/ problem = "hedge_mode" /\ facts.oneWay = FALSE}

Warnings(facts) ==
    {problem \in {"withdrawals_unknown", "position_mode_unknown", "no_ip_restriction", "no_free_balance",
                  "fees_unknown", "clock_offset"} :
        \/ problem = "withdrawals_unknown" /\ facts.permissions.withdrawals = None
        \/ problem = "position_mode_unknown" /\ facts.oneWay = None
        \/ problem = "no_ip_restriction" /\ facts.permissions.ip = FALSE
        \/ problem = "no_free_balance" /\ facts.available = FALSE
        \/ problem = "fees_unknown" /\ facts.fees = None
        \/ problem = "clock_offset" /\ facts.clock = FALSE}

Judge(pair, facts) ==
    [of |-> pair, accepted |-> Blocking(facts) = {}, warned |-> Warnings(facts) # {},
     unknown |-> \E field \in {"reading", "futures", "withdrawals", "ip"} : facts.permissions[field] = None,
     untold |-> "withdrawals" \in facts.silent]

--------------------------------------------------------------------------------
(* ExchangeService *)

NewService ==
    generation = 0 /\ checking = None /\ check = None /\ replacing = {}

Init ==
    /\ exchange \in Exchanges
    /\ power \in {a \in Accounts : exchange = "hyperliquid" => \A k \in Keys : a[k].oneWay /\ a[k].reading}
    /\ keystore \in {NoPair} \cup {<<k, k>> : k \in Keys}
    /\ adapter = keystore
    /\ keyMasked = keystore[1]
    /\ NewService

(* _replace_adapter up to the await of old.close(): the new adapter works from here on. *)
ReplaceAdapter(pair) ==
    /\ adapter' = pair
    /\ generation' = generation + 1
    /\ replacing' = replacing \cup {[at |-> generation, key |-> pair[1]]}

SaveKeys(key) ==
    /\ generation < MaxChanges
    /\ keystore' = <<key, key>>
    /\ ReplaceAdapter(<<key, key>>)
    /\ UNCHANGED <<exchange, power, keyMasked, checking, check>>

(* The credential store refuses the secret after it took the key. *)
SaveFailsHalfway(key) ==
    /\ keystore' = <<key, keystore[2]>>
    /\ UNCHANGED <<exchange, power, adapter, generation, keyMasked, checking, check, replacing>>

DeleteKeys ==
    /\ generation < MaxChanges
    /\ keystore' = NoPair
    /\ ReplaceAdapter(NoPair)
    /\ UNCHANGED <<exchange, power, keyMasked, checking, check>>

(* old.close() returned: save_keys and delete_keys go on. *)
Replaced(change) ==
    /\ keyMasked' = change.key
    /\ check' = None
    /\ replacing' = replacing \ {change}
    /\ UNCHANGED <<exchange, power, keystore, adapter, generation, checking>>

StartCheck ==
    /\ keyMasked # None
    /\ checking = None
    /\ checking' = [generation |-> generation, pair |-> adapter]
    /\ UNCHANGED <<exchange, power, keystore, adapter, generation, keyMasked, check, replacing>>

(* External: what the exchange answers.  A pair of two different keys is   *)
(* not signed right, and no request of an adapter without keys succeeds.   *)
Answers(pair) ==
    IF pair[1] = pair[2] /\ pair # NoPair
    THEN UNION {[broken : kSubset(gaps[1], Steps), silent : kSubset(gaps[2], Fields), late : BOOLEAN] :
                    gaps \in {g \in (0 .. MaxGaps) \X (0 .. MaxGaps) : g[1] + g[2] <= MaxGaps}}
    ELSE [broken : {Steps \ {"clock"}}, silent : {{}}, late : BOOLEAN]

(* Mutant: the check of the old keys is stored as well. *)
StoredAnyway(facts, pair, started) == Judge(pair, facts)

Stored(facts, pair, started) ==
    IF started # generation THEN check ELSE Judge(pair, facts)

Facts(pair, answer) ==
    CheckAccount(power[IF pair[1] = None THEN CHOOSE k \in Keys : TRUE ELSE pair[1]], answer)

(* The answers are in, or the time allowed ran out: every step broken. *)
CheckEnds ==
    /\ checking # None
    /\ \E answer \in Answers(checking.pair) :
          check' = Stored(Facts(checking.pair, answer), checking.pair, checking.generation)
    /\ checking' = None
    /\ UNCHANGED <<exchange, power, keystore, adapter, generation, keyMasked, replacing>>

(* The process ends and starts again from the credential store. *)
Restart ==
    /\ adapter' = keystore
    /\ keyMasked' = IF keystore[2] = None THEN None ELSE keystore[1]
    /\ generation' = 0 /\ checking' = None /\ check' = None /\ replacing' = {}
    /\ UNCHANGED <<exchange, power, keystore>>

Next ==
    \/ \E key \in Keys : SaveKeys(key) \/ SaveFailsHalfway(key)
    \/ DeleteKeys
    \/ \E change \in replacing : Replaced(change)
    \/ StartCheck
    \/ CheckEnds
    \/ Restart

Spec == Init /\ [][Next]_vars

--------------------------------------------------------------------------------
KeysState ==
    IF keyMasked = None THEN "none"
    ELSE IF checking # None THEN "checking"
    ELSE IF check = None THEN "saved"
    ELSE IF ~check.accepted THEN "rejected"
    ELSE IF check.warned THEN "warning" ELSE "ok"

(* Keys shown as fine are the keys the adapter trades with, as long as no   *)
(* key change is under way, and of an account in one-way mode; and they     *)
(* cannot withdraw, unless Bybit said nothing of withdrawals at all, which  *)
(* its adapter takes for no (account.py 5, service.py 7).                   *)
OkKeysAreFit ==
    KeysState = "ok" /\ replacing = {} =>
        /\ adapter[1] # None /\ power[adapter[1]].oneWay
        /\ power[adapter[1]].withdrawals => exchange = "bybit" /\ check.untold

(* account.py 5 and 6: no key that can withdraw is accepted, and what the   *)
(* exchange did not report is no silent pass.  Broken for that one answer.  *)
OkKeysNeverWithdraw ==
    KeysState = "ok" /\ replacing = {} => ~power[adapter[1]].withdrawals

(* account.py 6: facts the exchange did not report become warnings, not    *)
(* silent passes.                                                          *)
NoSilentPass == KeysState = "ok" => ~check.unknown
================================================================================
