---------------------------- MODULE WalletPanel ----------------------------
(***************************************************************************)
(* The wallet section of the page (web/wallet-ui.js): a wallet that exists *)
(* only in memory, whose recovery phrase is shown after an explicit reveal *)
(* and an acknowledgement, and hidden again by many events.  A wallet is a *)
(* number and stands for its address and its phrase.                       *)
(***************************************************************************)
EXTENDS Integers, FiniteSets

CONSTANTS MaxWallets     \* bound: wallets created

ASSUME WalletPanelAssumption == MaxWallets \in Nat

VARIABLES
    wallet, phraseSaved,      \* the globals of the same names; 0 is null
    made,                     \* wallets created so far
    ready, savedState,        \* wallet-ready and wallet-saved-state are visible
    phrase,                   \* what is in the list of wallet-phrase; 0 is nothing
    visible, confirming,      \* wallet-phrase, wallet-reveal-confirm
    revealable,               \* wallet-reveal
    acknowledge, enabled,     \* the check box, the button it enables
    passphrase,               \* new-passphrase: the wallet whose phrase is in it
    copying,                  \* writes to the clipboard that are awaited
    labelled, feedbackTimer,  \* buttons that say "Copied"; which one goes back
    seen,                     \* history: wallets whose phrase was shown
    consent                   \* history: wallets acknowledged since the last conceal

concealed == <<phrase, visible, confirming, revealable, acknowledge, enabled, consent>>
labels == <<copying, labelled, feedbackTimer>>
panelVars == <<wallet, phraseSaved, made, ready, savedState, concealed, passphrase, labels, seen>>

PanelInit ==
    /\ wallet = 0 /\ phraseSaved = FALSE /\ made = 0 /\ ready = FALSE /\ savedState = FALSE
    /\ phrase = 0 /\ visible = FALSE /\ confirming = FALSE /\ revealable = TRUE
    /\ acknowledge = FALSE /\ enabled = FALSE /\ passphrase = 0
    /\ copying = {} /\ labelled = {} /\ feedbackTimer = "none"
    /\ seen = {} /\ consent = {}

concealPhrase ==
    /\ confirming' = FALSE /\ visible' = FALSE /\ phrase' = 0 /\ revealable' = TRUE
    /\ acknowledge' = FALSE /\ enabled' = FALSE /\ consent' = {}

\* renderWallet.  Mutant: the phrase of the wallet before stays on the page.
StillShown == ready' = TRUE /\ phraseSaved' = FALSE /\ savedState' = FALSE /\ UNCHANGED concealed
renderWallet == ready' = TRUE /\ phraseSaved' = FALSE /\ savedState' = FALSE /\ concealPhrase

\* createWallet, from the button of the empty section or, confirmed, from the other;
\* a failure to generate changes nothing but the status.
CreateWallet ==
    /\ ~ready \/ wallet # 0
    /\ made < MaxWallets /\ made' = made + 1
    /\ wallet' = made + 1
    /\ renderWallet
    /\ UNCHANGED <<passphrase, labels, seen>>

Reveal ==
    /\ ready /\ revealable /\ wallet # 0
    /\ revealable' = FALSE /\ confirming' = TRUE
    /\ UNCHANGED <<wallet, phraseSaved, made, ready, savedState, phrase, visible, acknowledge, enabled,
                   passphrase, labels, seen, consent>>

Acknowledge ==
    /\ confirming
    /\ acknowledge' = ~acknowledge /\ enabled' = ~acknowledge
    /\ consent' = IF acknowledge THEN consent \ {wallet} ELSE consent \cup {wallet}
    /\ UNCHANGED <<wallet, phraseSaved, made, ready, savedState, phrase, visible, confirming, revealable,
                   passphrase, labels, seen>>

\* renderPhrase
ConfirmReveal ==
    /\ confirming /\ enabled /\ wallet # 0 /\ acknowledge
    /\ phrase' = wallet /\ confirming' = FALSE /\ visible' = TRUE /\ seen' = seen \cup {wallet}
    /\ UNCHANGED <<wallet, phraseSaved, made, ready, savedState, revealable, acknowledge, enabled,
                   passphrase, labels, consent>>

\* The phrase is taken, and put in the passphrase field, before the clipboard is awaited.
CopyPhrase ==
    /\ visible /\ wallet # 0
    /\ passphrase' = wallet /\ copying' = copying \cup {"phrase"}
    /\ UNCHANGED <<wallet, phraseSaved, made, ready, savedState, concealed, labelled, feedbackTimer, seen>>
CopyAddress ==
    /\ ready /\ wallet # 0 /\ copying' = copying \cup {"address"}
    /\ UNCHANGED <<wallet, phraseSaved, made, ready, savedState, concealed, passphrase, labelled, feedbackTimer, seen>>

\* feedback, and its like for the phrase: the one timer starts again, and only the
\* button it was started for goes back to its text.
Copied(button) ==
    /\ button \in copying /\ copying' = copying \ {button}
    /\ \/ labelled' = labelled \cup {button} /\ feedbackTimer' = button
       \/ button = "phrase" /\ labelled' = labelled \ {button} /\ feedbackTimer' = button
       \/ button = "address" /\ UNCHANGED <<labelled, feedbackTimer>>
    /\ UNCHANGED <<wallet, phraseSaved, made, ready, savedState, concealed, passphrase, seen>>
FeedbackEnds ==
    /\ feedbackTimer # "none" /\ feedbackTimer' = "none" /\ labelled' = labelled \ {feedbackTimer}
    /\ UNCHANGED <<wallet, phraseSaved, made, ready, savedState, concealed, passphrase, copying, seen>>

Saved ==
    /\ visible /\ wallet # 0
    /\ phraseSaved' = TRUE /\ savedState' = TRUE /\ concealPhrase
    /\ UNCHANGED <<wallet, made, ready, passphrase, labels, seen>>

\* wallet-hide, and autoConceal: a check starts or ends, the focus or the pointer
\* leaves the section, the page is hidden.
Conceal ==
    /\ visible \/ confirming
    /\ concealPhrase
    /\ UNCHANGED <<wallet, phraseSaved, made, ready, savedState, passphrase, labels, seen>>

\* pagehide; the page may come back from the browser's cache as it was.
PanelPageHide ==
    /\ wallet # 0 /\ wallet' = 0
    /\ UNCHANGED <<phraseSaved, made, ready, savedState, concealed, passphrase, labels, seen>>

PanelNext ==
    \/ CreateWallet \/ Reveal \/ Acknowledge \/ ConfirmReveal \/ CopyPhrase \/ CopyAddress
    \/ \E button \in {"phrase", "address"} : Copied(button)
    \/ FeedbackEnds \/ Saved \/ Conceal \/ PanelPageHide

PanelSpec == PanelInit /\ [][PanelNext]_panelVars

-----------------------------------------------------------------------------
\* "The recovery phrase stays hidden until an explicit acknowledge-and-reveal"
\* (README.md:220), of this very wallet and since it was last hidden, however
\* creation, hiding and the events of the page are ordered; nothing of it stays in
\* the page when it is hidden; and a wallet is marked as saved, or its phrase used
\* as a passphrase, only when it was on the screen (web/wallet-ui.js:21-72).
PhraseNeedsReveal ==
    /\ visible => phrase \in consent /\ wallet \in {0, phrase}
    /\ ~visible => phrase = 0
    /\ ~(visible /\ confirming)
    /\ savedState => phraseSaved
    /\ phraseSaved /\ wallet # 0 => wallet \in seen
    /\ passphrase # 0 => passphrase \in seen

PanelTypeOK ==
    /\ made \in 0 .. MaxWallets /\ wallet \in 0 .. made /\ phrase \in 0 .. made /\ passphrase \in 0 .. made
    /\ phraseSaved \in BOOLEAN /\ ready \in BOOLEAN /\ savedState \in BOOLEAN /\ visible \in BOOLEAN
    /\ confirming \in BOOLEAN /\ revealable \in BOOLEAN /\ acknowledge \in BOOLEAN /\ enabled \in BOOLEAN
    /\ copying \subseteq {"phrase", "address"} /\ labelled \subseteq {"phrase", "address"}
    /\ feedbackTimer \in {"none", "phrase", "address"}
    /\ seen \subseteq 1 .. made /\ consent \subseteq 0 .. made

\* What holds in every reachable state and is preserved by every step: a box that is
\* checked was checked for the wallet at hand, and a phrase on the screen was revealed.
PanelInv ==
    /\ PanelTypeOK /\ PhraseNeedsReveal
    /\ acknowledge /\ wallet # 0 => wallet \in consent
    /\ visible => phrase \in seen
    /\ visible \/ confirming => ~revealable
    /\ (wallet # 0 \/ visible \/ confirming \/ savedState) => ready
=============================================================================
