---------------------------- MODULE SignInProofs ----------------------------
(***************************************************************************)
(* Proofs about SignIn, for any number of logins.  A login that is past    *)
(* its listener has left nothing behind because, at every place from       *)
(* binding the port on, it either is on the way to its cleanup or has been *)
(* there (ReleaseInv); that the completion of an OAuth login still has the *)
(* cleanup ahead shows in its step (Places).                               *)
(***************************************************************************)
EXTENDS SignIn, TLAPS

\* Its listener is gone, or was never there.
Released(l) == port[l] = "unbound" \/ (port[l] = "closed" /\ registered # l)

\* On its way from a listener to the cleanup that releases it.
OnTheWay(l) == \/ pc[l] \in {"wait", "poll", "exchange", "cleanup"}
               \/ pc[l] \in {"complete", "newlogin"} /\ step[l] = "oauth_wait"

\* A login that is served has begun; one that reads its listener is at the
\* OAuth step; and only bound listeners are registered.
Places ==
  \A l \in Logins : /\ pc[l] \in {"wait", "poll", "exchange"} => step[l] = "oauth_wait"
                    /\ step[l] = "unused" => pc[l] = "idle"
                    /\ registered = l => port[l] # "unbound"

\* Whoever has a listener is on the way to release it.
ReleaseInv == \A l \in Logins : Released(l) \/ OnTheWay(l)

\* The inductive invariant of signing in.
SignInInv == TypeOK /\ Places /\ ReleaseInv
-----------------------------------------------------------------------------
\* Wait and Poll empty the channels, and go on with the code or give up.
LEMMA AnswerStep ==
  ASSUME NEW l \in Logins, Wait(l) \/ Poll(l)
  PROVE  /\ pc[l] \in {"wait", "poll"}
         /\ \/ /\ pc' = [pc EXCEPT ![l] = "exchange"]
               /\ outcome' = [outcome EXCEPT ![l] = "none"]
            \/ /\ pc' = [pc EXCEPT ![l] = "cleanup"]
               /\ outcome' = [outcome EXCEPT ![l] = "failed"]
         /\ code' = [code EXCEPT ![l] = 0] /\ err' = [err EXCEPT ![l] = 0]
         /\ cancelled' = [cancelled EXCEPT ![l] = FALSE]
         /\ UNCHANGED <<step, driver, port, registered, state, row, userLogin>>
BY DEF Wait, Poll, Received, Goto, Return, account

\* Seen from the other logins nothing has happened.
LEMMA AnswerPlaces ==
  ASSUME TypeOK, NEW l \in Logins, Wait(l) \/ Poll(l)
  PROVE  /\ pc[l] \in {"wait", "poll"} /\ pc'[l] \in {"exchange", "cleanup"}
         /\ \A k \in Logins \ {l} : pc'[k] = pc[k]
         /\ UNCHANGED <<step, port, registered>>
BY AnswerStep DEF TypeOK

\* The exchange fails, or the login goes on to the folders or to its completion.
LEMMA ExchangePlaces ==
  ASSUME TypeOK, NEW l \in Logins, FinishOAuthExchange(l)
  PROVE  /\ pc[l] = "exchange"
         /\ \/ pc'[l] = "cleanup" /\ step'[l] \in {step[l], "folder_selection"}
            \/ pc'[l] = "complete" /\ step'[l] = step[l]
         /\ \A k \in Logins \ {l} : pc'[k] = pc[k] /\ step'[k] = step[k]
         /\ UNCHANGED <<port, registered>>
<1>1. /\ pc[l] = "exchange" /\ UNCHANGED <<port, registered>>
      /\ \/ pc' = [pc EXCEPT ![l] = "cleanup"] /\ step' = step
         \/ /\ pc' = [pc EXCEPT ![l] = "cleanup"]
            /\ step' = [step EXCEPT ![l] = "folder_selection"]
         \/ pc' = [pc EXCEPT ![l] = "complete"] /\ step' = step
  BY DEF FinishOAuthExchange, Goto, CurrentStep, listener
<1>2. QED  BY <1>1 DEF TypeOK

\* Every step keeps the types.
LEMMA TypeStep ==
  ASSUME TypeOK, [Next]_vars
  PROVE  TypeOK'
<1> USE LoginBounds DEF TypeOK, Logins, NoLogin, NoState, Asking, Waiting, Goto, listener, account
<1>1. ASSUME NEW l \in Logins, NEW d \in {"bot", "client", "text"}, Begin(l, d)  PROVE TypeOK'
  BY <1>1 DEF Begin, FirstStep, CurrentStep
<1>2. ASSUME NEW l \in Logins, SubmitEmail(l)  PROVE TypeOK'
  BY <1>2 DEF SubmitEmail, UpsertAccount, MaySubmit
<1>3. ASSUME NEW l \in Logins, SubmitCredentials(l)  PROVE TypeOK'
  BY <1>3 DEF SubmitCredentials, MaySubmit
<1>4. ASSUME NEW l \in Logins, SubmitFolders(l)  PROVE TypeOK'
  BY <1>4 DEF SubmitFolders, CurrentStep, MaySubmit
<1>5. ASSUME NEW l \in Logins, SubmitConfirmation(l)  PROVE TypeOK'
  BY <1>5 DEF SubmitConfirmation, CurrentStep, MaySubmit
<1>6. ASSUME NEW l \in Logins, StartListener(l)  PROVE TypeOK'
  <2>1. /\ port' = [port EXCEPT ![l] = "open"] /\ registered' = l
        /\ step' = [step EXCEPT ![l] = "oauth_wait"]
        /\ pc' = [pc EXCEPT ![l] = "wait"] \/ pc' = [pc EXCEPT ![l] = "poll"]
        /\ UNCHANGED <<driver, outcome, cancelled, code, err, row, userLogin>>
    BY <1>6 DEF StartListener, Register, CurrentStep
  <2>2. state' = Waiting(l) \/ state' = state  BY <1>6 DEF StartListener
  <2>3. state' \in {NoState} \cup {Asking(k) : k \in Logins} \cup {Waiting(k) : k \in Logins}
    BY <2>2
  <2>4. QED  BY <2>1, <2>3
<1>7. ASSUME NEW l \in Logins, BindFails(l)  PROVE TypeOK'
  BY <1>7 DEF BindFails
<1>8. ASSUME NEW l \in Logins, TestConnection(l)  PROVE TypeOK'
  BY <1>8, ZenonT(40) DEF TestConnection, Return, CurrentStep
<1>9. ASSUME NEW l \in Logins, Wait(l) \/ Poll(l)  PROVE TypeOK'
  <2>1. code' \in [Logins -> 0..1] /\ err' \in [Logins -> 0..1]  BY <1>9, AnswerStep
  <2>2. cancelled' \in [Logins -> BOOLEAN]  BY <1>9, AnswerStep
  <2>3. outcome' \in [Logins -> {"none", "prompt", "failed", "complete"}]
    BY <1>9, AnswerStep, ZenonT(40)
  <2>4. pc' \in [Logins -> {"idle", "bind", "connect", "wait", "poll", "exchange", "complete",
                            "newlogin", "cleanup", "dispatch"}]
    BY <1>9, AnswerStep
  <2>5. UNCHANGED <<step, driver, port, registered, state, row, userLogin>>
    BY <1>9, AnswerStep
  <2>6. QED  BY <2>1, <2>2, <2>3, <2>4, <2>5
<1>10. ASSUME NEW l \in Logins, FinishOAuthExchange(l)  PROVE TypeOK'
  BY <1>10, ZenonT(40) DEF FinishOAuthExchange, Return, CurrentStep
<1>11. ASSUME NEW l \in Logins, CleanUp(l)  PROVE TypeOK'
  BY <1>11 DEF CleanUp, Unregister, Close
<1>12. ASSUME NEW l \in Logins, CompleteRow(l)  PROVE TypeOK'
  BY <1>12 DEF CompleteRow, UpsertAccount
<1>13. ASSUME NEW l \in Logins, NewLogin(l)  PROVE TypeOK'
  BY <1>13 DEF NewLogin, Return
<1>14. ASSUME NEW l \in Logins, Dispatch(l)  PROVE TypeOK'
  BY <1>14 DEF Dispatch, Return
<1>15. ASSUME NEW l \in Logins, Callback(l)  PROVE TypeOK'
  <2>1. /\ code' = code \/ (code[l] < 1 /\ code' = [code EXCEPT ![l] = @ + 1])
        /\ err' = err \/ (err[l] < 1 /\ err' = [err EXCEPT ![l] = @ + 1])
    BY <1>15 DEF Callback
  <2>2. \A n \in 0..1 : n < 1 => n + 1 \in 0..1  OBVIOUS
  <2>3. code' \in [Logins -> 0..1]  BY <2>1, <2>2
  <2>4. err' \in [Logins -> 0..1]  BY <2>1, <2>2
  <2>5. QED  BY <1>15, <2>3, <2>4 DEF Callback
<1>16. ASSUME NEW l \in Logins, TimeOut(l)  PROVE TypeOK'
  BY <1>16 DEF TimeOut, Close
<1>17. ASSUME NEW l \in Logins, Inject(l)  PROVE TypeOK'
  <2>1. /\ code' = code \/ (code[l] < 1 /\ code' = [code EXCEPT ![l] = @ + 1])
        /\ err' = err \/ (err[l] < 1 /\ err' = [err EXCEPT ![l] = @ + 1])
    BY <1>17 DEF Inject
  <2>2. \A n \in 0..1 : n < 1 => n + 1 \in 0..1  OBVIOUS
  <2>3. code' \in [Logins -> 0..1]  BY <2>1, <2>2
  <2>4. err' \in [Logins -> 0..1]  BY <2>1, <2>2
  <2>5. QED  BY <1>17, <2>3, <2>4 DEF Inject
<1>18. ASSUME NEW l \in Logins, ClientGone(l)  PROVE TypeOK'
  BY <1>18 DEF ClientGone
<1>19. ASSUME NEW l \in Logins, CancelLogin(l)  PROVE TypeOK'
  BY <1>19 DEF CancelLogin, Unregister, Close
<1>20. ASSUME CancelCommand  PROVE TypeOK'
  <2>1. state' = NoState /\ UNCHANGED <<step, driver, pc, outcome, port, code, err, registered,
                                       row, userLogin>>
    BY <1>20 DEF CancelCommand
  <2>2. cancelled' \in [Logins -> BOOLEAN]
    <3>1. Read(state.login) \in BOOLEAN  BY DEF Read
    <3>2. CASE cancelled' = cancelled  BY <3>2
    <3>3. CASE cancelled' = [cancelled EXCEPT ![state.login] = Read(state.login)]
      BY <3>1, <3>3
    <3>4. QED  BY <1>20, <3>2, <3>3 DEF CancelCommand
  <2>3. QED  BY <2>1, <2>2
<1>21. ASSUME DeleteAccount \/ DeleteLogin \/ PasteToken  PROVE TypeOK'
  BY <1>21 DEF DeleteAccount, DeleteLogin, PasteToken, UpsertAccount
<1>22. ASSUME Restart  PROVE TypeOK'
  BY <1>22 DEF Restart
<1>23. ASSUME UNCHANGED vars  PROVE TypeOK'
  BY <1>23 DEF vars
<1>24. QED
  BY <1>1, <1>2, <1>3, <1>4, <1>5, <1>6, <1>7, <1>8, <1>9, <1>10, <1>11, <1>12, <1>13,
     <1>14, <1>15, <1>16, <1>17, <1>18, <1>19, <1>20, <1>21, <1>22, <1>23
     DEF Next, Submit, Serve

\* Every step keeps goroutines, steps and listeners together.
LEMMA PlacesStep ==
  ASSUME TypeOK, Places, [Next]_vars
  PROVE  Places'
<1> USE DEF TypeOK, Places, Logins, NoLogin, Goto, listener, account
<1>1. ASSUME NEW l \in Logins, NEW d \in {"bot", "client", "text"}, Begin(l, d)  PROVE Places'
  BY <1>1 DEF Begin, FirstStep, CurrentStep
<1>2. ASSUME NEW l \in Logins, SubmitEmail(l)  PROVE Places'
  BY <1>2 DEF SubmitEmail, UpsertAccount, MaySubmit
<1>3. ASSUME NEW l \in Logins, SubmitCredentials(l)  PROVE Places'
  BY <1>3 DEF SubmitCredentials, MaySubmit
<1>4. ASSUME NEW l \in Logins, SubmitFolders(l)  PROVE Places'
  BY <1>4 DEF SubmitFolders, CurrentStep, MaySubmit
<1>5. ASSUME NEW l \in Logins, SubmitConfirmation(l)  PROVE Places'
  BY <1>5, ZenonT(40) DEF SubmitConfirmation, CurrentStep, MaySubmit
<1>6. ASSUME NEW l \in Logins, StartListener(l)  PROVE Places'
  BY <1>6, ZenonT(40) DEF StartListener, Register, CurrentStep
<1>7. ASSUME NEW l \in Logins, BindFails(l)  PROVE Places'
  BY <1>7 DEF BindFails
<1>8. ASSUME NEW l \in Logins, TestConnection(l)  PROVE Places'
  <2>1. /\ pc[l] = "connect" /\ UNCHANGED <<port, registered>>
        /\ step' = step \/ step' = [step EXCEPT ![l] = "folder_selection"]
        /\ pc' = [pc EXCEPT ![l] = "dispatch"] \/ pc' = [pc EXCEPT ![l] = "complete"]
    BY <1>8 DEF TestConnection, CurrentStep
  <2>2. /\ step'[l] \in {step[l], "folder_selection"} /\ pc'[l] \in {"dispatch", "complete"}
        /\ \A k \in Logins \ {l} : pc'[k] = pc[k] /\ step'[k] = step[k]
    BY <2>1, ZenonT(40)
  <2>3. QED  BY <2>1, <2>2
<1>9. ASSUME NEW l \in Logins, Wait(l) \/ Poll(l)  PROVE Places'
  BY <1>9, AnswerPlaces, ZenonT(40)
<1>10. ASSUME NEW l \in Logins, FinishOAuthExchange(l)  PROVE Places'
  BY <1>10, ExchangePlaces, ZenonT(40)
<1>11. ASSUME NEW l \in Logins, CleanUp(l)  PROVE Places'
  BY <1>11 DEF CleanUp, Unregister, Close
<1>12. ASSUME NEW l \in Logins, CompleteRow(l)  PROVE Places'
  BY <1>12 DEF CompleteRow, UpsertAccount
<1>13. ASSUME NEW l \in Logins, NewLogin(l)  PROVE Places'
  BY <1>13 DEF NewLogin, Return
<1>14. ASSUME NEW l \in Logins, Dispatch(l)  PROVE Places'
  BY <1>14 DEF Dispatch, Return
<1>15. ASSUME NEW l \in Logins, Callback(l)  PROVE Places'
  BY <1>15 DEF Callback
<1>16. ASSUME NEW l \in Logins, TimeOut(l)  PROVE Places'
  BY <1>16 DEF TimeOut, Close
<1>17. ASSUME NEW l \in Logins, Inject(l)  PROVE Places'
  BY <1>17 DEF Inject
<1>18. ASSUME NEW l \in Logins, ClientGone(l)  PROVE Places'
  BY <1>18 DEF ClientGone
<1>19. ASSUME NEW l \in Logins, CancelLogin(l)  PROVE Places'
  BY <1>19 DEF CancelLogin, Unregister, Close
<1>20. ASSUME CancelCommand  PROVE Places'
  BY <1>20 DEF CancelCommand, Read
<1>21. ASSUME DeleteAccount \/ DeleteLogin \/ PasteToken  PROVE Places'
  BY <1>21 DEF DeleteAccount, DeleteLogin, PasteToken, UpsertAccount
<1>22. ASSUME Restart  PROVE Places'
  BY <1>22 DEF Restart
<1>23. ASSUME UNCHANGED vars  PROVE Places'
  BY <1>23 DEF vars
<1>24. QED
  BY <1>1, <1>2, <1>3, <1>4, <1>5, <1>6, <1>7, <1>8, <1>9, <1>10, <1>11, <1>12, <1>13,
     <1>14, <1>15, <1>16, <1>17, <1>18, <1>19, <1>20, <1>21, <1>22, <1>23
     DEF Next, Submit, Serve

\* The end of an exchange leaves the other logins with what they had.
LEMMA ExchangeReleases ==
  ASSUME TypeOK, ReleaseInv, NEW l \in Logins, FinishOAuthExchange(l)
  PROVE  \A k \in Logins \ {l} : Released(k)' \/ OnTheWay(k)'
<1> SUFFICES ASSUME NEW k \in Logins \ {l}  PROVE Released(k)' \/ OnTheWay(k)'
  OBVIOUS
<1>1. pc'[k] = pc[k] /\ step'[k] = step[k] /\ port' = port /\ registered' = registered
  BY ExchangePlaces
<1>2. Released(k) \/ OnTheWay(k)  BY DEF ReleaseInv
<1>3. QED  BY <1>1, <1>2 DEF Released, OnTheWay

\* No step lets go of a listener without releasing it.
LEMMA ReleaseStep ==
  ASSUME TypeOK, Places, ReleaseInv, [Next]_vars
  PROVE  ReleaseInv'
<1> USE DEF TypeOK, Places, ReleaseInv, Released, OnTheWay, Logins, NoLogin, Goto, listener, account
<1>1. ASSUME NEW l \in Logins, NEW d \in {"bot", "client", "text"}, Begin(l, d)  PROVE ReleaseInv'
  BY <1>1 DEF Begin, FirstStep, CurrentStep
<1>2. ASSUME NEW l \in Logins, SubmitEmail(l)  PROVE ReleaseInv'
  BY <1>2 DEF SubmitEmail, UpsertAccount, MaySubmit
<1>3. ASSUME NEW l \in Logins, SubmitCredentials(l)  PROVE ReleaseInv'
  BY <1>3 DEF SubmitCredentials, MaySubmit
<1>4. ASSUME NEW l \in Logins, SubmitFolders(l)  PROVE ReleaseInv'
  BY <1>4 DEF SubmitFolders, CurrentStep, MaySubmit
<1>5. ASSUME NEW l \in Logins, SubmitConfirmation(l)  PROVE ReleaseInv'
  BY <1>5 DEF SubmitConfirmation, CurrentStep, MaySubmit
<1>6. ASSUME NEW l \in Logins, StartListener(l)  PROVE ReleaseInv'
  BY <1>6, ZenonT(40) DEF StartListener, Register, CurrentStep
<1>7. ASSUME NEW l \in Logins, BindFails(l)  PROVE ReleaseInv'
  BY <1>7 DEF BindFails
<1>8. ASSUME NEW l \in Logins, TestConnection(l)  PROVE ReleaseInv'
  BY <1>8, ZenonT(40) DEF TestConnection, Return, CurrentStep
<1>9. ASSUME NEW l \in Logins, Wait(l) \/ Poll(l)  PROVE ReleaseInv'
  BY <1>9, AnswerPlaces, ZenonT(40)
<1>10. ASSUME NEW l \in Logins, FinishOAuthExchange(l)  PROVE ReleaseInv'
  <2>1. \A k \in Logins \ {l} : Released(k)' \/ OnTheWay(k)'  BY <1>10, ExchangeReleases
  <2>2. OnTheWay(l)'
    <3>1. step[l] = "oauth_wait"  BY <1>10, ExchangePlaces
    <3>2. QED  BY <1>10, <3>1, ExchangePlaces
  <2>3. QED  BY <2>1, <2>2
<1>11. ASSUME NEW l \in Logins, CleanUp(l)  PROVE ReleaseInv'
  BY <1>11 DEF CleanUp, Unregister, Close
<1>12. ASSUME NEW l \in Logins, CompleteRow(l)  PROVE ReleaseInv'
  BY <1>12 DEF CompleteRow, UpsertAccount
<1>13. ASSUME NEW l \in Logins, NewLogin(l)  PROVE ReleaseInv'
  BY <1>13 DEF NewLogin, Return
<1>14. ASSUME NEW l \in Logins, Dispatch(l)  PROVE ReleaseInv'
  BY <1>14 DEF Dispatch, Return
<1>15. ASSUME NEW l \in Logins, Callback(l)  PROVE ReleaseInv'
  BY <1>15 DEF Callback
<1>16. ASSUME NEW l \in Logins, TimeOut(l)  PROVE ReleaseInv'
  BY <1>16 DEF TimeOut, Close
<1>17. ASSUME NEW l \in Logins, Inject(l)  PROVE ReleaseInv'
  BY <1>17 DEF Inject
<1>18. ASSUME NEW l \in Logins, ClientGone(l)  PROVE ReleaseInv'
  BY <1>18 DEF ClientGone
<1>19. ASSUME NEW l \in Logins, CancelLogin(l)  PROVE ReleaseInv'
  BY <1>19 DEF CancelLogin, Unregister, Close
<1>20. ASSUME CancelCommand  PROVE ReleaseInv'
  BY <1>20 DEF CancelCommand, Read
<1>21. ASSUME DeleteAccount \/ DeleteLogin \/ PasteToken  PROVE ReleaseInv'
  BY <1>21 DEF DeleteAccount, DeleteLogin, PasteToken, UpsertAccount
<1>22. ASSUME Restart  PROVE ReleaseInv'
  BY <1>22 DEF Restart
<1>23. ASSUME UNCHANGED vars  PROVE ReleaseInv'
  BY <1>23 DEF vars
<1>24. QED
  BY <1>1, <1>2, <1>3, <1>4, <1>5, <1>6, <1>7, <1>8, <1>9, <1>10, <1>11, <1>12, <1>13,
     <1>14, <1>15, <1>16, <1>17, <1>18, <1>19, <1>20, <1>21, <1>22, <1>23
     DEF Next, Submit, Serve

-----------------------------------------------------------------------------
\* SignInInv is an invariant: a login that has a listener is on its way to the
\* cleanup that releases it.
THEOREM SignInInvariant == Spec => []SignInInv
<1>1. Init => SignInInv
  <2> SUFFICES ASSUME Init PROVE SignInInv  OBVIOUS
  <2>1. TypeOK
    <3>1. state \in {NoState} /\ registered \in {NoLogin}  BY DEF Init
    <3>2. /\ step \in [Logins -> {"unused", "oauth_email", "oauth_wait", "credentials",
                                "folder_selection", "confirmation", "over"}]
          /\ driver \in [Logins -> {"bot", "client", "text"}]
          /\ pc \in [Logins -> {"idle", "bind", "connect", "wait", "poll", "exchange", "complete",
                              "newlogin", "cleanup", "dispatch"}]
      BY DEF Init
    <3>3. /\ outcome \in [Logins -> {"none", "prompt", "failed", "complete"}]
          /\ cancelled \in [Logins -> BOOLEAN]
          /\ port \in [Logins -> {"unbound", "open", "closed"}]
      BY DEF Init
    <3>4. code \in [Logins -> 0..1] /\ err \in [Logins -> 0..1]  BY DEF Init
    <3>5. row \in {"absent", "empty", "password", "oauth"} /\ userLogin \in BOOLEAN
      BY DEF Init
    <3>6. QED  BY <3>1, <3>2, <3>3, <3>4, <3>5 DEF TypeOK
  <2>2. Places /\ ReleaseInv
    BY DEF Init, Places, ReleaseInv, Released, Logins, NoLogin
  <2>3. QED  BY <2>1, <2>2 DEF SignInInv
<1>2. SignInInv /\ [Next]_vars => SignInInv'
  BY TypeStep, PlacesStep, ReleaseStep DEF SignInInv
<1>3. QED  BY <1>1, <1>2, PTL DEF Spec

\* Every field of the logins, listeners and the account keeps its type.
THEOREM SignInTypes == Spec => []TypeOK
<1>1. SignInInv => TypeOK  BY DEF SignInInv
<1>2. QED  BY <1>1, SignInInvariant, PTL

\* Once Wait has returned, its port is closed and its entry is gone.
THEOREM SignInNothingLeftBehind == Spec => []NothingLeftBehind
<1>1. SignInInv => NothingLeftBehind
  BY DEF SignInInv, NothingLeftBehind, Past, ReleaseInv, Released, OnTheWay
<1>2. QED  BY <1>1, SignInInvariant, PTL

\* Only the login itself, a newer one or a restart takes an entry out.
LEMMA EntryStep ==
  ASSUME TypeOK, Places, [Next]_vars
  PROVE  \A k \in Logins :
           registered = k /\ registered' = NoLogin => pc[k] # pc'[k] \/ port'[k] = "closed"
<1> DEFINE Kept == \A k \in Logins : registered = k /\ registered' = NoLogin
                                     => pc[k] # pc'[k] \/ port'[k] = "closed"
<1> USE DEF TypeOK, Places, Logins, NoLogin, Goto, listener, account
<1>1. ASSUME NEW l \in Logins, StartListener(l)  PROVE Kept
  BY <1>1 DEF StartListener, Register
<1>2. ASSUME NEW l \in Logins, CleanUp(l)  PROVE Kept
  BY <1>2 DEF CleanUp, Unregister, Close
<1>3. ASSUME NEW l \in Logins, CancelLogin(l)  PROVE Kept
  BY <1>3 DEF CancelLogin, Unregister, Close
<1>4. CASE Restart  BY <1>4 DEF Restart
<1>5. ASSUME NEW l \in Logins,
             \/ \E d \in {"bot", "client", "text"} : Begin(l, d)
             \/ Submit(l) \/ BindFails(l) \/ TestConnection(l) \/ CompleteRow(l)
             \/ NewLogin(l) \/ Dispatch(l) \/ Callback(l) \/ TimeOut(l) \/ Inject(l)
             \/ ClientGone(l)
      PROVE  registered' = registered
  BY <1>5 DEF Begin, Submit, SubmitEmail, SubmitCredentials, SubmitFolders, SubmitConfirmation,
              BindFails, TestConnection, CompleteRow, NewLogin, Dispatch, Callback, TimeOut,
              Inject, ClientGone
<1>6. ASSUME NEW l \in Logins, Wait(l) \/ Poll(l) \/ FinishOAuthExchange(l)
      PROVE  registered' = registered
  BY <1>6, AnswerPlaces, ExchangePlaces
<1>7. ASSUME CancelCommand \/ DeleteAccount \/ DeleteLogin \/ PasteToken \/ UNCHANGED vars
      PROVE  registered' = registered
  BY <1>7 DEF CancelCommand, DeleteAccount, DeleteLogin, PasteToken, vars
<1>8. QED  BY <1>1, <1>2, <1>3, <1>4, <1>5, <1>6, <1>7 DEF Next, Serve

\* No other login's cleanup or Cancel takes an entry out of the registry.
THEOREM SignInEntryKept == Spec => EntryKept
<1>1. SignInInv /\ [Next]_vars =>
        [\A l \in Logins : registered = l /\ registered' = NoLogin
                             => pc[l] # pc'[l] \/ port'[l] = "closed"]_vars
  BY EntryStep DEF SignInInv
<1>2. QED  BY <1>1, SignInInvariant, PTL DEF Spec, EntryKept
-----------------------------------------------------------------------------
\* Wait has a reason to return, or a timer that will give it one: a bot's login
\* that waits has its listener open, an answer to read, or a cancelled context.
WaitIsWoken ==
  \A l \in Logins : pc[l] = "wait" /\ driver[l] = "bot" =>
    port[l] = "open" \/ code[l] > 0 \/ err[l] > 0 \/ cancelled[l]

\* Whoever closes the listener of a waiting login has left something to read.
LEMMA WokenStep ==
  ASSUME TypeOK, Places, WaitIsWoken, [Next]_vars
  PROVE  WaitIsWoken'
<1> USE DEF TypeOK, WaitIsWoken, Logins, NoLogin, Goto, listener, account
<1>1. ASSUME NEW l \in Logins, \E d \in {"bot", "client", "text"} : Begin(l, d)
      PROVE  WaitIsWoken'
  <2>1. /\ pc'[l] # "wait"
        /\ \A k \in Logins \ {l} : pc'[k] = pc[k] /\ driver'[k] = driver[k]
        /\ UNCHANGED <<cancelled, port, code, err>>
    BY <1>1 DEF Begin
  <2>2. QED  BY <2>1
<1>2. ASSUME NEW l \in Logins, StartListener(l)  PROVE WaitIsWoken'
  <2>1. /\ port' = [port EXCEPT ![l] = "open"]
        /\ \A k \in Logins \ {l} : pc'[k] = pc[k]
        /\ UNCHANGED <<driver, cancelled, code, err>>
    BY <1>2 DEF StartListener
  <2>2. QED  BY <2>1
<1>3. ASSUME NEW l \in Logins,
             \/ Submit(l) \/ BindFails(l) \/ TestConnection(l) \/ FinishOAuthExchange(l)
             \/ CompleteRow(l) \/ NewLogin(l) \/ Dispatch(l)
      PROVE  WaitIsWoken'
  <2>1. /\ pc' = pc \/ \E p : p # "wait" /\ pc' = [pc EXCEPT ![l] = p]
        /\ UNCHANGED <<driver, cancelled, port, code, err>>
    BY <1>3 DEF Submit, SubmitEmail, SubmitCredentials, SubmitFolders, SubmitConfirmation,
                BindFails, TestConnection, FinishOAuthExchange, CompleteRow, NewLogin, Dispatch
  <2>2. QED  BY <2>1
<1>4. ASSUME NEW l \in Logins, Wait(l) \/ Poll(l)  PROVE WaitIsWoken'
  <2>1. /\ pc'[l] # "wait"
        /\ \A k \in Logins \ {l} : pc'[k] = pc[k]
        /\ UNCHANGED <<driver, port>>
    BY <1>4, AnswerPlaces, AnswerStep
  <2>2. \A k \in Logins \ {l} : code'[k] = code[k] /\ err'[k] = err[k]
    <3>1. code' = [code EXCEPT ![l] = 0] /\ err' = [err EXCEPT ![l] = 0]
      BY <1>4, AnswerStep
    <3>2. QED  BY <3>1
  <2>3. \A k \in Logins \ {l} : cancelled'[k] = cancelled[k]
    <3>1. cancelled' = [cancelled EXCEPT ![l] = FALSE]  BY <1>4, AnswerStep
    <3>2. QED  BY <3>1
  <2>4. QED  BY <2>1, <2>2, <2>3
<1>5. ASSUME NEW l \in Logins, CleanUp(l)  PROVE WaitIsWoken'
  <2>1. /\ pc' = [pc EXCEPT ![l] = "dispatch"] /\ port' = [port EXCEPT ![l] = "closed"]
        /\ UNCHANGED <<driver, cancelled, code, err>>
    BY <1>5 DEF CleanUp, Close
  <2>2. QED  BY <2>1
<1>6. ASSUME NEW l \in Logins, Callback(l) \/ Inject(l)  PROVE WaitIsWoken'
  <2>1. /\ code' = code \/ code' = [code EXCEPT ![l] = @ + 1]
        /\ err' = err \/ err' = [err EXCEPT ![l] = @ + 1]
        /\ UNCHANGED <<pc, driver, port, cancelled>>
    BY <1>6 DEF Callback, Inject
  <2>2. ASSUME NEW k \in Logins  PROVE code[k] > 0 => code'[k] > 0
    <3>1. code[k] \in 0..1  OBVIOUS
    <3>2. CASE code' = code  BY <3>2
    <3>3. CASE code' = [code EXCEPT ![l] = @ + 1]
      <4>1. code'[k] = code[k] \/ code'[k] = code[k] + 1  BY <3>3
      <4>2. QED  BY <3>1, <4>1
    <3>4. QED  BY <2>1, <3>2, <3>3
  <2>3. ASSUME NEW k \in Logins  PROVE err[k] > 0 => err'[k] > 0
    <3>1. err[k] \in 0..1  OBVIOUS
    <3>2. CASE err' = err  BY <3>2
    <3>3. CASE err' = [err EXCEPT ![l] = @ + 1]
      <4>1. err'[k] = err[k] \/ err'[k] = err[k] + 1  BY <3>3
      <4>2. QED  BY <3>1, <4>1
    <3>4. QED  BY <2>1, <3>2, <3>3
  <2>4. QED  BY <2>1, <2>2, <2>3
<1>7. ASSUME NEW l \in Logins, TimeOut(l)  PROVE WaitIsWoken'
  <2>1. /\ \A k \in Logins \ {l} : port'[k] = port[k] /\ err'[k] = err[k]
        /\ UNCHANGED <<pc, driver, cancelled, code>>
    BY <1>7 DEF TimeOut, Close
  <2>2. pc[l] = "wait" => err'[l] > 0
    <3>1. pc[l] = "wait" => err'[l] = IF err[l] < 1 THEN err[l] + 1 ELSE err[l]
      BY <1>7 DEF TimeOut, Read
    <3>2. err[l] \in 0..1  OBVIOUS
    <3>3. QED  BY <3>1, <3>2
  <2>3. QED  BY <2>1, <2>2
<1>8. ASSUME NEW l \in Logins, ClientGone(l)  PROVE WaitIsWoken'
  <2>1. cancelled' = [cancelled EXCEPT ![l] = TRUE] /\ UNCHANGED <<pc, driver, port, code, err>>
    BY <1>8 DEF ClientGone
  <2>2. QED  BY <2>1
<1>9. ASSUME NEW l \in Logins, CancelLogin(l)  PROVE WaitIsWoken'
  <2>1. /\ driver[l] = "client" /\ port' = [port EXCEPT ![l] = "closed"]
        /\ UNCHANGED <<pc, driver, cancelled, code, err>>
    BY <1>9 DEF CancelLogin, Close
  <2>2. QED  BY <2>1
<1>10. ASSUME CancelCommand  PROVE WaitIsWoken'
  <2>1. UNCHANGED <<pc, driver, port, code, err>>  BY <1>10 DEF CancelCommand
  <2>2. ASSUME NEW l \in Logins, pc[l] = "wait", cancelled[l]  PROVE cancelled'[l]
    <3>1. CASE cancelled' = cancelled  BY <2>2, <3>1
    <3>2. CASE cancelled' = [cancelled EXCEPT ![state.login] = Read(state.login)]
      <4>1. Read(l) = TRUE  BY <2>2 DEF Read
      <4>2. cancelled'[l] = IF l = state.login THEN Read(state.login) ELSE cancelled[l]
        BY <3>2
      <4>3. CASE l = state.login  BY <4>1, <4>2, <4>3
      <4>4. CASE l # state.login  BY <2>2, <4>2, <4>4
      <4>5. QED  BY <4>3, <4>4
    <3>3. QED  BY <1>10, <3>1, <3>2 DEF CancelCommand
  <2>3. QED  BY <2>1, <2>2
<1>11. ASSUME Restart  PROVE WaitIsWoken'
  BY <1>11 DEF Restart
<1>12. ASSUME DeleteAccount \/ DeleteLogin \/ PasteToken \/ UNCHANGED vars  PROVE WaitIsWoken'
  <2>1. UNCHANGED <<pc, driver, port, code, err, cancelled>>
    BY <1>12 DEF DeleteAccount, DeleteLogin, PasteToken, vars
  <2>2. QED  BY <2>1
<1>13. QED
  BY <1>1, <1>2, <1>3, <1>4, <1>5, <1>6, <1>7, <1>8, <1>9, <1>10, <1>11, <1>12
     DEF Next, Serve

\* The safety half of WaitReturns, for any number of logins: no listener is closed
\* behind the back of a Wait that the bot runs (Close, the callback timeout, cancel).
THEOREM SignInWaitIsWoken == Spec => []WaitIsWoken
<1>1. Init => WaitIsWoken  BY DEF Init, WaitIsWoken
<1>2. SignInInv /\ WaitIsWoken /\ [Next]_vars => WaitIsWoken'  BY WokenStep DEF SignInInv
<1>3. QED  BY <1>1, <1>2, SignInInvariant, PTL DEF Spec
=============================================================================
