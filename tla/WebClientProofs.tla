---------------------------- MODULE WebClientProofs ----------------------------
(***************************************************************************)
(* The parts of janv-web-next side by side: what is proved of each alone   *)
(* holds of all together.                                                  *)
(***************************************************************************)
EXTENDS WebClient, SessionProofs, FormsProofs, TestCreationProofs, ScreensProofs

\* A step of the composition is, for each part, one of its steps or none.
THEOREM WebParts ==
  WebSpec => /\ SessionSpec /\ CreateSpec /\ SectionsSpec /\ CreationSpec /\ QuestionsSpec
             /\ MyTestsSpec /\ ExamSpec /\ ListingsSpec /\ CardSpec /\ EditorSpec
<1> USE DEF WebNext, webVars, SessionScene, CreateScene, SectionsScene, CreationScene,
            QuestionsScene, MyTestsScene, ExamScene, ListingsScene, CardScene, EditorScene
<1>1. WebInit => /\ SessionInit /\ CreateInit /\ SectionsInit /\ CreationInit /\ QuestionsInit
                 /\ MyTestsInit /\ ExamInit /\ ListingsInit /\ CardInit /\ EditorInit
  BY DEF WebInit
<1>2. [WebNext]_webVars => [SessionNext]_sessionVars
  OBVIOUS
<1>3. [WebNext]_webVars => [CreateNext]_createVars
  OBVIOUS
<1>4. [WebNext]_webVars => [SectionsNext]_sectionVars
  OBVIOUS
<1>5. [WebNext]_webVars => [CreationNext]_creationVars
  OBVIOUS
<1>6. [WebNext]_webVars => [QuestionsNext]_questionVars
  OBVIOUS
<1>7. [WebNext]_webVars => [MyTestsNext]_myTestsVars
  OBVIOUS
<1>8. [WebNext]_webVars => [ExamNext]_examVars
  OBVIOUS
<1>9. [WebNext]_webVars => [ListingsNext]_listingVars
  OBVIOUS
<1>10. [WebNext]_webVars => [CardNext]_cardVars
  OBVIOUS
<1>20. [WebNext]_webVars => [EditorNext]_editorVars
  OBVIOUS
<1> HIDE DEF WebNext, webVars, SessionScene, CreateScene, SectionsScene, CreationScene,
             QuestionsScene, MyTestsScene, ExamScene, ListingsScene, CardScene, EditorScene
<1>11. WebSpec => SessionSpec
  BY <1>1, <1>2, PTL DEF WebSpec, SessionSpec
<1>12. WebSpec => CreateSpec
  BY <1>1, <1>3, PTL DEF WebSpec, CreateSpec
<1>13. WebSpec => SectionsSpec
  BY <1>1, <1>4, PTL DEF WebSpec, SectionsSpec
<1>14. WebSpec => CreationSpec
  BY <1>1, <1>5, PTL DEF WebSpec, CreationSpec
<1>15. WebSpec => QuestionsSpec
  BY <1>1, <1>6, PTL DEF WebSpec, QuestionsSpec
<1>16. WebSpec => MyTestsSpec
  BY <1>1, <1>7, PTL DEF WebSpec, MyTestsSpec
<1>17. WebSpec => ExamSpec
  BY <1>1, <1>8, PTL DEF WebSpec, ExamSpec
<1>18. WebSpec => ListingsSpec
  BY <1>1, <1>9, PTL DEF WebSpec, ListingsSpec
<1>19. WebSpec => CardSpec
  BY <1>1, <1>10, PTL DEF WebSpec, CardSpec
<1>21. WebSpec => EditorSpec
  BY <1>1, <1>20, PTL DEF WebSpec, EditorSpec
<1> QED
  BY <1>11, <1>12, <1>13, <1>14, <1>15, <1>16, <1>17, <1>18, <1>19, <1>21

\* Every variable of every part has its type.
THEOREM WebTypes == WebSpec => []WebTypeOK
<1>1. /\ SessionTypeOK /\ CreateTypeOK /\ SectionsTypeOK /\ CreationTypeOK /\ QuestionsTypeOK
      /\ MyTestsTypeOK /\ ExamTypeOK /\ ListingsTypeOK /\ CardTypeOK /\ EditorTypeOK
      => WebTypeOK
  BY DEF WebTypeOK
<1> QED
  BY <1>1, WebParts, SessionTypes, CreateTypes, SectionsTypes, CreationTypes, QuestionsTypes,
     MyTestsTypes, ExamTypes, ListingsTypes, CardTypes, EditorTypes, PTL

\* What each page promises, it promises among the others: who is signed in, what the
\* wizard and the forms keep, what the database holds of a draft, what screens show.
THEOREM WebSafety ==
  WebSpec => /\ [](ActsAsShown /\ RowSpentOnce /\ StoredIsKnown)
             /\ [](AllIsAll /\ LockedShowsSaved /\ SentComplete) /\ CodeKept
             /\ [](OneTestPerDraft /\ SuccessMeansWhole /\ LastSectionStays)
             /\ [](OneRightAnswer /\ LastSaveStands /\ QuestionsAccounted)
             /\ [](RowsAreTrue /\ BadgeNamesTab /\ GradedAsShown /\ TimeUpSubmits)
             /\ [](TableAnswersQuery /\ PageExists /\ NewestShown /\ ZeroFetches)
             /\ [](PublishedAsTicked /\ PublishedHasQuestions)
<1>1. SessionSpec => [](ActsAsShown /\ RowSpentOnce /\ StoredIsKnown)
  BY Acts, SpentOnce, WhatIsStored, PTL
<1>2. CreateSpec => []AllIsAll /\ CodeKept
  BY CreateAll, CreateCode
<1>3. SectionsSpec => [](LockedShowsSaved /\ SentComplete)
  BY SectionsShown, SectionsSent, PTL
<1>4. CreationSpec => [](OneTestPerDraft /\ SuccessMeansWhole /\ LastSectionStays)
  BY OneTest, Whole, LastSection, PTL
<1>5. QuestionsSpec => [](OneRightAnswer /\ LastSaveStands /\ QuestionsAccounted)
  BY QuestionsRight, QuestionsLastSave, QuestionsCounted, PTL
<1>6. MyTestsSpec => [](RowsAreTrue /\ BadgeNamesTab)
  BY MyTestsRows, MyTestsTabs, PTL
<1>7. ExamSpec => [](GradedAsShown /\ TimeUpSubmits)
  BY ExamGrades, ExamTimeUp, PTL
<1>8. ListingsSpec => [](TableAnswersQuery /\ PageExists)
  BY ListingsAnswer, ListingsPages, PTL
<1>9. CardSpec => [](NewestShown /\ ZeroFetches)
  BY CardShowsNewest, CardFetchesAtZero, PTL
<1>10. EditorSpec => [](PublishedAsTicked /\ PublishedHasQuestions)
  BY EditorPublishes, EditorCounts, PTL
<1> QED
  BY <1>1, <1>2, <1>3, <1>4, <1>5, <1>6, <1>7, <1>8, <1>9, <1>10, WebParts, PTL

=============================================================================
