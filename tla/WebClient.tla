------------------------------- MODULE WebClient -------------------------------
(***************************************************************************)
(* The parts of janv-web-next side by side. They share no state of the     *)
(* client: a page that is left loses its state, and what outlives it (the  *)
(* draft in sessionStorage, the tokens, the rows on the server) belongs to *)
(* one of the parts below. So a behaviour is about one of them, scene.     *)
(***************************************************************************)
EXTENDS Session, CreateTest, SectionForms, TestCreation, QuestionForms, MyTests, ExamPage,
        Listings, PasscodeCard, TestEditor

VARIABLE scene  \* the part that this behaviour is about

webVars == <<scene, sessionVars, createVars, sectionVars, creationVars, questionVars,
             myTestsVars, examVars, listingVars, cardVars, editorVars>>

Scenes == {"session", "create", "sections", "creation", "questions", "my tests", "exam",
           "listings", "card", "editor"}

WebInit ==
    /\ scene \in Scenes
    /\ SessionInit /\ CreateInit /\ SectionsInit /\ CreationInit /\ QuestionsInit
    /\ MyTestsInit /\ ExamInit /\ ListingsInit /\ CardInit /\ EditorInit
    \* the questions a test begins with are the editor's matter
    /\ scene # "editor" => linked = {}

-----------------------------------------------------------------------------
(* A step of one part leaves the others as they are *)

SessionScene ==
    /\ scene = "session"
    /\ SessionNext
    /\ UNCHANGED <<scene, createVars, sectionVars, creationVars, questionVars,
                   myTestsVars, examVars, listingVars, cardVars, editorVars>>

CreateScene ==
    /\ scene = "create"
    /\ CreateNext
    /\ UNCHANGED <<scene, sessionVars, sectionVars, creationVars, questionVars,
                   myTestsVars, examVars, listingVars, cardVars, editorVars>>

SectionsScene ==
    /\ scene = "sections"
    /\ SectionsNext
    /\ UNCHANGED <<scene, sessionVars, createVars, creationVars, questionVars,
                   myTestsVars, examVars, listingVars, cardVars, editorVars>>

CreationScene ==
    /\ scene = "creation"
    /\ CreationNext
    /\ UNCHANGED <<scene, sessionVars, createVars, sectionVars, questionVars,
                   myTestsVars, examVars, listingVars, cardVars, editorVars>>

QuestionsScene ==
    /\ scene = "questions"
    /\ QuestionsNext
    /\ UNCHANGED <<scene, sessionVars, createVars, sectionVars, creationVars,
                   myTestsVars, examVars, listingVars, cardVars, editorVars>>

MyTestsScene ==
    /\ scene = "my tests"
    /\ MyTestsNext
    /\ UNCHANGED <<scene, sessionVars, createVars, sectionVars, creationVars,
                   questionVars, examVars, listingVars, cardVars, editorVars>>

ExamScene ==
    /\ scene = "exam"
    /\ ExamNext
    /\ UNCHANGED <<scene, sessionVars, createVars, sectionVars, creationVars,
                   questionVars, myTestsVars, listingVars, cardVars, editorVars>>

ListingsScene ==
    /\ scene = "listings"
    /\ ListingsNext
    /\ UNCHANGED <<scene, sessionVars, createVars, sectionVars, creationVars,
                   questionVars, myTestsVars, examVars, cardVars, editorVars>>

CardScene ==
    /\ scene = "card"
    /\ CardNext
    /\ UNCHANGED <<scene, sessionVars, createVars, sectionVars, creationVars,
                   questionVars, myTestsVars, examVars, listingVars, editorVars>>

EditorScene ==
    /\ scene = "editor"
    /\ EditorNext
    /\ UNCHANGED <<scene, sessionVars, createVars, sectionVars, creationVars, questionVars,
                   myTestsVars, examVars, listingVars, cardVars>>

WebNext ==
    \/ SessionScene \/ CreateScene \/ SectionsScene \/ CreationScene
    \/ QuestionsScene \/ MyTestsScene \/ ExamScene \/ ListingsScene
    \/ CardScene \/ EditorScene

WebSpec == WebInit /\ [][WebNext]_webVars

\* Every variable of every part has its type.
WebTypeOK ==
    /\ SessionTypeOK /\ CreateTypeOK /\ SectionsTypeOK /\ CreationTypeOK /\ QuestionsTypeOK
    /\ MyTestsTypeOK /\ ExamTypeOK /\ ListingsTypeOK /\ CardTypeOK /\ EditorTypeOK

=============================================================================
