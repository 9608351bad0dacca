---------------------------- MODULE Access_proofs ----------------------------
(***************************************************************************)
(* What the policies of an account keep, however many constructs it has,   *)
(* whatever their props, their order and the names they give each other.   *)
(***************************************************************************)
EXTENDS Access, SequenceFacts

-----------------------------------------------------------------------------
(* What a constructor may add.  It writes the policies of resources of its *)
(* own only, and the identity policies of its own roles; into a role it    *)
(* was given the name of it puts allowances, never a denial.               *)
Own(self, adds) ==
  /\ \A on \in DOMAIN adds.policy : Maker(on) = self
  /\ \A id \in DOMAIN adds.identity :
       \/ Len(id) > 1 /\ Maker(id) = self
       \/ \A s \in adds.identity[id] : s.effect = "Allow"

LEMMA AllowAllows ==
  ASSUME NEW principals, NEW actions, NEW resources
  PROVE  Allow(principals, actions, resources).effect = "Allow"
BY DEF Allow, Statement, ++

LEMMA SecretIsOwn == ASSUME NEW self, NEW props PROVE Own(self, Secret(self, props))
<1>1. DOMAIN Secret(self, props).identity = {}
  <2>1. Secret(self, props).identity = EmptyMap
    BY DEF Secret, Adds
  <2>2. DOMAIN EmptyMap = {}
    BY DEF EmptyMap
  <2>3. QED
    BY <2>1, <2>2
<1> DEFINE keys   == IF Given(props, "createKmsKey", TRUE) THEN {<<self, "Key">>} ELSE {}
           topics == IF Is(props, "createSns") THEN {<<self, "Topic">>} ELSE {}
<1>2. DOMAIN Secret(self, props).policy = {<<self, "Secret">>} \cup keys \cup topics
  BY DEF Secret, Adds, ++, Only
<1>3. keys \subseteq {<<self, "Key">>} /\ topics \subseteq {<<self, "Topic">>}
  BY Zenon
<1> HIDE DEF keys, topics
<1>4. \A on \in DOMAIN Secret(self, props).policy : Maker(on) = self
  BY <1>2, <1>3 DEF Maker
<1>5. QED
  BY <1>1, <1>4 DEF Own

LEMMA StorageIsOwn ==
  ASSUME NEW self, NEW props
  PROVE  /\ Own(self, SqsQueue(self, props))
         /\ Own(self, Sns(self, props))
         /\ Own(self, Secret(self, props))
         /\ Own(self, S3Bucket(self, props))
         /\ Own(self, S3LogStorage(self, props))
         /\ Own(self, S3Website(self, props))
         /\ Own(self, CloudTrail(self, props))
<1> USE DEF Own, Adds, ++, Only, Maker, EmptyMap
<1>1. Own(self, SqsQueue(self, props))
  BY DEF SqsQueue
<1>2. Own(self, Sns(self, props))
  BY DEF Sns
<1>3. Own(self, Secret(self, props))
  BY SecretIsOwn
<1>4. Own(self, S3Bucket(self, props))
  BY DEF S3Bucket
<1>5. Own(self, S3LogStorage(self, props))
  BY DEF S3LogStorage
<1>6. Own(self, S3Website(self, props))
  BY DEF S3Website
<1>7. Own(self, CloudTrail(self, props))
  BY DEF CloudTrail
<1>8. QED
  BY <1>1, <1>2, <1>3, <1>4, <1>5, <1>6, <1>7

LEMMA RolesAreOwn ==
  ASSUME NEW self, NEW props
  PROVE  /\ Own(self, StepFunctions(self, props))
         /\ Own(self, LambdaFunction(self, props))
         /\ Own(self, SfnErrorNotification(self, props))
         /\ Own(self, LambdaErrorNotification(self, props))
         /\ Own(self, ExpressSfnErrorNotification(self, props))
         /\ Own(self, Slackbot(self, props))
         /\ Own(self, CloudwatchFlowLogs(self, props))
         /\ Own(self, Ses(self, props))
         /\ Own(self, CloudwatchEvents(self, props))
         /\ Own(self, EventbridgeRule(self, props))
         /\ \A docs : Own(self, IamRole(self, props, docs))
<1> USE DEF Own, Adds, ++, Only, Maker, EmptyMap
<1>1. Own(self, StepFunctions(self, props))
  BY DEF StepFunctions
<1>2. Own(self, LambdaFunction(self, props))
  BY DEF LambdaFunction
<1>3. Own(self, SfnErrorNotification(self, props))
  BY DEF SfnErrorNotification
<1>4. Own(self, LambdaErrorNotification(self, props))
  BY AllowAllows DEF LambdaErrorNotification
<1>5. Own(self, ExpressSfnErrorNotification(self, props))
  BY DEF ExpressSfnErrorNotification
<1>6. Own(self, Slackbot(self, props))
  <2>1. /\ DOMAIN Slackbot(self, props).policy
             = {<<self, "Topic">>, <<self, "LambdaRole">>, <<self, "Handler">>, <<self, "LogGroup">>}
        /\ DOMAIN Slackbot(self, props).identity = {<<self, "LambdaRole">>}
    BY Zenon DEF Slackbot
  <2>2. QED
    BY <2>1
<1>7. Own(self, CloudwatchFlowLogs(self, props))
  BY DEF CloudwatchFlowLogs
<1>8. Own(self, Ses(self, props))
  <2>1. /\ DOMAIN Ses(self, props).policy = {<<self, "Identity">>}
        /\ DOMAIN Ses(self, props).identity \subseteq {<<self, "User">>}
    BY Zenon DEF Ses
  <2>2. QED
    BY <2>1
<1>9. Own(self, CloudwatchEvents(self, props)) /\ Own(self, EventbridgeRule(self, props))
  BY DEF CloudwatchEvents, EventbridgeRule
<1>10. \A docs : Own(self, IamRole(self, props, docs))
  BY DEF IamRole
<1>11. QED
  BY <1>1, <1>2, <1>3, <1>4, <1>5, <1>6, <1>7, <1>8, <1>9, <1>10

-----------------------------------------------------------------------------
(* One step: a construct adds what is its own, and for the classes the     *)
(* properties are about the very additions of the class; or an IamPolicy   *)
(* writes its document and nothing else.                                   *)
Contributes(self, class, props, adds) ==
  /\ Own(self, adds)
  /\ class # "IamPolicy"
  /\ class = "SqsQueue" => adds = SqsQueue(self, props)
  /\ class = "S3Bucket" => adds = S3Bucket(self, props)
  /\ class = "S3LogStorage" => adds = S3LogStorage(self, props)
  /\ class = "Secret" => props \in Options.Secret /\ adds = Secret(self, props)
  /\ class = "IamRole" =>
       \A d \in props.policyDocuments :
         <<self, "Role">> \in DOMAIN adds.identity /\ d \subseteq adds.identity[<<self, "Role">>]

Step(self) ==
  \/ \E class \in Class : \E props, adds :
       New(self, class, props, adds) /\ Contributes(self, class, props, adds)
  \/ \E props, docs : NewIamPolicy(self, props, docs)

LEMMA RoleTakesDocuments ==
  ASSUME NEW self, NEW props, NEW docs,
         NEW d \in ([policyDocuments |-> docs] ++ props).policyDocuments
  PROVE  /\ <<self, "Role">> \in DOMAIN IamRole(self, props, docs).identity
         /\ d \subseteq IamRole(self, props, docs).identity[<<self, "Role">>]
<1>1. d \in docs
  BY DEF ++
<1>2. d \subseteq mergePolicyDocuments(docs \cup Given(props, "inlinePolicies", {}))
  BY <1>1 DEF mergePolicyDocuments, parseDocumentStatements
<1>3. QED
  BY <1>2 DEF IamRole, Adds, Only

LEMMA StepIs == Next => \E self \in Ids : Step(self)
<1> SUFFICES ASSUME NEW self \in Ids,
               \/ \E props \in Options.SqsQueue : NewSqsQueue(self, props)
               \/ \E props \in Options.Sns : NewSns(self, props)
               \/ \E props \in Options.Secret : NewSecret(self, props)
               \/ \E props \in Options.S3Bucket : NewS3Bucket(self, props)
               \/ \E props \in Options.S3LogStorage : NewS3LogStorage(self, props)
               \/ \E props \in Options.S3Website : NewS3Website(self, props)
               \/ \E props \in Options.CloudTrail : NewCloudTrail(self, props)
               \/ \E props \in Options.Slackbot : NewSlackbot(self, props)
               \/ \E props \in Options.Ses : NewSes(self, props)
               \/ \E props \in Options.StepFunctions : NewStepFunctions(self, props)
               \/ \E props \in Options.LambdaFunction : NewLambdaFunction(self, props)
               \/ \E props \in Options.SfnErrorNotification : NewSfnErrorNotification(self, props)
               \/ \E props \in Options.LambdaErrorNotification : NewLambdaErrorNotification(self, props)
               \/ \E props \in Options.ExpressSfnErrorNotification :
                    NewExpressSfnErrorNotification(self, props)
               \/ \E props \in Options.CloudwatchFlowLogs : NewCloudwatchFlowLogs(self, props)
               \/ \E props \in Options.CloudwatchEvents : NewCloudwatchEvents(self, props)
               \/ \E props \in Options.EventbridgeRule : NewEventbridgeRule(self, props)
               \/ \E props \in Options.IamRole, docs \in Jsons : NewIamRole(self, props, docs)
               \/ \E props \in Options.IamPolicy, docs \in Jsons : NewIamPolicy(self, props, docs)
             PROVE  Step(self)
  BY DEF Next
<1> USE DEF Step, Class, Contributes
<1>1. ASSUME NEW props PROVE NewSqsQueue(self, props) => Step(self)
  BY StorageIsOwn DEF NewSqsQueue
<1>2. ASSUME NEW props PROVE NewSns(self, props) => Step(self)
  BY StorageIsOwn DEF NewSns
<1>3. ASSUME NEW props \in Options.Secret PROVE NewSecret(self, props) => Step(self)
  BY StorageIsOwn DEF NewSecret
<1>4. ASSUME NEW props PROVE NewS3Bucket(self, props) => Step(self)
  BY StorageIsOwn DEF NewS3Bucket
<1>5. ASSUME NEW props PROVE NewS3LogStorage(self, props) => Step(self)
  BY StorageIsOwn DEF NewS3LogStorage
<1>6. ASSUME NEW props PROVE NewS3Website(self, props) => Step(self)
  BY StorageIsOwn DEF NewS3Website
<1>7. ASSUME NEW props PROVE NewCloudTrail(self, props) => Step(self)
  BY StorageIsOwn DEF NewCloudTrail
<1>8. ASSUME NEW props PROVE NewSlackbot(self, props) => Step(self)
  BY RolesAreOwn DEF NewSlackbot
<1>9. ASSUME NEW props PROVE NewSes(self, props) => Step(self)
  BY RolesAreOwn DEF NewSes
<1>10. ASSUME NEW props PROVE NewStepFunctions(self, props) => Step(self)
  BY RolesAreOwn DEF NewStepFunctions
<1>11. ASSUME NEW props PROVE NewLambdaFunction(self, props) => Step(self)
  BY RolesAreOwn DEF NewLambdaFunction
<1>12. ASSUME NEW props PROVE NewSfnErrorNotification(self, props) => Step(self)
  BY RolesAreOwn DEF NewSfnErrorNotification
<1>13. ASSUME NEW props PROVE NewLambdaErrorNotification(self, props) => Step(self)
  BY RolesAreOwn DEF NewLambdaErrorNotification
<1>14. ASSUME NEW props PROVE NewExpressSfnErrorNotification(self, props) => Step(self)
  BY RolesAreOwn DEF NewExpressSfnErrorNotification
<1>15. ASSUME NEW props PROVE NewCloudwatchFlowLogs(self, props) => Step(self)
  BY RolesAreOwn DEF NewCloudwatchFlowLogs
<1>16. ASSUME NEW props PROVE NewCloudwatchEvents(self, props) => Step(self)
  BY RolesAreOwn DEF NewCloudwatchEvents
<1>17. ASSUME NEW props PROVE NewEventbridgeRule(self, props) => Step(self)
  BY RolesAreOwn DEF NewEventbridgeRule
<1>18. ASSUME NEW props, NEW docs PROVE NewIamRole(self, props, docs) => Step(self)
  BY RolesAreOwn, RoleTakesDocuments DEF NewIamRole
<1>19. QED
  BY <1>1, <1>2, <1>3, <1>4, <1>5, <1>6, <1>7, <1>8, <1>9, <1>10, <1>11, <1>12, <1>13,
     <1>14, <1>15, <1>16, <1>17, <1>18

-----------------------------------------------------------------------------
(* The inductive invariant.  A policy is as its maker wrote it, a document *)
(* what its IamPolicy built, and a role keeps the documents it was given.  *)
AsMade(adds) == \A on \in DOMAIN adds.policy : on \in DOMAIN policy /\ policy[on] = adds.policy[on]

PoliciesAsMade ==
  \A c \in DOMAIN made :
    /\ made[c].class = "SqsQueue" => AsMade(SqsQueue(c, Props(c)))
    /\ made[c].class = "S3Bucket" => AsMade(S3Bucket(c, Props(c)))
    /\ made[c].class = "S3LogStorage" => AsMade(S3LogStorage(c, Props(c)))
    /\ made[c].class = "Secret" => Props(c) \in Options.Secret /\ AsMade(Secret(c, Props(c)))

RolesKeepDocuments ==
  \A c \in Made("IamRole") : \A d \in Props(c).policyDocuments :
    <<c, "Role">> \in DOMAIN identity /\ d \subseteq identity[<<c, "Role">>]

DocumentsAsBuilt == \A p \in DOMAIN documents : documents[p] = buildPolicyDocument(Props(p))

AccessInv == TypeOK /\ PoliciesAsMade /\ RolesKeepDocuments /\ DocumentsAsBuilt

(* What a construct leaves alone: all that others made.                    *)
LEMMA ConstructedFrame ==
  ASSUME NEW self, NEW class, NEW props, Constructed(self, class, props)
  PROVE  /\ self \notin DOMAIN made
         /\ DOMAIN made' = DOMAIN made \cup {self}
         /\ made'[self].class = class /\ made'[self].props = props
         /\ \A c \in DOMAIN made : made'[c] = made[c]
BY DEF Constructed, ++, Only

Merges(self, adds) ==
  /\ DOMAIN policy' = DOMAIN policy \cup DOMAIN adds.policy
  /\ \A on \in DOMAIN policy : policy'[on] = policy[on]
  /\ \A on \in DOMAIN adds.policy : policy'[on] = adds.policy[on]
  /\ DOMAIN identity' = DOMAIN identity \cup DOMAIN adds.identity
  /\ \A id \in DOMAIN identity : identity[id] \subseteq identity'[id]
  /\ \A id \in DOMAIN adds.identity : adds.identity[id] \subseteq identity'[id]
  /\ documents' = documents
  /\ \A w \in wired' : w \in wired \/ w.from = self

LEMMA NewFrame ==
  ASSUME TypeOK, NEW self, NEW class, NEW props, NEW adds,
         New(self, class, props, adds), Own(self, adds)
  PROVE  Merges(self, adds)
<1>1. DOMAIN policy \cap DOMAIN adds.policy = {}
  <2>1. self \notin DOMAIN made
    BY ConstructedFrame DEF New
  <2>2. \A on \in DOMAIN policy : Maker(on) \in DOMAIN made
    BY DEF TypeOK
  <2>3. \A on \in DOMAIN adds.policy : Maker(on) = self
    BY DEF Own
  <2>4. QED
    BY <2>1, <2>2, <2>3
<1>2. policy' = Merged(policy, adds.policy) /\ identity' = Merged(identity, adds.identity)
  BY DEF New
<1>3. \A w \in wired' : w \in wired \/ w.from = self
  BY DEF New, ++
<1>4. /\ DOMAIN policy' = DOMAIN policy \cup DOMAIN adds.policy
      /\ \A on \in DOMAIN policy : policy'[on] = policy[on]
      /\ \A on \in DOMAIN adds.policy : policy'[on] = adds.policy[on]
  BY <1>1, <1>2 DEF Merged, Given
<1>5. /\ DOMAIN identity' = DOMAIN identity \cup DOMAIN adds.identity
      /\ \A id \in DOMAIN identity : identity[id] \subseteq identity'[id]
      /\ \A id \in DOMAIN adds.identity : adds.identity[id] \subseteq identity'[id]
  BY <1>2 DEF Merged, Given
<1>6. documents' = documents
  BY DEF New
<1>7. QED
  BY <1>3, <1>4, <1>5, <1>6 DEF Merges

(* The shape of what is made, and who owns it, in every step.              *)
LEMMA TypePreserved ==
  ASSUME TypeOK, NEW self \in Ids, Step(self)
  PROVE  TypeOK'
<1>1. CASE \E class \in Class : \E props, adds :
             New(self, class, props, adds) /\ Contributes(self, class, props, adds)
  <2>1. PICK class \in Class : \E props, adds :
               New(self, class, props, adds) /\ Contributes(self, class, props, adds)
    BY <1>1
  <2>2. PICK props, adds : New(self, class, props, adds) /\ Contributes(self, class, props, adds)
    BY <2>1
  <2>3. Own(self, adds) /\ class # "IamPolicy" /\ Constructed(self, class, props)
    BY <2>2 DEF Contributes, New
  <2>4. /\ self \notin DOMAIN made
        /\ DOMAIN made' = DOMAIN made \cup {self}
        /\ made'[self].class = class
        /\ \A c \in DOMAIN made : made'[c] = made[c]
    BY <2>3, ConstructedFrame
  <2>5. /\ DOMAIN policy' = DOMAIN policy \cup DOMAIN adds.policy
        /\ documents' = documents
        /\ \A w \in wired' : w \in wired \/ w.from = self
    BY <2>2, <2>3, NewFrame DEF Merges
  <2>6. Made("IamPolicy")' = Made("IamPolicy")
    BY <2>3, <2>4 DEF Made
  <2>7. QED
    BY <2>3, <2>4, <2>5, <2>6 DEF TypeOK, Own
<1>2. CASE \E props, docs : NewIamPolicy(self, props, docs)
  <2>1. PICK props, docs : NewIamPolicy(self, props, docs)
    BY <1>2
  <2>2. PICK all, document :
          /\ Constructed(self, "IamPolicy", all)
          /\ documents' = documents ++ Only(self, document)
          /\ UNCHANGED <<policy, identity, wired>>
    BY <2>1 DEF NewIamPolicy
  <2>3. /\ self \notin DOMAIN made
        /\ DOMAIN made' = DOMAIN made \cup {self}
        /\ made'[self].class = "IamPolicy"
        /\ \A c \in DOMAIN made : made'[c] = made[c]
    BY <2>2, ConstructedFrame
  <2>4. Made("IamPolicy")' = Made("IamPolicy") \cup {self}
    BY <2>3 DEF Made
  <2>5. DOMAIN documents' = DOMAIN documents \cup {self}
    BY <2>2 DEF ++, Only
  <2>6. QED
    BY <2>2, <2>3, <2>4, <2>5 DEF TypeOK, Class
<1>3. QED
  BY <1>1, <1>2 DEF Step

(* A construct of the four classes makes its policies; they stay, being    *)
(* its own.                                                                *)
LEMMA PoliciesPreserved ==
  ASSUME TypeOK, PoliciesAsMade, NEW self \in Ids, Step(self)
  PROVE  PoliciesAsMade'
<1>1. CASE \E class \in Class : \E props, adds :
             New(self, class, props, adds) /\ Contributes(self, class, props, adds)
  <2>1. PICK class \in Class : \E props, adds :
               New(self, class, props, adds) /\ Contributes(self, class, props, adds)
    BY <1>1
  <2>2. PICK props, adds : New(self, class, props, adds) /\ Contributes(self, class, props, adds)
    BY <2>1
  <2>3. Own(self, adds) /\ Constructed(self, class, props)
    BY <2>2 DEF Contributes, New
  <2>4. Merges(self, adds)
    BY <2>2, <2>3, NewFrame
  <2>5. ASSUME NEW others, AsMade(others) PROVE AsMade(others)'
    BY <2>4, <2>5 DEF AsMade, Merges
  <2>6. AsMade(adds)'
    BY <2>4 DEF AsMade, Merges
  <2>7. /\ DOMAIN made' = DOMAIN made \cup {self}
        /\ made'[self].class = class /\ made'[self].props = props
        /\ \A c \in DOMAIN made : made'[c] = made[c]
    BY <2>3, ConstructedFrame
  <2>8. \A c \in DOMAIN made : Props(c)' = Props(c)
    BY <2>7 DEF Props
  <2>9. QED
    BY <2>2, <2>3, <2>5, <2>6, <2>7, <2>8 DEF PoliciesAsMade, Contributes, Props
<1>2. CASE \E props, docs : NewIamPolicy(self, props, docs)
  <2>1. PICK all : Constructed(self, "IamPolicy", all) /\ UNCHANGED policy
    BY <1>2 DEF NewIamPolicy
  <2>2. /\ DOMAIN made' = DOMAIN made \cup {self}
        /\ made'[self].class = "IamPolicy"
        /\ \A c \in DOMAIN made : made'[c] = made[c]
    BY <2>1, ConstructedFrame
  <2>3. ASSUME NEW others, AsMade(others) PROVE AsMade(others)'
    BY <2>1, <2>3 DEF AsMade
  <2>4. QED
    BY <2>2, <2>3 DEF PoliciesAsMade, Props
<1>3. QED
  BY <1>1, <1>2 DEF Step

(* A role keeps the documents it was given: statements are only added.     *)
LEMMA RolesPreserved ==
  ASSUME TypeOK, RolesKeepDocuments, NEW self \in Ids, Step(self)
  PROVE  RolesKeepDocuments'
<1>1. CASE \E class \in Class : \E props, adds :
             New(self, class, props, adds) /\ Contributes(self, class, props, adds)
  <2>1. PICK class \in Class : \E props, adds :
               New(self, class, props, adds) /\ Contributes(self, class, props, adds)
    BY <1>1
  <2>2. PICK props, adds : New(self, class, props, adds) /\ Contributes(self, class, props, adds)
    BY <2>1
  <2>3. Own(self, adds) /\ Constructed(self, class, props)
    BY <2>2 DEF Contributes, New
  <2>4. Merges(self, adds)
    BY <2>2, <2>3, NewFrame
  <2>5. /\ DOMAIN made' = DOMAIN made \cup {self}
        /\ made'[self].class = class /\ made'[self].props = props
        /\ \A c \in DOMAIN made : made'[c] = made[c]
    BY <2>3, ConstructedFrame
  <2>6. ASSUME NEW c \in DOMAIN made', made'[c].class = "IamRole",
               NEW d \in made'[c].props.policyDocuments
        PROVE  <<c, "Role">> \in DOMAIN identity' /\ d \subseteq identity'[<<c, "Role">>]
    <3>1. CASE c = self
      <4>1. <<self, "Role">> \in DOMAIN adds.identity /\ d \subseteq adds.identity[<<self, "Role">>]
        BY <2>2, <2>5, <2>6, <3>1 DEF Contributes
      <4>2. QED
        BY <2>4, <3>1, <4>1 DEF Merges
    <3>2. CASE c \in DOMAIN made
      <4>1. <<c, "Role">> \in DOMAIN identity /\ d \subseteq identity[<<c, "Role">>]
        BY <2>5, <2>6, <3>2 DEF RolesKeepDocuments, Made, Props
      <4>2. QED
        BY <2>4, <4>1 DEF Merges
    <3>3. QED
      BY <2>5, <3>1, <3>2
  <2>7. QED
    BY <2>6 DEF RolesKeepDocuments, Made, Props
<1>2. CASE \E props, docs : NewIamPolicy(self, props, docs)
  <2>1. PICK all : Constructed(self, "IamPolicy", all) /\ UNCHANGED identity
    BY <1>2 DEF NewIamPolicy
  <2>2. /\ DOMAIN made' = DOMAIN made \cup {self}
        /\ made'[self].class = "IamPolicy"
        /\ \A c \in DOMAIN made : made'[c] = made[c]
    BY <2>1, ConstructedFrame
  <2>3. QED
    BY <2>1, <2>2 DEF RolesKeepDocuments, Made, Props
<1>3. QED
  BY <1>1, <1>2 DEF Step

(* A document is written once, from the props of its IamPolicy.            *)
LEMMA DocumentsPreserved ==
  ASSUME TypeOK, DocumentsAsBuilt, NEW self \in Ids, Step(self)
  PROVE  /\ DocumentsAsBuilt'
         /\ \A p \in DOMAIN documents : p \in DOMAIN documents' /\ documents'[p] = documents[p]
<1>1. CASE \E class \in Class : \E props, adds :
             New(self, class, props, adds) /\ Contributes(self, class, props, adds)
  <2>1. PICK class, props, adds : New(self, class, props, adds)
    BY <1>1
  <2>2. Constructed(self, class, props) /\ documents' = documents
    BY <2>1 DEF New
  <2>3. \A c \in DOMAIN made : made'[c] = made[c]
    BY <2>2, ConstructedFrame
  <2>4. DOMAIN documents \subseteq DOMAIN made
    BY DEF TypeOK, Made
  <2>5. QED
    BY <2>2, <2>3, <2>4 DEF DocumentsAsBuilt, Props
<1>2. CASE \E props, docs : NewIamPolicy(self, props, docs)
  <2>1. PICK all : /\ Constructed(self, "IamPolicy", all)
                   /\ documents' = documents ++ Only(self, buildPolicyDocument(all))
    BY <1>2 DEF NewIamPolicy
  <2>2. /\ self \notin DOMAIN made
        /\ made'[self].props = all
        /\ \A c \in DOMAIN made : made'[c] = made[c]
    BY <2>1, ConstructedFrame
  <2>3. DOMAIN documents \subseteq DOMAIN made
    BY DEF TypeOK, Made
  <2>4. /\ DOMAIN documents' = DOMAIN documents \cup {self}
        /\ documents'[self] = buildPolicyDocument(all)
        /\ \A p \in DOMAIN documents : documents'[p] = documents[p]
    BY <2>1, <2>2, <2>3 DEF ++, Only
  <2>5. QED
    BY <2>2, <2>3, <2>4 DEF DocumentsAsBuilt, Props
<1>3. QED
  BY <1>1, <1>2 DEF Step

LEMMA Invariant == Spec => []AccessInv
<1>1. Init => AccessInv
  BY DEF Init, EmptyMap, AccessInv, TypeOK, PoliciesAsMade, RolesKeepDocuments, DocumentsAsBuilt,
         Made
<1>2. AccessInv /\ [Next]_vars => AccessInv'
  <2>1. ASSUME AccessInv, Next PROVE AccessInv'
    <3>1. PICK self \in Ids : Step(self)
      BY <2>1, StepIs
    <3>2. QED
      BY <2>1, <3>1, TypePreserved, PoliciesPreserved, RolesPreserved, DocumentsPreserved
         DEF AccessInv
  <2>2. ASSUME AccessInv, UNCHANGED vars PROVE AccessInv'
    BY <2>2 DEF vars, AccessInv, TypeOK, PoliciesAsMade, AsMade, RolesKeepDocuments,
                DocumentsAsBuilt, Made, Props
  <2>3. QED
    BY <2>1, <2>2
<1>3. QED
  BY <1>1, <1>2, PTL DEF Spec

(* Every policy and every request is of a construct there is, and every    *)
(* document of an IamPolicy: nobody writes into what another will make.    *)
THEOREM TypeCorrect == Spec => []TypeOK
BY Invariant, PTL DEF AccessInv

-----------------------------------------------------------------------------
(* Denials.  A statement that denies and applies decides, whatever else    *)
(* the policies say.                                                       *)
LEMMA DenialDecides ==
  ASSUME NEW P, NEW I, NEW r, NEW s \in P,
         s.effect = "Deny", Applies(s, r), Names(s, r.by)
  PROVE  ~ Permits(P, I, r)
BY DEF Permits

LEMMA HolderOfObjects ==
  ASSUME NEW S, NEW bucket \in Seq(S), "*" \in S
  PROVE  Holder(Objects(bucket)) = bucket
<1>1. PICK objects \in Seq(S) : objects = Append(bucket, "*")
  BY AppendProperties
<1>2. /\ Len(objects) = Len(bucket) + 1 /\ objects[Len(bucket) + 1] = "*"
      /\ \A i \in 1..Len(bucket) : objects[i] = bucket[i]
  BY <1>1, AppendProperties
<1>3. Last(objects) = "*"
  BY <1>2 DEF Last
<1>4. Len(bucket) \in Nat /\ Len(objects) - 1 = Len(bucket)
  BY <1>2
<1>5. Front(objects) = SubSeq(objects, 1, Len(bucket))
  BY <1>4 DEF Front
<1>6. /\ SubSeq(objects, 1, Len(bucket)) \in Seq(S)
      /\ Len(SubSeq(objects, 1, Len(bucket))) = Len(bucket)
      /\ \A i \in 1..Len(bucket) : SubSeq(objects, 1, Len(bucket))[i] = objects[i]
  BY <1>4, <1>2
<1>7. SubSeq(objects, 1, Len(bucket)) = bucket
  BY <1>2, <1>6, SeqEqual
<1>8. QED
  BY <1>1, <1>3, <1>5, <1>7 DEF Holder, Objects

LEMMA HolderOf ==
  ASSUME NEW c
  PROVE  /\ Holder(<<c, "Queue">>) = <<c, "Queue">>
         /\ Holder(Objects(<<c, "Bucket">>)) = <<c, "Bucket">>
         /\ Holder(Objects(<<c, "Bucket", "Bucket">>)) = <<c, "Bucket", "Bucket">>
<1> DEFINE S == {c, "Bucket", "*"}
<1>1. Holder(<<c, "Queue">>) = <<c, "Queue">>
  BY DEF Holder, Last
<1>2. <<c, "Bucket">> \in Seq(S) /\ <<c, "Bucket", "Bucket">> \in Seq(S) /\ "*" \in S
  OBVIOUS
<1> HIDE DEF S
<1>3. QED
  BY <1>1, <1>2, HolderOfObjects

LEMMA LimitDenies ==
  ASSUME NEW queue, NEW by, NEW action \in {Send, Receive}, NEW keys,
         Given(keys, "SourceAccount", "none") # Account
  PROVE  LET r == Request(by, action, queue, keys)
         IN  SqsLimit(queue).effect = "Deny" /\ Applies(SqsLimit(queue), r) /\ Names(SqsLimit(queue), r.by)
<1> DEFINE s == SqsLimit(queue)
<1>1. /\ s.effect = "Deny" /\ s.principals = {AnyPrincipal} /\ s.actions = {<<"sqs", "*">>}
      /\ s.resources = {queue} /\ s.conditions = Only(<<"StringNotEquals", "SourceAccount">>, {Account})
      /\ {"notActions", "notResources", "notPrincipals"} \cap DOMAIN s = {}
  BY DEF SqsLimit, Statement, ++
<1>2. ActsOn(s.actions, action)
  BY <1>1 DEF ActsOn, Send, Receive
<1>3. Covers(s.resources, queue)
  BY <1>1 DEF Covers
<1>4. Holds("StringNotEquals", "SourceAccount", {Account}, keys)
  BY DEF Holds, Given
<1>5. \A c \in DOMAIN s.conditions : Holds(c[1], c[2], s.conditions[c], keys)
  BY <1>1, <1>4 DEF Only
<1> HIDE DEF s
<1>6. Applies(s, Request(by, action, queue, keys)) /\ Names(s, Request(by, action, queue, keys).by)
  BY <1>1, <1>2, <1>3, <1>5 DEF Applies, Names, Request
<1>7. QED
  BY <1>1, <1>6 DEF s

LEMMA SslDenies ==
  ASSUME NEW bucket, NEW by, NEW action \in {Get, Put}, NEW keys,
         Given(keys, "SecureTransport", "true") = "false"
  PROVE  LET r == Request(by, action, Objects(bucket), keys)
             s == AllowSSLRequestsOnly(bucket)
         IN  s.effect = "Deny" /\ Applies(s, r) /\ Names(s, r.by)
<1> DEFINE s == AllowSSLRequestsOnly(bucket)
<1>1. /\ s.effect = "Deny" /\ s.principals = {AnyPrincipal} /\ s.actions = {<<"s3", "*">>}
      /\ s.resources = {bucket, Objects(bucket)}
      /\ s.conditions = Only(<<"Bool", "SecureTransport">>, {"false"})
      /\ {"notActions", "notResources", "notPrincipals"} \cap DOMAIN s = {}
  BY DEF AllowSSLRequestsOnly, Statement, ++
<1>2. ActsOn(s.actions, action)
  BY <1>1 DEF ActsOn, Get, Put
<1>3. Covers(s.resources, Objects(bucket))
  BY <1>1 DEF Covers
<1>4. Holds("Bool", "SecureTransport", {"false"}, keys)
  BY DEF Holds, Given
<1>5. \A c \in DOMAIN s.conditions : Holds(c[1], c[2], s.conditions[c], keys)
  BY <1>1, <1>4 DEF Only
<1> HIDE DEF s
<1>6. /\ Applies(s, Request(by, action, Objects(bucket), keys))
      /\ Names(s, Request(by, action, Objects(bucket), keys).by)
  BY <1>1, <1>2, <1>3, <1>5 DEF Applies, Names, Request
<1>7. QED
  BY <1>1, <1>6 DEF s

LEMMA EncryptionDenies ==
  ASSUME NEW bucket, NEW by, NEW keys,
         Given(keys, "x-amz-server-side-encryption", "none") # "aws:kms"
  PROVE  LET r == Request(by, Put, Objects(bucket), keys)
             s == DenyUnEncryptedObjectUploads(bucket)
         IN  s.effect = "Deny" /\ Applies(s, r) /\ Names(s, r.by)
<1> DEFINE s == DenyUnEncryptedObjectUploads(bucket)
<1>1. /\ s.effect = "Deny" /\ s.principals = {AnyPrincipal} /\ s.actions = {Put}
      /\ s.resources = {Objects(bucket)}
      /\ s.conditions = Only(<<"StringNotEquals", "x-amz-server-side-encryption">>, {"aws:kms"})
      /\ {"notActions", "notResources", "notPrincipals"} \cap DOMAIN s = {}
  BY DEF DenyUnEncryptedObjectUploads, Statement, ++
<1>2. ActsOn(s.actions, Put)
  BY <1>1 DEF ActsOn
<1>3. Covers(s.resources, Objects(bucket))
  BY <1>1 DEF Covers
<1>4. Holds("StringNotEquals", "x-amz-server-side-encryption", {"aws:kms"}, keys)
  BY DEF Holds, Given
<1>5. \A c \in DOMAIN s.conditions : Holds(c[1], c[2], s.conditions[c], keys)
  BY <1>1, <1>4 DEF Only
<1> HIDE DEF s
<1>6. /\ Applies(s, Request(by, Put, Objects(bucket), keys))
      /\ Names(s, Request(by, Put, Objects(bucket), keys).by)
  BY <1>1, <1>2, <1>3, <1>5 DEF Applies, Names, Request
<1>7. QED
  BY <1>1, <1>6 DEF s

(* The denial is in the policy of whatever asked for it.                   *)
LEMMA DenialIsThere ==
  ASSUME PoliciesAsMade, NEW c \in DOMAIN made
  PROVE  /\ /\ made[c].class = "SqsQueue"
            /\ Given(Props(c), "iamPolicyLimitToCurrentAccount", TRUE)
            => SqsLimit(<<c, "Queue">>) \in policy[<<c, "Queue">>]
         /\ made[c].class = "S3Bucket" /\ Is(Props(c), "allowSslRequestsOnly")
            => AllowSSLRequestsOnly(<<c, "Bucket">>) \in policy[<<c, "Bucket">>]
         /\ made[c].class = "S3Bucket" /\ Is(Props(c), "allowEncryptedUploadsOnly")
            => DenyUnEncryptedObjectUploads(<<c, "Bucket">>) \in policy[<<c, "Bucket">>]
         /\ /\ made[c].class = "S3LogStorage"
            /\ Given(Props(c), "allowSslRequestsOnly", TRUE)
            => AllowSSLRequestsOnly(<<c, "Bucket", "Bucket">>) \in policy[<<c, "Bucket", "Bucket">>]
<1>1. ASSUME made[c].class = "SqsQueue", Given(Props(c), "iamPolicyLimitToCurrentAccount", TRUE)
      PROVE  SqsLimit(<<c, "Queue">>) \in policy[<<c, "Queue">>]
  BY <1>1 DEF PoliciesAsMade, AsMade, SqsQueue, Adds, Only
<1>2. ASSUME NEW bucket, NEW props, Is(props, "allowSslRequestsOnly")
      PROVE  AllowSSLRequestsOnly(bucket) \in S3BucketPolicy(bucket, props)
  BY <1>2 DEF S3BucketPolicy
<1>3. ASSUME NEW bucket, NEW props, Is(props, "allowEncryptedUploadsOnly")
      PROVE  DenyUnEncryptedObjectUploads(bucket) \in S3BucketPolicy(bucket, props)
  BY <1>3 DEF S3BucketPolicy
<1>4. ASSUME made[c].class = "S3Bucket"
      PROVE  policy[<<c, "Bucket">>] = S3BucketPolicy(<<c, "Bucket">>, Props(c))
  BY <1>4 DEF PoliciesAsMade, AsMade, S3Bucket, Adds, Only
<1>5. ASSUME made[c].class = "S3LogStorage", Given(Props(c), "allowSslRequestsOnly", TRUE)
      PROVE  AllowSSLRequestsOnly(<<c, "Bucket", "Bucket">>) \in policy[<<c, "Bucket", "Bucket">>]
  <2> DEFINE bucket == <<c, "Bucket", "Bucket">>
             inner  == toS3BucketProps(Props(c))
  <2>1. Is(inner, "allowSslRequestsOnly")
    BY <1>5 DEF toS3BucketProps, Is, Given
  <2>2. /\ bucket \in DOMAIN S3LogStorage(c, Props(c)).policy
        /\ S3LogStorage(c, Props(c)).policy[bucket] = S3BucketPolicy(bucket, inner)
    BY DEF S3LogStorage, Adds, ++, Only
  <2>3. policy[bucket] = S3BucketPolicy(bucket, inner)
    BY <1>5, <2>2 DEF PoliciesAsMade, AsMade
  <2>4. QED
    BY <1>2, <2>1, <2>3
<1>6. QED
  BY <1>1, <1>2, <1>3, <1>4, <1>5

LEMMA DenialsFollow == PoliciesAsMade => DenialsHold
<1> SUFFICES ASSUME PoliciesAsMade PROVE DenialsHold
  OBVIOUS
<1>1. ASSUME NEW c \in Made("SqsQueue"), Given(Props(c), "iamPolicyLimitToCurrentAccount", TRUE),
             NEW by \in Callers, NEW action \in {Send, Receive}, NEW keys \in RequestKeys,
             Given(keys, "SourceAccount", "none") # Account
      PROVE  ~ Permitted(Request(by, action, <<c, "Queue">>, keys))
  <2> DEFINE queue == <<c, "Queue">>
             r == Request(by, action, queue, keys)
  <2>1. SqsLimit(queue) \in policy[queue]
    BY <1>1, DenialIsThere DEF Made
  <2>2. SqsLimit(queue).effect = "Deny" /\ Applies(SqsLimit(queue), r) /\ Names(SqsLimit(queue), r.by)
    BY <1>1, LimitDenies
  <2>3. r.on = queue /\ Holder(queue) = queue
    BY HolderOf DEF Request
  <2> HIDE DEF r, queue
  <2>4. ~ Permits(policy[queue], Given(identity, r.by.id, {}), r)
    BY <2>1, <2>2, DenialDecides
  <2>5. ~ Permitted(r)
    BY <2>3, <2>4 DEF Permitted
  <2>6. QED
    BY <2>5 DEF r, queue
<1>2. ASSUME NEW bucket, Holder(Objects(bucket)) = bucket,
             AllowSSLRequestsOnly(bucket) \in policy[bucket],
             NEW by \in Callers, NEW action \in {Get, Put}, NEW keys \in RequestKeys,
             Given(keys, "SecureTransport", "true") = "false"
      PROVE  ~ Permitted(Request(by, action, Objects(bucket), keys))
  <2> DEFINE s == AllowSSLRequestsOnly(bucket)
             r == Request(by, action, Objects(bucket), keys)
  <2>1. s.effect = "Deny" /\ Applies(s, r) /\ Names(s, r.by)
    BY <1>2, SslDenies
  <2>2. s \in policy[bucket] /\ r.on = Objects(bucket)
    BY <1>2 DEF Request
  <2> HIDE DEF s, r
  <2>3. ~ Permits(policy[bucket], Given(identity, r.by.id, {}), r)
    BY <2>1, <2>2, DenialDecides
  <2>4. ~ Permitted(r)
    BY <1>2, <2>2, <2>3 DEF Permitted
  <2>5. QED
    BY <2>4 DEF r
<1>3. ASSUME NEW bucket, Holder(Objects(bucket)) = bucket,
             DenyUnEncryptedObjectUploads(bucket) \in policy[bucket],
             NEW by \in Callers, NEW keys \in RequestKeys,
             Given(keys, "x-amz-server-side-encryption", "none") # "aws:kms"
      PROVE  ~ Permitted(Request(by, Put, Objects(bucket), keys))
  <2> DEFINE s == DenyUnEncryptedObjectUploads(bucket)
             r == Request(by, Put, Objects(bucket), keys)
  <2>1. s.effect = "Deny" /\ Applies(s, r) /\ Names(s, r.by)
    BY <1>3, EncryptionDenies
  <2>2. s \in policy[bucket] /\ r.on = Objects(bucket)
    BY <1>3 DEF Request
  <2> HIDE DEF s, r
  <2>3. ~ Permits(policy[bucket], Given(identity, r.by.id, {}), r)
    BY <2>1, <2>2, DenialDecides
  <2>4. ~ Permitted(r)
    BY <1>3, <2>2, <2>3 DEF Permitted
  <2>5. QED
    BY <2>4 DEF r
<1>4. \A b \in BucketsFor("allowSslRequestsOnly") \cup LogBucketsForSsl :
        Holder(Objects(b)) = b /\ AllowSSLRequestsOnly(b) \in policy[b]
  BY DenialIsThere, HolderOf DEF BucketsFor, LogBucketsForSsl, Made
<1>5. \A b \in BucketsFor("allowEncryptedUploadsOnly") :
        Holder(Objects(b)) = b /\ DenyUnEncryptedObjectUploads(b) \in policy[b]
  BY DenialIsThere, HolderOf DEF BucketsFor, Made
<1>6. QED
  BY <1>1, <1>2, <1>3, <1>4, <1>5 DEF DenialsHold, Refuses

(* A queue limited to its account and a bucket that asks for SSL or for    *)
(* encryption refuse what they should, whatever statements and documents   *)
(* their policies or those of the caller hold besides.                     *)
THEOREM DenialsAlwaysHold == Spec => []DenialsHold
<1>1. AccessInv => DenialsHold
  BY DenialsFollow DEF AccessInv
<1>2. QED
  BY <1>1, Invariant, PTL

-----------------------------------------------------------------------------
(* Documents.  What an override replaces and what it leaves is decided by  *)
(* the sids alone.                                                         *)
LEMMA OverridesFollow == DocumentsAsBuilt => OverridesWin
<1> SUFFICES ASSUME DocumentsAsBuilt, NEW c \in DOMAIN documents
             PROVE  LET given(f)  == UNION Given(Props(c), f, {})
                        overrides == given("overridePolicyDocuments")
                        named     == {s.sid : s \in overrides} \ {""}
                    IN  /\ overrides \subseteq documents[c]
                        /\ \A s \in given("sourcePolicyDocuments") :
                             s.sid \notin named => s \in documents[c]
                        /\ \A s \in documents[c] : s.sid \in named => s \in overrides
  BY DEF OverridesWin
<1>1. documents[c] = buildPolicyDocument(Props(c))
  BY DEF DocumentsAsBuilt
<1>2. QED
  BY <1>1 DEF buildPolicyDocument, mergeStatements, parseDocumentStatements

(* Merging loses nothing but what an override of the same sid replaces,    *)
(* and a statement without a sid neither replaces nor is replaced.         *)
THEOREM OverridesAlwaysWin == Spec => []OverridesWin
<1>1. AccessInv => OverridesWin
  BY OverridesFollow DEF AccessInv
<1>2. QED
  BY <1>1, Invariant, PTL

(* A denying statement as the document holds it: of its own sid, with what *)
(* it was given and no condition.                                          *)
LEMMA BuiltDenies ==
  ASSUME NEW sid, NEW stmt,
         Given(stmt, "effect", "Allow") = "Deny",
         {"actions", "resources"} \subseteq DOMAIN stmt,
         DOMAIN stmt \cap {"notActions", "notResources", "conditions"} = {},
         NEW by, NEW on \in stmt.resources, NEW action \in stmt.actions, NEW keys
  PROVE  LET b == buildPolicyStatement(sid, stmt)
         IN  b.sid = sid /\ b.effect = "Deny" /\ Applies(b, Request(by, action, on, keys))
<1> DEFINE b == buildPolicyStatement(sid, stmt)
<1>1. /\ b.sid = sid /\ b.effect = "Deny"
      /\ b.actions = stmt.actions /\ b.resources = stmt.resources
      /\ {"notActions", "notResources"} \cap DOMAIN b = {}
  BY DEF buildPolicyStatement, Statement, ++
<1>2. b.conditions = EmptyMap
  BY DEF buildPolicyStatement, Statement, ++
<1>3. DOMAIN b.conditions = {}
  <2>1. DOMAIN EmptyMap = {}
    BY DEF EmptyMap
  <2>2. QED
    BY <1>2, <2>1
<1> HIDE DEF b
<1>4. Applies(b, Request(by, action, on, keys))
  BY <1>1, <1>3 DEF Applies, Request, ActsOn, Covers
<1>5. QED
  BY <1>1, <1>4 DEF b

(* It is in the document unless an override has its sid.                   *)
LEMMA BuiltStays ==
  ASSUME NEW props, NEW sid \in DOMAIN Given(props, "policyStatements", EmptyMap),
         \A d \in Given(props, "overridePolicyDocuments", {}) : \A o \in d : o.sid # sid,
         buildPolicyStatement(sid, props.policyStatements[sid]).sid = sid
  PROVE  buildPolicyStatement(sid, props.policyStatements[sid]) \in buildPolicyDocument(props)
<1>1. "policyStatements" \in DOMAIN props
  <2>1. DOMAIN EmptyMap = {}
    BY DEF EmptyMap
  <2>2. QED
    BY <2>1 DEF Given
<1>2. Given(props, "policyStatements", EmptyMap) = props.policyStatements
  BY <1>1 DEF Given
<1>3. QED
  BY <1>2 DEF buildPolicyDocument, mergeStatements, parseDocumentStatements

\* What identity policies deny, they deny: a caller whose own say does not count is refused.
LEMMA OwnDenialDecides ==
  ASSUME NEW I, NEW r, NEW s \in I, s.effect = "Deny", Applies(s, r)
  PROVE  ~ Permits({}, I, r)
BY DEF Permits

LEMMA DenialsReachRoles ==
  ASSUME RolesKeepDocuments, DocumentsAsBuilt
  PROVE  DenialsTravel
<1> SUFFICES ASSUME NEW c \in Made("IamRole"), NEW p \in DOMAIN documents,
                    documents[p] \in Props(c).policyDocuments,
                    NEW sid \in DOMAIN Given(Props(p), "policyStatements", EmptyMap),
                    Given(Props(p).policyStatements[sid], "effect", "Allow") = "Deny",
                    {"actions", "resources"} \subseteq DOMAIN Props(p).policyStatements[sid],
                    DOMAIN Props(p).policyStatements[sid]
                      \cap {"notActions", "notResources", "conditions"} = {},
                    \A d \in Given(Props(p), "overridePolicyDocuments", {}) :
                      \A o \in d : o.sid # sid,
                    NEW on \in Props(p).policyStatements[sid].resources,
                    NEW action \in Props(p).policyStatements[sid].actions
             PROVE  ~ Permits({}, identity[<<c, "Role">>], Calling(Arn(<<c, "Role">>), action, on))
  BY DEF DenialsTravel
<1> DEFINE b == buildPolicyStatement(sid, Props(p).policyStatements[sid])
           r == Calling(Arn(<<c, "Role">>), action, on)
<1>1. b.sid = sid /\ b.effect = "Deny" /\ Applies(b, r)
  BY BuiltDenies DEF Calling
<1>2. b \in documents[p]
  BY <1>1, BuiltStays DEF DocumentsAsBuilt
<1>3. b \in identity[<<c, "Role">>]
  BY <1>2 DEF RolesKeepDocuments
<1> HIDE DEF b, r
<1>4. ~ Permits({}, identity[<<c, "Role">>], r)
  BY <1>1, <1>3, OwnDenialDecides
<1>5. QED
  BY <1>4 DEF r

(* A role obeys the unconditional denials of every document it was given,  *)
(* whatever its other documents and later grants allow it.                 *)
THEOREM DenialsAlwaysTravel == Spec => []DenialsTravel
<1>1. AccessInv => DenialsTravel
  BY DenialsReachRoles DEF AccessInv
<1>2. QED
  BY <1>1, Invariant, PTL

-----------------------------------------------------------------------------
(* Nothing is revoked.  The policy that decides is the same, and what is   *)
(* added to the identity of a caller that is there are allowances.         *)
LEMMA AllowancesRevokeNothing ==
  ASSUME NEW P, NEW r, NEW old, NEW more,
         Local(r.by) => \A s \in more \ old : s.effect = "Allow",
         Permits(P, old, r)
  PROVE  Permits(P, old \cup more, r)
<1>1. CASE Local(r.by)
  BY <1>1 DEF Permits
<1>2. CASE ~ Local(r.by)
  BY <1>2 DEF Permits, OwnSayCounts
<1>3. QED
  BY <1>1, <1>2

LEMMA OneStepRevokesNothing ==
  ASSUME TypeOK, Next, NEW w, IsMade(w.on), IsThere(w.by), Permitted(w)
  PROVE  Permitted(w)'
<1>1. PICK self \in Ids : Step(self)
  BY StepIs
<1> DEFINE id == w.by.id
           old == Given(identity, id, {})
           P == policy[Holder(w.on)]
<1>2. Permits(P, old, w)
  BY DEF Permitted
<1>3. CASE \E class \in Class : \E props, adds :
             New(self, class, props, adds) /\ Contributes(self, class, props, adds)
  <2>1. PICK class \in Class : \E props, adds :
               New(self, class, props, adds) /\ Contributes(self, class, props, adds)
    BY <1>3
  <2>2. PICK props, adds : New(self, class, props, adds) /\ Contributes(self, class, props, adds)
    BY <2>1
  <2>3. Own(self, adds) /\ Constructed(self, class, props) /\ identity' = Merged(identity, adds.identity)
    BY <2>2 DEF Contributes, New
  <2>4. self \notin DOMAIN made
    BY <2>3, ConstructedFrame
  <2>5. Merges(self, adds)
    BY <2>2, <2>3, NewFrame
  <2>6. policy'[Holder(w.on)] = P
    BY <2>5 DEF Merges, IsMade
  <2> DEFINE more == Given(adds.identity, id, {})
  <2>7. Given(identity', id, {}) = old \cup more
    BY <2>3 DEF Merged, Given
  <2>8. Local(w.by) => \A s \in more : s.effect = "Allow"
    BY <2>3, <2>4 DEF Own, Given, Local, IsThere
  <2> HIDE DEF more, old, P
  <2>9. Permits(P, old \cup more, w)
    BY <1>2, <2>8, AllowancesRevokeNothing
  <2>10. Permits(policy'[Holder(w.on)], Given(identity', id, {}), w)
    BY <2>6, <2>7, <2>9
  <2>11. QED
    BY <2>10 DEF Permitted
<1>4. CASE \E props, docs : NewIamPolicy(self, props, docs)
  <2>1. policy' = policy /\ identity' = identity
    BY <1>4 DEF NewIamPolicy
  <2>2. QED
    BY <1>2, <2>1 DEF Permitted
<1>5. QED
  BY <1>1, <1>3, <1>4 DEF Step

(* Making a construct takes nothing from a part that is there already, in  *)
(* whatever account and whatever it is given the names of.                 *)
THEOREM NothingIsRevoked == Spec => NothingRevoked
<1>1. ASSUME TypeOK, [Next]_vars,
             NEW w \in wired, IsMade(w.on), IsThere(w.by), Permitted(w)
      PROVE  Permitted(w)'
  <2>1. CASE Next
    BY <1>1, <2>1, OneStepRevokesNothing
  <2>2. CASE UNCHANGED vars
    BY <1>1, <2>2 DEF vars, Permitted
  <2>3. QED
    BY <1>1, <2>1, <2>2
<1>2. TypeOK /\ [Next]_vars
      => [\A w \in wired : IsMade(w.on) /\ IsThere(w.by) /\ Permitted(w) => Permitted(w)']_vars
  BY <1>1
<1>3. QED
  BY <1>2, TypeCorrect, PTL DEF Spec, NothingRevoked

-----------------------------------------------------------------------------
(* Conditions.  The fold that builds them, unfolded.                       *)
\* What folding conditions unfolds to, and that it does.
Folds(f, cs, k) ==
  f = [s \in SUBSET (1..k) |-> IF s = {} THEN EmptyMap ELSE AddCondition(f[s \ {Max(s)}], cs[Max(s)])]

LEMMA MaxIs ==
  ASSUME NEW k \in Nat, NEW s \in SUBSET (1..k), k \in s
  PROVE  Max(s) = k
<1>1. \A y \in s : k >= y
  OBVIOUS
<1>2. \A x \in s : (\A y \in s : x >= y) => x = k
  BY <1>1
<1>3. QED
  BY <1>1, <1>2 DEF Max

LEMMA FoldIs ==
  ASSUME NEW cs, NEW n \in Nat, DOMAIN cs = 1..n
  PROVE  \E f : Folds(f, cs, n) /\ FoldLeft(AddCondition, EmptyMap, cs) = f[1..n]
<1> DEFINE Bad == {k \in 0..n : ~ \E f : Folds(f, cs, k)}
<1>1. Bad = {}
  <2>1. SUFFICES ASSUME Bad # {} PROVE FALSE
    OBVIOUS
  <2>2. Bad \in SUBSET Nat
    OBVIOUS
  <2> HIDE DEF Bad
  <2>3. PICK k \in Bad : k = 0 \/ k - 1 \notin Bad
    BY <2>1, <2>2, First
  <2>4. k \in 0..n /\ ~ \E f : Folds(f, cs, k)
    BY DEF Bad
  <2>5. CASE k = 0
    <3> DEFINE f == [s \in SUBSET (1..0) |-> EmptyMap]
    <3>1. \A s \in SUBSET (1..0) : s = {}
      OBVIOUS
    <3>2. f = [s \in SUBSET (1..0) |-> IF s = {} THEN EmptyMap ELSE AddCondition(f[s \ {Max(s)}], cs[Max(s)])]
      BY <3>1
    <3> HIDE DEF f
    <3>3. Folds(f, cs, 0)
      BY <3>2 DEF Folds
    <3>4. QED
      BY <3>3, <2>4, <2>5
  <2>6. CASE k # 0
    <3>1. k - 1 \in 0..n /\ k \in Nat /\ k - 1 \in Nat
      BY <2>4, <2>6
    <3>2. PICK f : Folds(f, cs, k - 1)
      BY <2>3, <2>6, <3>1 DEF Bad
    <3> DEFINE g == [s \in SUBSET (1..k) |-> IF k \in s THEN AddCondition(f[s \ {k}], cs[k]) ELSE f[s]]
    <3>3. ASSUME NEW s \in SUBSET (1..k)
          PROVE  g[s] = IF s = {} THEN EmptyMap ELSE AddCondition(g[s \ {Max(s)}], cs[Max(s)])
      <4>1. CASE k \in s
        <5>1. Max(s) = k
          BY <4>1, <3>1, MaxIs
        <5>2. g[s \ {k}] = f[s \ {k}]
          OBVIOUS
        <5>3. g[s] = AddCondition(f[s \ {k}], cs[k])
          BY <4>1
        <5> HIDE DEF g
        <5>4. QED
          BY <4>1, <5>1, <5>2, <5>3
      <4>2. CASE k \notin s
        <5>1. s \in SUBSET (1..(k - 1))
          BY <4>2, <3>1
        <5>2. f[s] = IF s = {} THEN EmptyMap ELSE AddCondition(f[s \ {Max(s)}], cs[Max(s)])
          BY <5>1, <3>2 DEF Folds
        <5>3. g[s] = f[s] /\ g[s \ {Max(s)}] = f[s \ {Max(s)}]
          BY <4>2
        <5> HIDE DEF g
        <5>4. QED
          BY <5>2, <5>3
      <4>3. QED
        BY <4>1, <4>2
    <3>4. g = [s \in SUBSET (1..k) |-> g[s]]
      OBVIOUS
    <3> HIDE DEF g
    <3>5. Folds(g, cs, k)
      BY <3>3, <3>4 DEF Folds
    <3>6. QED
      BY <3>5, <2>4
  <2>7. QED
    BY <2>5, <2>6
<1>2. \E f : Folds(f, cs, n)
  <2>1. n \in 0..n
    OBVIOUS
  <2>2. QED
    BY <1>1, <2>1
<1> DEFINE fold == CHOOSE f : Folds(f, cs, n)
<1>3. Folds(fold, cs, n)
  BY <1>2, Zenon
<1>4. FoldLeft(AddCondition, EmptyMap, cs) = fold[1..n]
  BY DEF FoldLeft, MapThenFoldSet, Folds
<1>5. QED
  BY <1>3, <1>4

Key(c) == <<c.test, c.variable>>

(* Of one test and variable the last values stay.                          *)
LEMMA LastStays ==
  ASSUME NEW cs, NEW n \in Nat, DOMAIN cs = 1..n
  PROVE  LET conditions == FoldLeft(AddCondition, EmptyMap, cs)
         IN  /\ DOMAIN conditions = {Key(cs[i]) : i \in 1..n}
             /\ \A k \in DOMAIN conditions : \E i \in 1..n :
                  /\ Key(cs[i]) = k /\ \A j \in 1..n : j > i => Key(cs[j]) # k
                  /\ conditions[k] = cs[i].values
<1>1. PICK f : Folds(f, cs, n) /\ FoldLeft(AddCondition, EmptyMap, cs) = f[1..n]
  BY FoldIs
<1> DEFINE Right(m) ==
             /\ DOMAIN f[1..m] = {Key(cs[i]) : i \in 1..m}
             /\ \A k \in DOMAIN f[1..m] : \E i \in 1..m :
                  /\ Key(cs[i]) = k /\ \A j \in 1..m : j > i => Key(cs[j]) # k
                  /\ f[1..m][k] = cs[i].values
           Wrong == {m \in 0..n : ~ Right(m)}
<1>2. Wrong = {}
  <2>1. SUFFICES ASSUME Wrong # {} PROVE FALSE
    OBVIOUS
  <2>2. Wrong \in SUBSET Nat
    OBVIOUS
  <2> HIDE DEF Wrong
  <2>3. PICK m \in Wrong : m = 0 \/ m - 1 \notin Wrong
    BY <2>1, <2>2, First
  <2>4. m \in 0..n /\ ~ Right(m)
    BY DEF Wrong
  <2>5. CASE m = 0
    <3>1. 1..0 = {} /\ {} \in SUBSET (1..n)
      OBVIOUS
    <3>2. f[1..0] = EmptyMap
      BY <1>1, <3>1 DEF Folds
    <3>3. DOMAIN EmptyMap = {}
      BY DEF EmptyMap
    <3>4. QED
      BY <2>4, <2>5, <3>1, <3>2, <3>3
  <2>6. CASE m # 0
    <3>1. m \in 1..n /\ m - 1 \in 0..n /\ m \in Nat
      BY <2>4, <2>6
    <3>2. Right(m - 1)
      BY <2>3, <2>6, <3>1 DEF Wrong
    <3>3. /\ 1..m \in SUBSET (1..n) /\ 1..m # {} /\ m \in 1..m
          /\ (1..m) \ {m} = 1..(m - 1)
      BY <3>1
    <3>4. Max(1..m) = m
      BY <3>1, <3>3, MaxIs
    <3>5. f[1..m] = AddCondition(f[1..(m - 1)], cs[m])
      BY <1>1, <3>3, <3>4 DEF Folds
    <3> DEFINE old == f[1..(m - 1)]
               new == f[1..m]
    <3>6. /\ DOMAIN new = DOMAIN old \cup {Key(cs[m])}
          /\ new[Key(cs[m])] = cs[m].values
          /\ \A k \in DOMAIN old \ {Key(cs[m])} : new[k] = old[k]
      BY <3>5 DEF AddCondition, ++, Only, Key
    <3> HIDE DEF old, new
    <3>7. DOMAIN new = {Key(cs[i]) : i \in 1..m}
      BY <3>1, <3>2, <3>6 DEF old
    <3>8. ASSUME NEW k \in DOMAIN new
          PROVE  \E i \in 1..m : /\ Key(cs[i]) = k /\ \A j \in 1..m : j > i => Key(cs[j]) # k
                                 /\ new[k] = cs[i].values
      <4>1. CASE k = Key(cs[m])
        BY <4>1, <3>1, <3>6
      <4>2. CASE k # Key(cs[m])
        <5>1. k \in DOMAIN old
          BY <4>2, <3>6
        <5>2. PICK i \in 1..(m - 1) :
                /\ Key(cs[i]) = k /\ \A j \in 1..(m - 1) : j > i => Key(cs[j]) # k
                /\ old[k] = cs[i].values
          BY <5>1, <3>2 DEF old
        <5>3. new[k] = old[k]
          BY <5>1, <4>2, <3>6
        <5>4. i \in 1..m /\ \A j \in 1..m : j > i => Key(cs[j]) # k
          BY <5>2, <4>2, <3>1
        <5>5. QED
          BY <5>2, <5>3, <5>4
      <4>3. QED
        BY <4>1, <4>2
    <3>9. QED
      BY <2>4, <3>7, <3>8 DEF new
  <2>7. QED
    BY <2>5, <2>6
<1>3. Right(n)
  BY <1>2
<1>4. QED
  BY <1>1, <1>3

(* The conditions given for a secret are a list.                           *)
LEMMA ConditionsListed ==
  ASSUME NEW props \in Options.Secret
  PROVE  \E n \in Nat : DOMAIN GivenConditions(Given(props, "secretReadPrincipals", << >>)) = 1..n
<1> DEFINE readers == Given(props, "secretReadPrincipals", << >>)
           lists == [i \in DOMAIN readers |-> Given(readers[i], "conditions", << >>)]
<1>1. /\ readers \in Seq(ToSet(readers))
      /\ \A r \in ToSet(readers) : Given(r, "conditions", << >>) \in Seq(SecretPrincipalCondition)
  BY SecretAssumption
<1>2. \A i \in DOMAIN readers : readers[i] \in ToSet(readers)
  BY DEF ToSet
<1> HIDE DEF readers
<1>3. lists \in Seq(Seq(SecretPrincipalCondition))
  <2>1. DOMAIN readers = 1..Len(readers) /\ Len(readers) \in Nat
    BY <1>1
  <2>2. lists \in [1..Len(readers) -> Seq(SecretPrincipalCondition)]
    BY <1>1, <1>2, <2>1
  <2>3. QED
    BY <2>1, <2>2
<1> HIDE DEF lists
<1>4. FlattenSeq(lists) \in Seq(SecretPrincipalCondition)
  BY <1>3, FlattenTyped
<1>5. /\ DOMAIN FlattenSeq(lists) = 1..Len(FlattenSeq(lists))
      /\ Len(FlattenSeq(lists)) \in Nat
  BY <1>4
<1>6. QED
  BY <1>5 DEF GivenConditions, lists, readers

(* Conditions hold when those hold that no later one replaced.             *)
LEMMA LastOnesBind ==
  ASSUME NEW cs, NEW n \in Nat, DOMAIN cs = 1..n, NEW keys
  PROVE  LET conditions == FoldLeft(AddCondition, EmptyMap, cs)
             binding == {i \in DOMAIN cs : \A j \in DOMAIN cs :
                           j > i => <<cs[j].test, cs[j].variable>> # <<cs[i].test, cs[i].variable>>}
         IN  (\A k \in DOMAIN conditions : Holds(k[1], k[2], conditions[k], keys))
             <=> \A i \in binding : Holds(cs[i].test, cs[i].variable, cs[i].values, keys)
<1> DEFINE conditions == FoldLeft(AddCondition, EmptyMap, cs)
           binding == {i \in DOMAIN cs : \A j \in DOMAIN cs :
                         j > i => <<cs[j].test, cs[j].variable>> # <<cs[i].test, cs[i].variable>>}
<1>1. /\ DOMAIN conditions = {Key(cs[i]) : i \in 1..n}
      /\ \A k \in DOMAIN conditions : \E i \in 1..n :
           /\ Key(cs[i]) = k /\ \A j \in 1..n : j > i => Key(cs[j]) # k
           /\ conditions[k] = cs[i].values
  BY LastStays
<1>2. binding = {i \in 1..n : \A j \in 1..n : j > i => Key(cs[j]) # Key(cs[i])}
  BY DEF Key
<1>3. \A i \in 1..n : Key(cs[i])[1] = cs[i].test /\ Key(cs[i])[2] = cs[i].variable
  BY DEF Key
<1> HIDE DEF conditions, binding
<1>4. ASSUME \A k \in DOMAIN conditions : Holds(k[1], k[2], conditions[k], keys),
             NEW i \in binding
      PROVE  Holds(cs[i].test, cs[i].variable, cs[i].values, keys)
  <2>1. i \in 1..n /\ \A j \in 1..n : j > i => Key(cs[j]) # Key(cs[i])
    BY <1>2
  <2>2. PICK m \in 1..n : /\ Key(cs[m]) = Key(cs[i])
                          /\ \A j \in 1..n : j > m => Key(cs[j]) # Key(cs[i])
                          /\ conditions[Key(cs[i])] = cs[m].values
    BY <1>1, <2>1
  <2>3. m = i
    BY <2>1, <2>2
  <2>4. Key(cs[i]) \in DOMAIN conditions
    BY <1>1, <2>1
  <2>5. QED
    BY <1>3, <1>4, <2>1, <2>2, <2>3, <2>4
<1>5. ASSUME \A i \in binding : Holds(cs[i].test, cs[i].variable, cs[i].values, keys),
             NEW k \in DOMAIN conditions
      PROVE  Holds(k[1], k[2], conditions[k], keys)
  <2>1. PICK i \in 1..n : /\ Key(cs[i]) = k /\ \A j \in 1..n : j > i => Key(cs[j]) # k
                          /\ conditions[k] = cs[i].values
    BY <1>1
  <2>2. i \in binding
    BY <1>2, <2>1
  <2>3. QED
    BY <1>3, <1>5, <2>1, <2>2
<1>6. QED
  BY <1>4, <1>5 DEF conditions, binding

(* The secret's policy decides about its readers by the conditions alone.  *)
LEMMA ReaderPermitted ==
  ASSUME NEW self, NEW props, NEW readers, readers # << >>,
         "secretReadPrincipals" \in DOMAIN props, readers = props.secretReadPrincipals,
         NEW by \in AnyOf(readers), NEW keys
  PROVE  LET secret == <<self, "Secret">>
             conditions == buildConditions(readers)
         IN  Permits(Secret(self, props).policy[secret], {}, Request(by, GetSecret, secret, keys))
             <=> \A k \in DOMAIN conditions : Holds(k[1], k[2], conditions[k], keys)
<1> DEFINE secret == <<self, "Secret">>
           ks == IF Given(props, "createKmsKey", TRUE) THEN {<<self, "Key">>} ELSE {}
           conditions == buildConditions(readers)
           read == [Allow(AnyOf(readers), ActionsOf("secretsmanager", {"GetSecretValue", "DescribeSecret"}),
                          {secret}) EXCEPT !.conditions = conditions]
           decrypt(k) == Allow(AnyOf(readers), ActionsOf("kms", {"Decrypt", "DescribeKey"}), {k})
           r == Request(by, GetSecret, secret, keys)
           P == Secret(self, props).policy[secret]
<1>1. P = secretReadPolicyStatements(secret, ks, readers)
  BY DEF Secret, Adds, ++, Only, Given
<1>2. P = {read} \cup {decrypt(k) : k \in ks}
  BY <1>1 DEF secretReadPolicyStatements
<1>3. /\ read.effect = "Allow" /\ read.conditions = conditions /\ read.resources = {secret}
      /\ read.principals = AnyOf(readers)
      /\ read.actions = ActionsOf("secretsmanager", {"GetSecretValue", "DescribeSecret"})
      /\ {"notActions", "notResources", "notPrincipals"} \cap DOMAIN read = {}
  BY DEF Allow, Statement, ++
<1>4. \A k \in ks : ~ Applies(decrypt(k), r)
  <2>1. ASSUME NEW k PROVE ~ Applies(decrypt(k), r)
    <3>1. /\ decrypt(k).actions = ActionsOf("kms", {"Decrypt", "DescribeKey"})
          /\ "notActions" \notin DOMAIN decrypt(k)
      BY DEF Allow, Statement, ++
    <3>2. ~ ActsOn(ActionsOf("kms", {"Decrypt", "DescribeKey"}), GetSecret)
      BY DEF ActsOn, ActionsOf, GetSecret
    <3> HIDE DEF decrypt
    <3>3. QED
      BY <3>1, <3>2 DEF Applies, Request
  <2>2. QED
    BY <2>1
<1>5. ActsOn(read.actions, GetSecret) /\ Covers(read.resources, secret)
  BY <1>3 DEF ActsOn, ActionsOf, GetSecret, Covers
<1>6. r.by = by /\ r.action = GetSecret /\ r.on = secret /\ r.keys = keys
  BY DEF Request
<1> HIDE DEF P, read, decrypt, r, secret, conditions
<1>7. Names(read, r.by)
  BY <1>3, <1>6 DEF Names
<1>8. Applies(read, r) <=> \A k \in DOMAIN conditions : Holds(k[1], k[2], conditions[k], keys)
  BY <1>3, <1>5, <1>6 DEF Applies
<1>9. Permits(P, {}, r) <=> Applies(read, r)
  <2>1. {s \in P : Applies(s, r) /\ Names(s, r.by)} = IF Applies(read, r) THEN {read} ELSE {}
    BY <1>2, <1>4, <1>7
  <2>2. QED
    BY <1>3, <2>1 DEF Permits
<1>10. QED
  BY <1>8, <1>9 DEF P, r, secret, conditions

LEMMA ConditionsFollow == PoliciesAsMade => ConditionsBind
<1> SUFFICES ASSUME PoliciesAsMade, NEW c \in Made("Secret")
    PROVE LET given == GivenConditions(ReadersOf(c))
              binding == {i \in DOMAIN given : \A j \in DOMAIN given :
                            j > i => <<given[j].test, given[j].variable>> # <<given[i].test, given[i].variable>>}
          IN  \A by \in AnyOf(ReadersOf(c)), keys \in RequestKeys :
                Permits(policy[<<c, "Secret">>], {}, Request(by, GetSecret, <<c, "Secret">>, keys))
                <=> \A i \in binding : Holds(given[i].test, given[i].variable, given[i].values, keys)
  BY DEF ConditionsBind
<1> DEFINE props == Props(c)
           readers == ReadersOf(c)
           given == GivenConditions(readers)
<1>1. props \in Options.Secret /\ AsMade(Secret(c, props))
  BY DEF PoliciesAsMade, Made
<1>2. policy[<<c, "Secret">>] = Secret(c, props).policy[<<c, "Secret">>]
  <2>1. <<c, "Secret">> \in DOMAIN Secret(c, props).policy
    BY DEF Secret, Adds, ++, Only
  <2>2. QED
    BY <1>1, <2>1 DEF AsMade
<1>3. PICK n \in Nat : DOMAIN given = 1..n
  BY <1>1, ConditionsListed DEF ReadersOf
<1>4. buildConditions(readers) = FoldLeft(AddCondition, EmptyMap, given)
  BY DEF buildConditions
<1>5. ASSUME NEW by \in AnyOf(readers)
      PROVE  readers # << >> /\ "secretReadPrincipals" \in DOMAIN props /\ readers = props.secretReadPrincipals
  BY DEF AnyOf, ToSet, ReadersOf, Given
<1> HIDE DEF props, readers, given
<1>6. ASSUME NEW by \in AnyOf(readers), NEW keys \in RequestKeys
      PROVE  Permits(policy[<<c, "Secret">>], {}, Request(by, GetSecret, <<c, "Secret">>, keys))
             <=> \A k \in DOMAIN buildConditions(readers) : Holds(k[1], k[2], buildConditions(readers)[k], keys)
  BY <1>2, <1>5, ReaderPermitted
<1>7. QED
  BY <1>3, <1>4, <1>6, LastOnesBind DEF given, readers

(* A reader of a secret gets it exactly when every condition holds that    *)
(* none later replaced, however many readers it was given and whichever    *)
(* of them brought the condition.                                          *)
THEOREM ConditionsAlwaysBind == Spec => []ConditionsBind
<1>1. AccessInv => ConditionsBind
  BY ConditionsFollow DEF AccessInv
<1>2. QED
  BY <1>1, Invariant, PTL
=============================================================================
