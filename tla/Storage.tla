------------------------------- MODULE Storage -------------------------------
(***************************************************************************)
(* The constructors of buckets, web sites, secrets, keys and mail domains. *)
(***************************************************************************)
EXTENDS Constructs

-----------------------------------------------------------------------------
(* S3Bucket, and S3LogStorage, which contains one *)

BucketBody(self, ctx, props) ==
  <<New(self \o <<"Bucket">>, Resource("Bucket", Given(props, "bucketName", contextId(ctx)), {}))>>
  \o Parse(Given(props, "sourcePolicyDocuments", "valid"))

S3Bucket_AlwaysEnabled(self, ctx, props) ==
  <<New(self, Construct)>> \o BucketBody(self, ctx, props) \o <<AddTags(self, contextTags(ctx))>>
S3Bucket(self, ctx, props) == Constructor(self, ctx, BucketBody(self, ctx, props))

\* bucket.addEventNotification makes a custom resource below the bucket; the function behind
\* it, which CDK makes once for the whole stack and outside of every construct, is left out.
LogStorageBody(self, ctx, props) ==
  LET queue  == self \o <<"NotificationQueue">>
      bucket == self \o <<"Bucket", "Bucket">>
  IN  S3Bucket(self \o <<"Bucket">>, ctx, props)
      \o When(Is(props, "notificationsEnabled") /\ Given(props, "notificationsType", "SQS") = "SQS",
              << New(queue, Resource("Queue", Dashed(contextId(ctx), "notifications"), {})),
                 New(bucket \o <<"Notifications">>,
                     Resource("BucketNotifications", << >>, {bucket, queue})) >>)

S3LogStorage_TagsScope(self, ctx, props) ==
  <<New(self, Construct)>>
  \o When(isEnabled(ctx),
          LogStorageBody(self, ctx, props) \o <<AddTags(Front(self), contextTags(ctx))>>)
S3LogStorage(self, ctx, props) == Constructor(self, ctx, LogStorageBody(self, ctx, props))

-----------------------------------------------------------------------------
(* Secret *)

secretContext(ctx, props) ==
  extendContext(ctx, [attributes |-> Given(props, "secretAttributesOverride",
                                           << <<Word["secret"]>> >>)])
kmsKeyContext(ctx, props) ==
  extendContext(ctx, [attributes |-> Given(props, "kmsKeyAttributesOverride",
                                           << <<Word["key"]>> >>)])

Secret(self, ctx, props) ==
  LET key    == self \o <<"Key">>
      name   == contextId(secretContext(ctx, props))
      ownKey == Given(props, "createKmsKey", TRUE)
      uses   == IF ownKey THEN {key} ELSE {}
  IN  Constructor(self, ctx,
        When(ownKey,
             << New(key, Resource("Key", << >>, {})),
                New(self \o <<"KeyAlias">>,
                    Resource("Alias", contextId(kmsKeyContext(ctx, props)), {key})) >>)
        \o <<New(self \o <<"Secret">>, Resource("Secret", name, uses))>>
        \o When(Is(props, "createSns"),
                <<New(self \o <<"Topic">>, Resource("Topic", Dashed(name, "updates"), uses))>>))

-----------------------------------------------------------------------------
(* KmsKey *)

KmsKey(self, ctx, props) ==
  LET key == self \o <<"Key">>
  IN  Constructor(self, ctx,
        Parse(Given(props, "policy", "valid"))
        \o << New(key, Resource("Key", << >>, {})),
              New(self \o <<"Alias">>,
                  Resource("Alias", Given(props, "alias", contextId(ctx)), {key})) >>)

-----------------------------------------------------------------------------
(* S3Website *)

S3Website(self, ctx, props) ==
  LET bucket == self \o <<"OriginBucket">>
      oac    == self \o <<"OAC">>
      acl    == self \o <<"WebAcl">>
      dist   == self \o <<"Distribution">>
      waf    == Is(props, "wafEnabled")
  IN  Constructor(self, ctx,
        << New(bucket, Resource("Bucket", Dashed(contextId(ctx), "origin"), {})),
           New(oac, Resource("OriginAccessControl", << >>, {})) >>
        \o When(waf, <<New(acl, Resource("WebACL", << >>, {}))>>)
        \o <<New(dist, Resource("Distribution", << >>,
                                {bucket, oac} \cup IF waf THEN {acl} ELSE {}))>>
        \o When(Is(props, "dnsAliasEnabled") /\ Is(props, "parentZoneId"),
                <<New(self \o <<"DnsAlias">>, Resource("RecordSet", contextId(ctx), {dist}))>>))

-----------------------------------------------------------------------------
(* Ses: the identity, its DNS records, and the group and user that may send *)

SesRecords(self, props) ==
  LET zone   == Is(props, "zoneId") /\ Is(props, "zoneName")
      record == Resource("RecordSet", << >>, {self \o <<"Identity">>})
  IN  When(Is(props, "verifyDomain") /\ zone, <<New(self \o <<"VerificationRecord">>, record)>>)
      \o When(Is(props, "verifyDkim") /\ zone,
              [i \in 1..3 |-> New(self \o <<"DkimRecord" \o ToString(i)>>, record)])

\* An access key, and inline policies that may fail to parse.
SesUser(self, ctx, props) ==
  LET user  == self \o <<"User">>
      group == IF Given(props, "sesGroupEnabled", TRUE) THEN {self \o <<"Group">>} ELSE {}
      name  == Dashed(Dashed(contextId(ctx), "ses"), "user")
  IN  <<New(user, Resource("User", name, group))>>
      \o When(Given(props, "createIamAccessKey", TRUE),
              <<New(self \o <<"AccessKey">>, Resource("AccessKey", << >>, {user}))>>)
      \o When("inlinePolicies" \in DOMAIN props,
              Parse(props.inlinePolicies)
              \o <<New(self \o <<"InlinePolicy0">>, Resource("Policy", << >>, {user}))>>)

Ses(self, ctx, props) ==
  LET groupName == Given(props, "sesGroupName", Dashed(contextId(ctx), "ses"))
  IN  Constructor(self, ctx,
        <<New(self \o <<"Identity">>, Resource("EmailIdentity", contextId(ctx), {}))>>
        \o SesRecords(self, props)
        \o When(Given(props, "sesGroupEnabled", TRUE),
                <<New(self \o <<"Group">>, Resource("Group", groupName, {}))>>)
        \o When(Given(props, "sesUserEnabled", TRUE), SesUser(self, ctx, props)))
=============================================================================
