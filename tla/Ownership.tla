----------------------------- MODULE Ownership -----------------------------
(***************************************************************************)
(* Which node and edge types each collector is answerable for when a       *)
(* collection is reconciled, and which edges each collector emits.         *)
(***************************************************************************)

Services == {"iam", "s3", "secretsmanager", "kms", "sqs", "sns", "ec2",
             "lambda", "ecs", "vpc", "elbv2", "rds"}

\* Collectors that run once; the others run in every requested region.
GlobalServices == {"iam", "s3"}

OwnedNodes ==
  [ iam            |-> {"aws-account", "iam-user", "iam-group", "iam-role", "iam-policy", "instance-profile"},
    s3             |-> {"s3-bucket"},
    secretsmanager |-> {"secret"},
    kms            |-> {"kms-key"},
    sqs            |-> {"sqs-queue"},
    sns            |-> {"sns-topic"},
    ec2            |-> {"ec2-instance"},
    lambda         |-> {"lambda-function"},
    ecs            |-> {"ecs-task-definition", "ecs-cluster", "ecs-service"},
    vpc            |-> {"vpc", "subnet", "route-table", "security-group", "network-acl",
                        "internet-gateway", "nat-gateway"},
    elbv2          |-> {"load-balancer", "target-group"},
    rds            |-> {"rds-instance"} ]

PolicyEdges == {"public-access", "cross-account-access"}

OwnedEdges ==
  [ iam            |-> {"member-of", "attached-policy", "inline-policy", "runs-as"},
    s3             |-> PolicyEdges,
    secretsmanager |-> {"encrypted-by"} \cup PolicyEdges,
    kms            |-> PolicyEdges,
    sqs            |-> PolicyEdges,
    sns            |-> PolicyEdges,
    ec2            |-> {"has-instance-profile", "deployed-in"},
    lambda         |-> {"runs-as"} \cup PolicyEdges,
    ecs            |-> {"runs-as"},
    vpc            |-> {"attached-to", "deployed-in", "routes-to", "allows-ingress"},
    elbv2          |-> {"attached-to", "deployed-in", "fronts"},
    rds            |-> {"attached-to", "deployed-in"} ]

\* A sub-request that fails for one resource drops that resource, or the edges
\* of its policy, without recording a warning.
DropsNodesSilently == {"kms", "sqs", "sns", "ecs"}
DropsPoliciesSilently == {"s3", "secretsmanager", "kms", "sqs", "sns", "lambda"}
=============================================================================
